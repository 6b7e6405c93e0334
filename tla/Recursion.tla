----------------------------- MODULE Recursion -----------------------------
(***************************************************************************)
(* Induction over the natural numbers and recursion on them, for the proofs  *)
(* about the loops that the models write as recursive functions.  Predicates *)
(* are given as sets of numbers, and steps as functions.                     *)
(***************************************************************************)
EXTENDS Integers, WellFoundedInduction, TLAPS

LEMMA NatInductionOnSets ==
  ASSUME NEW S, 0 \in S, \A n \in Nat : n \in S => n + 1 \in S
  PROVE  \A n \in Nat : n \in S
<1> DEFINE T == {n \in Nat : n \notin S}
<1> SUFFICES ASSUME T # {} PROVE FALSE
  OBVIOUS
<1>1. PICK n \in T : \A m \in T : ~ (<<m, n>> \in OpToRel(<, Nat))
  <2>1. T \subseteq Nat
    OBVIOUS
  <2> HIDE DEF T
  <2> QED BY <2>1, NatLessThanWellFounded, WFMin
<1>2. n \in Nat /\ n # 0 /\ n - 1 \in Nat /\ n - 1 < n /\ (n - 1) + 1 = n
  <2>1. n \in Nat /\ n # 0
    OBVIOUS
  <2> QED BY <2>1, SMT
<1>3. n - 1 \notin T
  <2>1. <<n - 1, n>> \in Nat \X Nat /\ <<n - 1, n>>[1] = n - 1 /\ <<n - 1, n>>[2] = n
    BY <1>2
  <2>2. <<n - 1, n>> \in OpToRel(<, Nat)
    BY <1>2, <2>1 DEF OpToRel
  <2> HIDE DEF T
  <2> QED BY <1>1, <2>2
<1> QED BY <1>2, <1>3

(* Course-of-values induction. *)
LEMMA StrongInductionOnSets ==
  ASSUME NEW S, \A n \in Nat : (\A m \in Nat : m < n => m \in S) => n \in S
  PROVE  \A n \in Nat : n \in S
<1> DEFINE T == {n \in Nat : \A m \in Nat : m < n => m \in S}
<1>1. 0 \in T
  <2>1. 0 \in Nat /\ \A m \in Nat : ~ (m < 0)
    BY SMT
  <2> QED BY <2>1
<1>2. ASSUME NEW n \in Nat, n \in T PROVE n + 1 \in T
  <2>1. n + 1 \in Nat /\ \A m \in Nat : m < n + 1 => m < n \/ m = n
    BY SMT
  <2>2. n \in S
    BY <1>2
  <2> QED BY <1>2, <2>1, <2>2
<1> HIDE DEF T
<1>3. \A n \in Nat : n \in T
  BY <1>1, <1>2, NatInductionOnSets
<1> QED BY <1>3 DEF T

LEMMA LeastNumber ==
  ASSUME NEW S, NEW n \in Nat, n \in S
  PROVE  \E m \in Nat : m \in S /\ \A k \in Nat : k < m => k \notin S
<1> DEFINE T == {k \in Nat : k \notin S}
<1> SUFFICES ASSUME \A m \in Nat : m \in S => \E k \in Nat : k < m /\ k \in S
             PROVE  FALSE
  OBVIOUS
<1>1. \A m \in Nat : (\A k \in Nat : k < m => k \in T) => m \in T
  OBVIOUS
<1> HIDE DEF T
<1>2. n \in T
  BY <1>1, StrongInductionOnSets
<1> QED BY <1>2 DEF T

(* f[n] is base[n], or what step[n] makes of the value at down[n]. *)
Recursive(f, D, base, down, step) ==
  f = [n \in D |-> IF n \in DOMAIN base THEN base[n] ELSE step[n][f[down[n]]]]

LEMMA RecursiveAt ==
  ASSUME NEW f, NEW D, NEW base, NEW down, NEW step, Recursive(f, D, base, down, step),
         NEW n \in D
  PROVE  f[n] = IF n \in DOMAIN base THEN base[n] ELSE step[n][f[down[n]]]
BY DEF Recursive

LEMMA RecursionUnique ==
  ASSUME NEW base, NEW down, NEW step,
         \A n \in Nat : n \notin DOMAIN base => down[n] \in Nat /\ down[n] < n,
         NEW a \in Nat, NEW f, Recursive(f, 0 .. a, base, down, step),
         NEW b \in Nat, NEW g, Recursive(g, 0 .. b, base, down, step)
  PROVE  \A n \in Nat : n <= a /\ n <= b => f[n] = g[n]
<1> DEFINE S == {n \in Nat : n <= a /\ n <= b => f[n] = g[n]}
<1>1. ASSUME NEW n \in Nat, \A m \in Nat : m < n => m \in S PROVE n \in S
  <2> SUFFICES ASSUME n <= a, n <= b PROVE f[n] = g[n]
    OBVIOUS
  <2>1. n \in 0 .. a /\ n \in 0 .. b
    BY SMT
  <2>2. CASE n \in DOMAIN base
    BY <2>1, <2>2, RecursiveAt
  <2>3. CASE n \notin DOMAIN base
    <3>1. down[n] \in Nat /\ down[n] < n
      BY <2>3
    <3>2. down[n] <= a /\ down[n] <= b
      BY <3>1, SMT
    <3>3. f[down[n]] = g[down[n]]
      BY <1>1, <3>1, <3>2
    <3> QED BY <2>1, <2>3, <3>3, RecursiveAt
  <2> QED BY <2>2, <2>3
<1> HIDE DEF S
<1>2. \A n \in Nat : n \in S
  BY <1>1, StrongInductionOnSets
<1> QED BY <1>2 DEF S

LEMMA RecursionUpTo ==
  ASSUME NEW T, NEW base, \A n \in DOMAIN base : base[n] \in T,
         NEW down, NEW step,
         \A n \in Nat : n \notin DOMAIN base => down[n] \in Nat /\ down[n] < n,
         \A n \in Nat : n \notin DOMAIN base => step[n] \in [T -> T]
  PROVE  \A a \in Nat : \E f \in [0 .. a -> T] : Recursive(f, 0 .. a, base, down, step)
<1> DEFINE S == {a \in Nat :
                   \E f \in [0 .. a -> T] : Recursive(f, 0 .. a, base, down, step)}
<1>1. 0 \in S
  <2> DEFINE f == [n \in 0 .. 0 |-> base[n]]
  <2>1. 0 \in Nat /\ \A n \in 0 .. 0 : n = 0
    BY SMT
  <2>2. 0 \in DOMAIN base
    <3> SUFFICES ASSUME 0 \notin DOMAIN base PROVE FALSE
      OBVIOUS
    <3>1. down[0] \in Nat /\ down[0] < 0
      BY <2>1
    <3> QED BY <3>1, SMT
  <2>3. f \in [0 .. 0 -> T]
    BY <2>1, <2>2
  <2>4. \A n \in 0 .. 0 : base[n] = IF n \in DOMAIN base THEN base[n] ELSE step[n][f[down[n]]]
    BY <2>1, <2>2
  <2>5. f = [n \in 0 .. 0 |-> IF n \in DOMAIN base THEN base[n] ELSE step[n][f[down[n]]]]
    BY <2>4
  <2> HIDE DEF f
  <2>6. Recursive(f, 0 .. 0, base, down, step)
    BY <2>5 DEF Recursive
  <2> QED BY <2>1, <2>3, <2>6
<1>2. ASSUME NEW a \in Nat, a \in S PROVE a + 1 \in S
  <2>1. PICK f \in [0 .. a -> T] : Recursive(f, 0 .. a, base, down, step)
    BY <1>2
  <2> DEFINE last == IF a + 1 \in DOMAIN base THEN base[a + 1]
                     ELSE step[a + 1][f[down[a + 1]]]
             g == [n \in 0 .. a + 1 |-> IF n = a + 1 THEN last ELSE f[n]]
  <2>2. /\ a + 1 \in Nat
        /\ \A n \in 0 .. a + 1 : n \in Nat /\ (n # a + 1 => n \in 0 .. a)
        /\ \A n \in 0 .. a : n \in 0 .. a + 1 /\ n # a + 1
        /\ \A n \in 0 .. a + 1, m \in Nat : m < n => m \in 0 .. a
    BY SMT
  <2>3. last \in T
    <3>1. CASE a + 1 \in DOMAIN base
      BY <3>1
    <3>2. CASE a + 1 \notin DOMAIN base
      <4>1. down[a + 1] \in Nat /\ down[a + 1] < a + 1
        BY <2>2, <3>2
      <4>2. a + 1 \in 0 .. a + 1
        BY SMT
      <4>3. down[a + 1] \in 0 .. a
        BY <2>2, <4>1, <4>2
      <4>4. step[a + 1] \in [T -> T] /\ f[down[a + 1]] \in T
        BY <2>2, <3>2, <4>3
      <4> QED BY <3>2, <4>4
    <3> QED BY <3>1, <3>2
  <2>4. g \in [0 .. a + 1 -> T]
    <3> HIDE DEF last
    <3> QED BY <2>2, <2>3
  <2>5. \A n \in 0 .. a : g[n] = f[n]
    <3> HIDE DEF last
    <3> QED BY <2>2
  <2>6. ASSUME NEW n \in 0 .. a + 1
        PROVE  g[n] = IF n \in DOMAIN base THEN base[n] ELSE step[n][g[down[n]]]
    <3>1. CASE n \in DOMAIN base
      <4>1. CASE n = a + 1
        BY <3>1, <4>1
      <4>2. CASE n # a + 1
        <5>1. n \in 0 .. a
          BY <2>2, <4>2
        <5>2. g[n] = f[n]
          BY <2>5, <5>1
        <5> HIDE DEF g
        <5> QED BY <2>1, <3>1, <5>1, <5>2, RecursiveAt
      <4> QED BY <4>1, <4>2
    <3>2. CASE n \notin DOMAIN base
      <4>1. down[n] \in Nat /\ down[n] < n
        BY <2>2, <3>2
      <4>2. down[n] \in 0 .. a
        BY <2>2, <4>1
      <4>3. g[down[n]] = f[down[n]]
        BY <2>5, <4>2
      <4>4. CASE n = a + 1
        <5>1. g[n] = last
          <6> HIDE DEF last
          <6> QED BY <4>4
        <5> HIDE DEF g
        <5> QED BY <3>2, <4>3, <4>4, <5>1
      <4>5. CASE n # a + 1
        <5>1. n \in 0 .. a
          BY <2>2, <4>5
        <5>2. g[n] = f[n]
          BY <2>5, <5>1
        <5> HIDE DEF g
        <5> QED BY <2>1, <3>2, <4>3, <5>1, <5>2, RecursiveAt
      <4> QED BY <4>4, <4>5
    <3> QED BY <3>1, <3>2
  <2>7. g = [n \in 0 .. a + 1 |-> g[n]]
    BY <2>4
  <2> HIDE DEF g
  <2>8. Recursive(g, 0 .. a + 1, base, down, step)
    BY <2>6, <2>7 DEF Recursive
  <2> QED BY <2>2, <2>4, <2>8
<1> HIDE DEF S
<1>3. \A a \in Nat : a \in S
  BY <1>1, <1>2, NatInductionOnSets
<1> QED BY <1>3 DEF S

(* A function that is defined by recursion on the natural numbers exists. *)
LEMMA RecursionOnNat ==
  ASSUME NEW T, NEW base, \A n \in DOMAIN base : base[n] \in T,
         NEW down, NEW step,
         \A n \in Nat : n \notin DOMAIN base => down[n] \in Nat /\ down[n] < n,
         \A n \in Nat : n \notin DOMAIN base => step[n] \in [T -> T]
  PROVE  \E f \in [Nat -> T] : Recursive(f, Nat, base, down, step)
<1> DEFINE P(f, a) == f \in [0 .. a -> T] /\ Recursive(f, 0 .. a, base, down, step)
           c(a) == CHOOSE f : P(f, a)
           f == [n \in Nat |-> c(n)[n]]
<1>1. \A a \in Nat : P(c(a), a)
  <2>1. \A a \in Nat : \E g \in [0 .. a -> T] : Recursive(g, 0 .. a, base, down, step)
    BY RecursionUpTo
  <2> QED BY <2>1
<1>2. \A n \in Nat : n \in 0 .. n /\ n <= n
  BY SMT
<1> HIDE DEF c
<1>3. f \in [Nat -> T]
  BY <1>1, <1>2
<1>4. ASSUME NEW n \in Nat
      PROVE  f[n] = IF n \in DOMAIN base THEN base[n] ELSE step[n][f[down[n]]]
  <2>1. c(n)[n] = IF n \in DOMAIN base THEN base[n] ELSE step[n][c(n)[down[n]]]
    BY <1>1, <1>2, RecursiveAt
  <2>2. CASE n \notin DOMAIN base
    <3>1. down[n] \in Nat /\ down[n] < n
      BY <2>2
    <3>2. down[n] <= n /\ down[n] <= down[n]
      BY <3>1, SMT
    <3>3. c(n)[down[n]] = c(down[n])[down[n]]
      <4>1. P(c(n), n) /\ P(c(down[n]), down[n])
        BY <1>1, <3>1
      <4> QED BY <3>1, <3>2, <4>1, RecursionUnique
    <3> QED BY <2>1, <2>2, <3>1, <3>3
  <2> QED BY <2>1, <2>2
<1>5. f = [n \in Nat |-> f[n]]
  OBVIOUS
<1> HIDE DEF f
<1>6. Recursive(f, Nat, base, down, step)
  BY <1>4, <1>5 DEF Recursive
<1> QED BY <1>3, <1>6

(* So does the list of the states of a loop of n turns that starts with a. *)
Turns(turn, T, n) == \A k \in 1 .. n : turn[k] \in [T -> T]

LEMMA LoopOfTurns ==
  ASSUME NEW T, NEW a \in T, NEW n \in Nat, NEW turn, Turns(turn, T, n)
  PROVE  \E f \in [0 .. n -> T] : f[0] = a /\ \A k \in 1 .. n : f[k] = turn[k][f[k - 1]]
<1> DEFINE base == [k \in {0} |-> a]
           down == [k \in Nat |-> k - 1]
           step == [k \in Nat |-> IF k \in 1 .. n THEN turn[k] ELSE [t \in T |-> t]]
<1>1. \A k \in DOMAIN base : base[k] \in T
  OBVIOUS
<1>2. \A k \in Nat : k \notin DOMAIN base => down[k] \in Nat /\ down[k] < k
  BY SMT
<1>3. \A k \in Nat : k \notin DOMAIN base => step[k] \in [T -> T]
  BY DEF Turns
<1>4. /\ \A k : k \in DOMAIN base <=> k = 0
      /\ base[0] = a
      /\ \A k \in 1 .. n : k \in Nat /\ down[k] = k - 1 /\ step[k] = turn[k]
  OBVIOUS
<1> HIDE DEF base, down, step
<1>5. PICK f \in [0 .. n -> T] : Recursive(f, 0 .. n, base, down, step)
  BY <1>1, <1>2, <1>3, RecursionUpTo
<1>6. 0 \in 0 .. n /\ \A k \in 1 .. n : k \in 0 .. n /\ k # 0
  BY SMT
<1>7. \A k \in 0 .. n : f[k] = IF k = 0 THEN a ELSE step[k][f[down[k]]]
  BY <1>4, <1>5, RecursiveAt
<1>8. \A k \in 1 .. n : f[k] = turn[k][f[k - 1]]
  BY <1>4, <1>6, <1>7
<1> QED BY <1>6, <1>7, <1>8

=============================================================================
