------------------------ MODULE Argon2EncodingProofs ------------------------
(***************************************************************************)
(* Hash strings: encoding succeeds exactly when its buffer is long enough,   *)
(* what is encoded is decoded again, a context has one spelling, and no      *)
(* field of a string is longer than the string: for any alphabet, radix,     *)
(* size of a byte and context.                                               *)
(***************************************************************************)
EXTENDS Argon2Encoding, SequenceTheorems, Recursion

(***************************************************************************)
(* Loops over a sequence.                                                    *)
(***************************************************************************)

(* A turn makes a state of T from one of them and an element of C. *)
TurnsOn(C, T) == [T \X C -> T]

IsFold(f, a, step, s) ==
  f = [k \in 0 .. Len(s) |-> IF k = 0 THEN a ELSE step[<<f[k - 1], s[k]>>]]

(* The state after the last turn of a loop that starts with a. *)
States(a, step, s) == CHOOSE f : IsFold(f, a, step, s)

Fold(a, step, s) == States(a, step, s)[Len(s)]

LEMMA FoldExists ==
  ASSUME NEW T, NEW C, NEW a \in T, NEW step \in TurnsOn(C, T), NEW s \in Seq(C)
  PROVE  /\ States(a, step, s) \in [0 .. Len(s) -> T]
         /\ Len(s) \in Nat /\ States(a, step, s)[0] = a
         /\ \A k \in 1 .. Len(s) :
              /\ States(a, step, s)[k - 1] \in T
              /\ States(a, step, s)[k] = step[<<States(a, step, s)[k - 1], s[k]>>]
<1> DEFINE n == Len(s)
           turn == [k \in 1 .. n |-> [t \in T |-> step[<<t, s[k]>>]]]
           f == States(a, step, s)
<1>1. n \in Nat /\ \A k \in 1 .. n : s[k] \in C
  BY LenProperties, ElementOfSeq
<1>2. Turns(turn, T, n)
  BY <1>1 DEF Turns, TurnsOn
<1>3. \A k \in 1 .. n : k # 0 /\ k \in 0 .. n /\ k - 1 \in 0 .. n
  BY <1>1, SMT
<1>4. \A k \in 0 .. n : k # 0 => k \in 1 .. n
  BY <1>1, SMT
<1>0. 0 \in 0 .. n /\ n \in 0 .. n
  BY <1>1, SMT
<1>5. \A k \in 1 .. n, t \in T : turn[k][t] = step[<<t, s[k]>>]
  OBVIOUS
<1> HIDE DEF turn
<1>6. PICK g \in [0 .. n -> T] :
        g[0] = a /\ \A k \in 1 .. n : g[k] = turn[k][g[k - 1]]
  <2>1. n \in Nat
    BY <1>1
  <2> HIDE DEF n
  <2> QED BY <1>2, <2>1, LoopOfTurns
<1> HIDE DEF n
<1>7. \A k \in 0 .. n : g[k] = IF k = 0 THEN a ELSE step[<<g[k - 1], s[k]>>]
  <2> SUFFICES ASSUME NEW k \in 0 .. n
               PROVE  g[k] = IF k = 0 THEN a ELSE step[<<g[k - 1], s[k]>>]
    OBVIOUS
  <2>1. g[k] = IF k = 0 THEN a ELSE turn[k][g[k - 1]]
    BY <1>4, <1>6
  <2>2. k # 0 => g[k - 1] \in T
    BY <1>3, <1>4, <1>6
  <2> QED BY <1>4, <1>5, <2>1, <2>2
<1>8. IsFold(g, a, step, s)
  <2>1. g = [k \in 0 .. n |-> g[k]]
    BY <1>6
  <2> QED BY <1>7, <2>1 DEF IsFold, n
<1>9. IsFold(f, a, step, s)
  BY <1>8 DEF States
<1> HIDE DEF f
<1>10. DOMAIN f = 0 .. n /\ f[0] = a /\ \A k \in 1 .. n : f[k] = step[<<f[k - 1], s[k]>>]
  BY <1>0, <1>3, <1>9 DEF IsFold, n
<1> DEFINE S == {k \in Nat : k \in 0 .. n => f[k] \in T}
<1>11. 0 \in S
  BY <1>10
<1>12. ASSUME NEW k \in Nat, k \in S PROVE k + 1 \in S
  <2> SUFFICES ASSUME k + 1 \in 0 .. n PROVE f[k + 1] \in T
    OBVIOUS
  <2>1. k + 1 \in 1 .. n /\ (k + 1) - 1 = k /\ k \in 0 .. n
    BY <1>1, SMT
  <2>2. f[k] \in T
    BY <1>12, <2>1
  <2> QED BY <1>1, <1>10, <2>1, <2>2 DEF TurnsOn
<1> HIDE DEF S
<1>13. \A k \in Nat : k \in S
  BY <1>11, <1>12, NatInductionOnSets
<1>14. \A k \in 0 .. n : k \in Nat
  BY <1>1, SMT
<1>15. \A k \in 0 .. n : f[k] \in T
  BY <1>13, <1>14 DEF S
<1>16. f \in [0 .. n -> T]
  BY <1>9, <1>10, <1>15 DEF IsFold, n
<1>17. \A k \in 1 .. n : f[k - 1] \in T
  BY <1>3, <1>15
<1> QED BY <1>1, <1>10, <1>16, <1>17 DEF n, f

(* Two lists of the states of a loop agree as far as both go. *)
InStep(f, g, n) ==
  f[0] = g[0] /\ \A k \in 1 .. n : f[k - 1] = g[k - 1] => f[k] = g[k]

LEMMA FoldsAgree ==
  ASSUME NEW n \in Nat, NEW f, NEW g, InStep(f, g, n)
  PROVE  \A k \in 0 .. n : f[k] = g[k]
<1> DEFINE S == {k \in Nat : k \in 0 .. n => f[k] = g[k]}
<1>1. 0 \in S
  BY DEF InStep
<1>2. ASSUME NEW k \in Nat, k \in S PROVE k + 1 \in S
  <2> SUFFICES ASSUME k + 1 \in 0 .. n PROVE f[k + 1] = g[k + 1]
    OBVIOUS
  <2>1. k + 1 \in 1 .. n /\ (k + 1) - 1 = k /\ k \in 0 .. n
    BY SMT
  <2> QED BY <1>2, <2>1 DEF InStep
<1> HIDE DEF S
<1>3. \A k \in Nat : k \in S
  BY <1>1, <1>2, NatInductionOnSets
<1>4. \A k \in 0 .. n : k \in Nat
  BY SMT
<1> QED BY <1>3, <1>4 DEF S

LEMMA FoldEmpty ==
  ASSUME NEW T, NEW C, NEW a \in T, NEW step \in TurnsOn(C, T)
  PROVE  Fold(a, step, <<>>) = a
<1>1. ASSUME NEW s \in Seq(C), Len(s) = 0 PROVE Fold(a, step, s) = a
  <2>1. States(a, step, s)[0] = a
    BY FoldExists
  <2> QED BY <1>1, <2>1 DEF Fold
<1>2. <<>> \in Seq(C) /\ Len(<<>>) = 0
  BY EmptySeq
<1> QED BY <1>1, <1>2

LEMMA FoldType ==
  ASSUME NEW T, NEW C, NEW a \in T, NEW step \in TurnsOn(C, T), NEW s \in Seq(C)
  PROVE  Fold(a, step, s) \in T
<1> DEFINE f == States(a, step, s)
           n == Len(s)
<1>1. /\ f \in [0 .. n -> T] /\ n \in Nat /\ Fold(a, step, s) = f[n]
  BY FoldExists DEF Fold
<1> HIDE DEF f, n
<1>2. n \in 0 .. n
  BY <1>1, SMT
<1> QED BY <1>1, <1>2

LEMMA FoldAppend ==
  ASSUME NEW T, NEW C, NEW a \in T, NEW step \in TurnsOn(C, T),
         NEW s \in Seq(C), NEW c \in C
  PROVE  Fold(a, step, Append(s, c)) = step[<<Fold(a, step, s), c>>]
<1> DEFINE t == Append(s, c)
           n == Len(s)
           f == States(a, step, s)
           g == States(a, step, t)
<1>1. /\ t \in Seq(C) /\ Len(t) = n + 1 /\ t[n + 1] = c
      /\ \A k \in 1 .. n : t[k] = s[k]
  BY AppendProperties
<1>0. Fold(a, step, s) = f[n] /\ Fold(a, step, t) = g[Len(t)]
  BY DEF Fold
<1> HIDE DEF t
<1>2. /\ n \in Nat /\ f[0] = a
      /\ \A k \in 1 .. n : f[k] = step[<<f[k - 1], s[k]>>]
  BY FoldExists
<1>3. /\ g[0] = a
      /\ \A k \in 1 .. Len(t) : g[k] = step[<<g[k - 1], t[k]>>]
  BY <1>1, FoldExists
<1> HIDE DEF f, g, n
<1>4. \A k \in 1 .. n : k \in 1 .. n + 1
  BY <1>2, SMT
<1>5. InStep(f, g, n)
  BY <1>1, <1>2, <1>3, <1>4 DEF InStep
<1>6. \A k \in 0 .. n : f[k] = g[k]
  BY <1>2, <1>5, FoldsAgree
<1>7. n \in 0 .. n /\ n + 1 \in 1 .. n + 1 /\ (n + 1) - 1 = n
  BY <1>2, SMT
<1> QED BY <1>0, <1>1, <1>2, <1>3, <1>6, <1>7 DEF t

(* Induction over sequences, with a set for the predicate. *)
LEMMA SeqInductionOnSets ==
  ASSUME NEW C, NEW S, <<>> \in S,
         \A s \in Seq(C), c \in C : s \in S => Append(s, c) \in S
  PROVE  \A s \in Seq(C) : s \in S
<1> DEFINE N == {n \in Nat : \A s \in Seq(C) : Len(s) = n => s \in S}
<1>1. 0 \in N
  BY EmptySeq
<1>2. ASSUME NEW n \in Nat, n \in N PROVE n + 1 \in N
  <2> SUFFICES ASSUME NEW s \in Seq(C), Len(s) = n + 1 PROVE s \in S
    OBVIOUS
  <2>1. s # <<>>
    BY EmptySeq, SMT
  <2>2. PICK t \in Seq(C), c \in C : s = Append(t, c)
    BY <2>1, SequenceEmptyOrAppend
  <2>3. Len(t) = n
    <3>1. Len(t) \in Nat /\ Len(s) = Len(t) + 1
      BY <2>2, AppendProperties, LenProperties
    <3> QED BY <3>1, SMT
  <2> QED BY <1>2, <2>2, <2>3
<1> HIDE DEF N
<1>3. \A n \in Nat : n \in N
  BY <1>1, <1>2, NatInductionOnSets
<1> QED BY <1>3, LenProperties DEF N

(***************************************************************************)
(* Arithmetic.                                                               *)
(***************************************************************************)

LEMMA Exp2Is ==
  /\ exp2 \in [Nat -> Nat] /\ exp2[0] = 1
  /\ \A n \in Nat : n # 0 => exp2[n] = 2 * exp2[n - 1]
<1> DEFINE base == [n \in {0} |-> 1]
           down == [n \in Nat |-> n - 1]
           step == [n \in Nat |-> [t \in Nat |-> 2 * t]]
<1>1. \A n \in DOMAIN base : base[n] \in Nat
  OBVIOUS
<1>2. \A n \in Nat : n \notin DOMAIN base => down[n] \in Nat /\ down[n] < n
  BY SMT
<1>3. \A n \in Nat : n \notin DOMAIN base => step[n] \in [Nat -> Nat]
  BY SMT
<1>4. /\ \A n : n \in DOMAIN base <=> n = 0
      /\ base[0] = 1
      /\ \A n \in Nat : down[n] = n - 1
      /\ \A n \in Nat, t \in Nat : step[n][t] = 2 * t
  OBVIOUS
<1> HIDE DEF base, down, step
<1>5. PICK f \in [Nat -> Nat] : Recursive(f, Nat, base, down, step)
  BY <1>1, <1>2, <1>3, RecursionOnNat
<1>6. \A n \in Nat : f[n] = IF n = 0 THEN 1 ELSE 2 * f[n - 1]
  <2> SUFFICES ASSUME NEW n \in Nat PROVE f[n] = IF n = 0 THEN 1 ELSE 2 * f[n - 1]
    OBVIOUS
  <2>1. f[n] = IF n \in DOMAIN base THEN base[n] ELSE step[n][f[down[n]]]
    BY <1>5, RecursiveAt
  <2>2. (n # 0) => (n - 1 \in Nat)
    BY SMT
  <2>3. CASE n = 0
    BY <1>4, <2>1, <2>3
  <2>4. CASE n # 0
    <3>1. step[n][f[n - 1]] = 2 * f[n - 1]
      BY <1>4, <2>2, <2>4
    <3> QED BY <1>4, <2>1, <2>4, <3>1
  <2> QED BY <2>3, <2>4
<1>7. f = [n \in Nat |-> IF n = 0 THEN 1 ELSE 2 * f[n - 1]]
  <2>1. f = [n \in Nat |-> f[n]]
    OBVIOUS
  <2> QED BY <1>6, <2>1
<1>8. \E g : g = [n \in Nat |-> IF n = 0 THEN 1 ELSE 2 * g[n - 1]]
  BY <1>7
<1>9. exp2 = [n \in Nat |-> IF n = 0 THEN 1 ELSE 2 * exp2[n - 1]]
  BY <1>8 DEF exp2
<1>10. exp2[0] = 1 /\ \A n \in Nat : n # 0 => exp2[n] = 2 * exp2[n - 1]
  <2>1. 0 \in Nat
    BY SMT
  <2> QED BY <1>9, <2>1
<1> DEFINE S == {n \in Nat : exp2[n] \in Nat}
<1>11. 0 \in S
  BY <1>10
<1>12. ASSUME NEW n \in Nat, n \in S PROVE n + 1 \in S
  <2>1. n + 1 \in Nat /\ n + 1 # 0 /\ (n + 1) - 1 = n
    BY SMT
  <2>2. exp2[n + 1] = 2 * exp2[n] /\ exp2[n] \in Nat
    BY <1>10, <1>12, <2>1
  <2> QED BY <2>1, <2>2, SMT
<1> HIDE DEF S
<1>13. \A n \in Nat : n \in S
  BY <1>11, <1>12, NatInductionOnSets
<1>14. exp2 \in [Nat -> Nat]
  BY <1>9, <1>13 DEF S
<1> QED BY <1>10, <1>14

LEMMA Exp2Sum ==
  ASSUME NEW a \in Nat, NEW b \in Nat
  PROVE  exp2[a + b] = exp2[a] * exp2[b]
<1> DEFINE S == {n \in Nat : exp2[a + n] = exp2[a] * exp2[n]}
<1>1. 0 \in S
  <2>1. 0 \in Nat /\ a + 0 = a /\ exp2[a] \in Nat
    BY Exp2Is, SMT
  <2>2. exp2[a] * 1 = exp2[a]
    BY <2>1, SMT
  <2> QED BY <2>1, <2>2, Exp2Is
<1>2. ASSUME NEW n \in Nat, n \in S PROVE n + 1 \in S
  <2>1. n + 1 \in Nat /\ n + 1 # 0 /\ (n + 1) - 1 = n
        /\ a + (n + 1) \in Nat /\ a + (n + 1) # 0 /\ (a + (n + 1)) - 1 = a + n
    BY SMT
  <2>2. /\ exp2[n + 1] = 2 * exp2[n] /\ exp2[a + (n + 1)] = 2 * exp2[a + n]
        /\ exp2[a] \in Nat /\ exp2[n] \in Nat /\ exp2[a + n] = exp2[a] * exp2[n]
    BY <1>2, <2>1, Exp2Is
  <2> DEFINE x == exp2[a]
             y == exp2[n]
  <2> HIDE DEF x, y
  <2>3. 2 * (x * y) = x * (2 * y)
    BY <2>2, SMT DEF x, y
  <2> QED BY <2>1, <2>2, <2>3 DEF x, y
<1> HIDE DEF S
<1>3. \A n \in Nat : n \in S
  BY <1>1, <1>2, NatInductionOnSets
<1> QED BY <1>3 DEF S

LEMMA Exp2Positive == \A n \in Nat : exp2[n] \in Nat /\ exp2[n] >= 1
<1> DEFINE S == {n \in Nat : exp2[n] >= 1}
<1>1. 0 \in S
  BY Exp2Is, SMT
<1>2. ASSUME NEW n \in Nat, n \in S PROVE n + 1 \in S
  <2>1. n + 1 \in Nat /\ n + 1 # 0 /\ (n + 1) - 1 = n
    BY SMT
  <2>2. exp2[n + 1] = 2 * exp2[n] /\ exp2[n] \in Nat /\ exp2[n] >= 1
    BY <1>2, <2>1, Exp2Is
  <2>3. exp2[n + 1] >= 1
    BY <2>2, SMT
  <2> QED BY <2>1, <2>3
<1> HIDE DEF S
<1>3. \A n \in Nat : n \in S
  BY <1>1, <1>2, NatInductionOnSets
<1> QED BY <1>3, Exp2Is DEF S

LEMMA MultMonotone ==
  ASSUME NEW a \in Nat, NEW b \in Nat, NEW c \in Nat, a <= b
  PROVE  a * c <= b * c
<1> DEFINE d == b - a
<1>1. d \in Nat /\ b = a + d
  BY SMT
<1> HIDE DEF d
<1>2. b * c = a * c + d * c /\ d * c \in Nat /\ a * c \in Nat
  BY <1>1, SMT
<1> QED BY <1>2, SMT

(* The quotient and the remainder are unique. *)
LEMMA DivModUnique ==
  ASSUME NEW w \in Nat, NEW q \in Nat, NEW r \in Nat, r < w
  PROVE  (q * w + r) \div w = q /\ (q * w + r) % w = r
<1> DEFINE n == q * w + r
           d == n \div w
           m == n % w
<1>1. n \in Nat /\ w >= 1
  BY SMT
<1> HIDE DEF n
<1>2. d \in Nat /\ m \in Nat /\ m < w /\ n = w * d + m
  BY <1>1, SMT
<1> HIDE DEF d, m
<1>3. n = q * w + r /\ n = d * w + m
  BY <1>2, SMT DEF n
<1>4. ~ d < q
  <2> SUFFICES ASSUME d < q PROVE FALSE OBVIOUS
  <2>1. d + 1 <= q /\ d + 1 \in Nat
    BY <1>2, SMT
  <2>2. (d + 1) * w <= q * w
    BY <2>1, MultMonotone
  <2>3. (d + 1) * w = d * w + w /\ d * w \in Nat /\ q * w \in Nat
    BY <1>2, SMT
  <2> QED BY <1>2, <1>3, <2>2, <2>3, SMT
<1>5. ~ q < d
  <2> SUFFICES ASSUME q < d PROVE FALSE OBVIOUS
  <2>1. q + 1 <= d /\ q + 1 \in Nat
    BY <1>2, SMT
  <2>2. (q + 1) * w <= d * w
    BY <1>2, <2>1, MultMonotone
  <2>3. (q + 1) * w = q * w + w /\ d * w \in Nat /\ q * w \in Nat
    BY <1>2, SMT
  <2> QED BY <1>2, <1>3, <2>2, <2>3, SMT
<1>6. d = q
  BY <1>2, <1>4, <1>5, SMT
<1>7. m = r
  BY <1>2, <1>3, <1>6, SMT
<1> QED BY <1>6, <1>7 DEF d, m, n

LEMMA DivModIs ==
  ASSUME NEW w \in Nat, w >= 1, NEW n \in Nat
  PROVE  /\ n \div w \in Nat /\ n % w \in Nat /\ n % w < w
         /\ n = (n \div w) * w + (n % w)
<1> DEFINE d == n \div w
           m == n % w
<1>1. d \in Nat /\ m \in Nat /\ m < w /\ n = w * d + m
  BY SMT
<1> HIDE DEF d, m
<1>2. w * d = d * w
  BY <1>1, SMT
<1> QED BY <1>1, <1>2 DEF d, m

(* A number cut at two places. *)
LEMMA DivModProduct ==
  ASSUME NEW p \in Nat, p >= 1, NEW q \in Nat, q >= 1, NEW n \in Nat
  PROVE  /\ n % (p * q) = ((n \div p) % q) * p + (n % p)
         /\ (n % (p * q)) % p = n % p
<1> DEFINE d == n \div p
           m == n % p
           e == d \div q
           k == d % q
<1>1. d \in Nat /\ m \in Nat /\ m < p /\ n = d * p + m
  BY DivModIs
<1> HIDE DEF d, m
<1>2. e \in Nat /\ k \in Nat /\ k < q /\ d = e * q + k
  BY <1>1, DivModIs
<1> HIDE DEF e, k
<1> DEFINE r == k * p + m
           w == p * q
<1>3. r \in Nat /\ w \in Nat
  BY <1>1, <1>2, SMT
<1>4. r < w
  <2>1. k + 1 <= q /\ k + 1 \in Nat
    BY <1>2, SMT
  <2>2. (k + 1) * p <= q * p
    BY <2>1, MultMonotone
  <2>3. (k + 1) * p = k * p + p /\ q * p = w /\ k * p \in Nat
    BY <1>2, SMT
  <2> HIDE DEF w
  <2> QED BY <1>1, <1>3, <2>2, <2>3, SMT DEF r
<1>5. n = e * w + r
  <2>1. (e * q + k) * p = e * (p * q) + k * p
    BY <1>2, SMT
  <2>2. n = e * (p * q) + k * p + m
    BY <1>1, <1>2, <2>1
  <2>3. e * (p * q) \in Nat /\ k * p \in Nat
    BY <1>2, SMT
  <2> QED BY <1>1, <2>2, <2>3, SMT
<1> HIDE DEF w, r
<1>6. n % w = r
  BY <1>2, <1>3, <1>4, <1>5, DivModUnique
<1>7. r % p = m
  BY <1>1, <1>2, DivModUnique DEF r
<1> QED BY <1>6, <1>7 DEF w, r, d, m, k

(***************************************************************************)
(* The number that a sequence of digits stands for.                          *)
(***************************************************************************)

(* Every digit of C has a value below the base, and no two have the same. *)
Numeral(C, val, base) ==
  /\ base \in Nat /\ base >= 1
  /\ val \in [C -> 0 .. base - 1]
  /\ \A c, d \in C : val[c] = val[d] => c = d

Number(base, val, s) ==
  Fold(0, [p \in Nat \X DOMAIN val |-> p[1] * base + val[p[2]]], s)

LEMMA NumberTurn ==
  ASSUME NEW C, NEW val, NEW base, Numeral(C, val, base)
  PROVE  LET step == [p \in Nat \X DOMAIN val |-> p[1] * base + val[p[2]]]
         IN  /\ step \in TurnsOn(C, Nat) /\ DOMAIN val = C
             /\ \A n \in Nat, c \in C : step[<<n, c>>] = n * base + val[c]
<1>1. DOMAIN val = C /\ base \in Nat /\ \A c \in C : val[c] \in Nat
  <2>1. \A k \in 0 .. base - 1 : k \in Nat
    BY SMT DEF Numeral
  <2> QED BY <2>1 DEF Numeral
<1>2. \A n \in Nat, c \in C : n * base + val[c] \in Nat
  BY <1>1, SMT
<1> QED BY <1>1, <1>2 DEF TurnsOn

LEMMA NumberEmpty ==
  ASSUME NEW C, NEW val, NEW base, Numeral(C, val, base)
  PROVE  Number(base, val, <<>>) = 0
<1> DEFINE step == [p \in Nat \X DOMAIN val |-> p[1] * base + val[p[2]]]
<1>1. step \in TurnsOn(C, Nat) /\ 0 \in Nat
  BY NumberTurn
<1> HIDE DEF step
<1>2. Fold(0, step, <<>>) = 0
  BY <1>1, FoldEmpty
<1> QED BY <1>2 DEF Number, step

LEMMA NumberType ==
  ASSUME NEW C, NEW val, NEW base, Numeral(C, val, base), NEW s \in Seq(C)
  PROVE  Number(base, val, s) \in Nat
<1> DEFINE step == [p \in Nat \X DOMAIN val |-> p[1] * base + val[p[2]]]
<1>1. step \in TurnsOn(C, Nat) /\ 0 \in Nat
  BY NumberTurn
<1> HIDE DEF step
<1>2. Fold(0, step, s) \in Nat
  BY <1>1, FoldType
<1> QED BY <1>2 DEF Number, step

LEMMA NumberAppend ==
  ASSUME NEW C, NEW val, NEW base, Numeral(C, val, base), NEW s \in Seq(C), NEW c \in C
  PROVE  Number(base, val, Append(s, c)) = Number(base, val, s) * base + val[c]
<1> DEFINE step == [p \in Nat \X DOMAIN val |-> p[1] * base + val[p[2]]]
<1>1. step \in TurnsOn(C, Nat) /\ 0 \in Nat
      /\ \A n \in Nat, d \in C : step[<<n, d>>] = n * base + val[d]
  BY NumberTurn
<1> DEFINE zero == 0
           N == Nat
<1>2. zero \in N /\ step \in TurnsOn(C, N)
  BY <1>1
<1> HIDE DEF step, zero, N
<1>3. Fold(zero, step, Append(s, c)) = step[<<Fold(zero, step, s), c>>]
  BY <1>2, FoldAppend
<1>4. Fold(zero, step, s) \in N
  BY <1>2, FoldType
<1> QED BY <1>1, <1>3, <1>4 DEF Number, step, zero, N

LEMMA NumberUnique ==
  ASSUME NEW C, NEW val, NEW base, Numeral(C, val, base)
  PROVE  \A s \in Seq(C) : \A t \in Seq(C) :
           Len(s) = Len(t) /\ Number(base, val, s) = Number(base, val, t) => s = t
<1> DEFINE S == {s \in Seq(C) : \A t \in Seq(C) :
                   Len(s) = Len(t) /\ Number(base, val, s) = Number(base, val, t) => s = t}
<1>1. <<>> \in S
  <2>1. \A t \in Seq(C) : Len(t) = 0 => t = <<>>
    BY EmptySeq, SMT
  <2>2. <<>> \in Seq(C) /\ Len(<<>>) = 0
    BY EmptySeq
  <2> QED BY <2>1, <2>2
<1>2. ASSUME NEW s \in Seq(C), NEW c \in C, s \in S PROVE Append(s, c) \in S
  <2>1. Append(s, c) \in Seq(C) /\ Len(Append(s, c)) = Len(s) + 1 /\ Len(s) \in Nat
    BY AppendProperties, LenProperties
  <2> SUFFICES ASSUME NEW t \in Seq(C), Len(Append(s, c)) = Len(t),
                      Number(base, val, Append(s, c)) = Number(base, val, t)
               PROVE  Append(s, c) = t
    BY <2>1
  <2>2. t # <<>>
    <3>1. Len(t) = Len(s) + 1 /\ Len(s) + 1 # 0
      BY <2>1
    <3> QED BY <3>1, EmptySeq
  <2>3. PICK u \in Seq(C), d \in C : t = Append(u, d)
    BY <2>2, SequenceEmptyOrAppend
  <2>4. Len(u) = Len(s)
    <3>1. Len(u) \in Nat /\ Len(t) = Len(u) + 1
      BY <2>3, AppendProperties, LenProperties
    <3>2. Len(u) + 1 = Len(s) + 1 /\ Len(s) \in Nat
      BY <2>1, <3>1
    <3> QED BY <3>1, <3>2, SMT
  <2> DEFINE p == Number(base, val, s)
             q == Number(base, val, u)
  <2>5. p * base + val[c] = q * base + val[d]
    BY <2>3, NumberAppend
  <2>6. p \in Nat /\ q \in Nat
    BY NumberType
  <2>7. base \in Nat /\ val[c] \in Nat /\ val[c] < base /\ val[d] \in Nat /\ val[d] < base
    <3>1. base \in Nat /\ val[c] \in 0 .. base - 1 /\ val[d] \in 0 .. base - 1
      BY DEF Numeral
    <3> QED BY <3>1, SMT
  <2> HIDE DEF p, q
  <2>8. /\ (p * base + val[c]) \div base = p /\ (p * base + val[c]) % base = val[c]
        /\ (q * base + val[d]) \div base = q /\ (q * base + val[d]) % base = val[d]
    BY <2>6, <2>7, DivModUnique
  <2>9. p = q /\ val[c] = val[d]
    BY <2>5, <2>8
  <2>10. s = u /\ c = d
    BY <1>2, <2>4, <2>9 DEF Numeral, p, q
  <2> QED BY <2>3, <2>10
<1> HIDE DEF S
<1>3. \A s \in Seq(C) : s \in S
  BY <1>1, <1>2, SeqInductionOnSets
<1> QED BY <1>3 DEF S

(***************************************************************************)
(* The three numerals of this module: bytes, base64 and decimal digits.      *)
(***************************************************************************)

B64Chars == CharsOf(Alphabet)
DigitChars == CharsOf(Digits)
B64Val == [c \in B64Chars |-> ValueOf(Alphabet, c)]
DigitVal == [c \in DigitChars |-> ValueOf(Digits, c)]
ByteVal == [b \in Byte |-> b]

LEMMA Values ==
  ASSUME NEW a \in {Alphabet, Digits}
  PROVE  /\ Len(a) \in Nat /\ DOMAIN a = 1 .. Len(a)
         /\ \A i \in 1 .. Len(a) : a[i] \in CharsOf(a) /\ ValueOf(a, a[i]) = i - 1
         /\ \A c \in CharsOf(a) : /\ ValueOf(a, c) \in 0 .. Len(a) - 1
                                  /\ c = a[ValueOf(a, c) + 1] /\ c \in Char
<1>1. a \in Seq(Char) /\ \A i, j \in DOMAIN a : a[i] = a[j] => i = j
  BY CodecAssumption
<1>2. Len(a) \in Nat /\ DOMAIN a = 1 .. Len(a) /\ \A i \in 1 .. Len(a) : a[i] \in Char
  BY <1>1, LenProperties, ElementOfSeq
<1>3. ASSUME NEW i \in 1 .. Len(a) PROVE a[i] \in CharsOf(a) /\ ValueOf(a, a[i]) = i - 1
  <2>1. (CHOOSE j \in DOMAIN a : a[j] = a[i]) = i
    BY <1>1, <1>2
  <2> QED BY <1>2, <2>1 DEF CharsOf, ValueOf
<1>4. ASSUME NEW c \in CharsOf(a)
      PROVE  ValueOf(a, c) \in 0 .. Len(a) - 1 /\ c = a[ValueOf(a, c) + 1] /\ c \in Char
  <2>1. PICK i \in 1 .. Len(a) : c = a[i]
    BY <1>2 DEF CharsOf
  <2>2. ValueOf(a, c) = i - 1
    BY <1>3, <2>1
  <2>3. i - 1 \in 0 .. Len(a) - 1 /\ (i - 1) + 1 = i
    BY <1>2, SMT
  <2> QED BY <1>2, <2>1, <2>2, <2>3
<1> QED BY <1>2, <1>3, <1>4

LEMMA Numerals ==
  /\ Numeral(B64Chars, B64Val, exp2[CharBits])
  /\ Numeral(DigitChars, DigitVal, Radix)
  /\ Numeral(Byte, ByteVal, exp2[ByteBits])
<1>1. Numeral(B64Chars, B64Val, exp2[CharBits])
  <2>1. Len(Alphabet) = exp2[CharBits] /\ exp2[CharBits] \in Nat /\ exp2[CharBits] >= 1
    BY CodecAssumption, Exp2Positive
  <2>2. \A c \in B64Chars : B64Val[c] \in 0 .. exp2[CharBits] - 1 /\ c = Alphabet[B64Val[c] + 1]
    BY <2>1, Values DEF B64Chars, B64Val
  <2>3. B64Val \in [B64Chars -> 0 .. exp2[CharBits] - 1]
    BY <2>2 DEF B64Val
  <2> QED BY <2>1, <2>2, <2>3 DEF Numeral
<1>2. Numeral(DigitChars, DigitVal, Radix)
  <2>1. Len(Digits) = Radix /\ Radix \in Nat /\ Radix >= 1
    <3>1. Len(Digits) = Radix /\ Radix \in Nat /\ Radix > 1
      BY CodecAssumption, ContextAssumption
    <3> QED BY <3>1, SMT
  <2>2. \A c \in DigitChars : DigitVal[c] \in 0 .. Radix - 1 /\ c = Digits[DigitVal[c] + 1]
    BY <2>1, Values DEF DigitChars, DigitVal
  <2>3. DigitVal \in [DigitChars -> 0 .. Radix - 1]
    BY <2>2 DEF DigitVal
  <2> QED BY <2>1, <2>2, <2>3 DEF Numeral
<1>3. Numeral(Byte, ByteVal, exp2[ByteBits])
  <2>1. exp2[ByteBits] \in Nat /\ exp2[ByteBits] >= 1
    BY CodecAssumption, Exp2Positive
  <2>2. ByteVal \in [Byte -> 0 .. exp2[ByteBits] - 1]
    BY DEF ByteVal, Byte
  <2> QED BY <2>1, <2>2 DEF Numeral, ByteVal
<1> QED BY <1>1, <1>2, <1>3

(***************************************************************************)
(* The accumulator of both base64 loops.  What has been moved out, followed  *)
(* by the acc_len bits that are pending, is what has been shifted in.        *)
(***************************************************************************)

ShiftedIn(a, s, acc, v, N) ==
  /\ Shifted(acc, s, v) \in Nat
  /\ N * exp2[a + s] + (Shifted(acc, s, v) % exp2[a + s])
       = (N * exp2[a] + (acc % exp2[a])) * exp2[s] + v

MovedOut(r, w, X, N) ==
  /\ Bits(X, r, w) \in 0 .. exp2[w] - 1
  /\ N * exp2[r + w] + (X % exp2[r + w])
       = (N * exp2[w] + Bits(X, r, w)) * exp2[r] + (X % exp2[r])

LEMMA ShiftIn ==
  ASSUME NEW a \in Nat, NEW s \in Nat, a + s <= AccBits, NEW acc \in Nat,
         NEW v \in Nat, v < exp2[s], NEW N \in Nat
  PROVE  ShiftedIn(a, s, acc, v, N)
<1> DEFINE z == AccBits - (a + s)
           A == exp2[a]
           S == exp2[s]
           Z == exp2[z]
           Q == exp2[a + s]
           X == Shifted(acc, s, v)
           Y == acc * S + v
           u == acc \div A
           p == acc % A
           q == p * S + v
<1>1. AccBits \in Nat
  BY CodecAssumption
<1>2. z \in Nat /\ (a + s) + z = AccBits /\ a + s \in Nat
  BY <1>1, SMT
<1>3. Q = A * S /\ exp2[AccBits] = Q * Z
  <2> HIDE DEF z
  <2>1. exp2[(a + s) + z] = exp2[a + s] * exp2[z]
    BY <1>2, Exp2Sum
  <2> QED BY <1>2, <2>1, Exp2Sum
<1>4. A \in Nat /\ A >= 1 /\ S \in Nat /\ S >= 1 /\ Z \in Nat /\ Z >= 1 /\ Q \in Nat /\ Q >= 1
  <2> HIDE DEF z
  <2> QED BY <1>2, Exp2Positive
<1>5. X = Y % (Q * Z)
  BY <1>3 DEF Shifted
<1>6. v < S
  OBVIOUS
<1> HIDE DEF A, S, Z, Q, X, z
<1>7. Y \in Nat /\ Q * Z \in Nat /\ Q * Z >= 1
  <2>1. 1 * Z <= Q * Z
    BY <1>4, MultMonotone
  <2> QED BY <1>4, <2>1, SMT
<1>8. u \in Nat /\ p \in Nat /\ p < A /\ acc = u * A + p
  BY <1>4, DivModIs
<1> HIDE DEF u, p
<1>9. Y = u * Q + q /\ q \in Nat
  <2>1. (u * A + p) * S = u * (A * S) + p * S /\ p * S \in Nat /\ u * (A * S) \in Nat
    BY <1>4, <1>8, SMT
  <2> QED BY <1>3, <1>8, <2>1, SMT
<1>10. q < Q
  <2>1. p + 1 <= A /\ p + 1 \in Nat
    BY <1>4, <1>8, SMT
  <2>2. (p + 1) * S <= A * S
    BY <1>4, <2>1, MultMonotone
  <2>3. (p + 1) * S = p * S + S /\ p * S \in Nat
    BY <1>4, <1>8, SMT
  <2> QED BY <1>3, <1>4, <1>6, <2>2, <2>3, SMT
<1>11. X \in Nat /\ X % Q = Y % Q
  <2> HIDE DEF Y
  <2>1. Y % (Q * Z) \in Nat
    BY <1>7, DivModIs
  <2>2. (Y % (Q * Z)) % Q = Y % Q
    BY <1>4, <1>7, DivModProduct
  <2> QED BY <1>5, <2>1, <2>2
<1>12. Y % Q = q
  <2> HIDE DEF q, Y
  <2> QED BY <1>4, <1>8, <1>9, <1>10, DivModUnique
<1>13. N * Q + q = (N * A + p) * S + v
  <2>1. (N * A + p) * S = N * (A * S) + p * S
    BY <1>4, <1>8, SMT
  <2>2. N * (A * S) \in Nat /\ p * S \in Nat
    BY <1>4, <1>8, SMT
  <2> QED BY <1>3, <2>1, <2>2, SMT
<1> QED BY <1>11, <1>12, <1>13 DEF X, A, S, Q, p, ShiftedIn

LEMMA MoveOut ==
  ASSUME NEW r \in Nat, NEW w \in Nat, NEW X \in Nat, NEW N \in Nat
  PROVE  MovedOut(r, w, X, N)
<1> DEFINE R == exp2[r]
           W == exp2[w]
           d == X \div R
           b == Bits(X, r, w)
           m == X % R
<1>1. R \in Nat /\ R >= 1 /\ W \in Nat /\ W >= 1 /\ exp2[r + w] = R * W
  BY Exp2Positive, Exp2Sum
<1>2. b = d % W
  BY DEF Bits
<1>3. X % (R * W) = (d % W) * R + m
  <2> HIDE DEF R, W
  <2> QED BY <1>1, DivModProduct
<1> HIDE DEF R, W, b
<1>4. d \in Nat /\ m \in Nat
  BY <1>1, DivModIs
<1> HIDE DEF d, m
<1>5. b \in Nat /\ b < W
  BY <1>1, <1>2, <1>4, DivModIs
<1>6. N * (R * W) + (b * R + m) = (N * W + b) * R + m
  <2>1. (N * W + b) * R = N * (R * W) + b * R
    BY <1>1, <1>5, SMT
  <2>2. N * (R * W) \in Nat /\ b * R \in Nat
    BY <1>1, <1>5, SMT
  <2> QED BY <1>4, <2>1, <2>2, SMT
<1>7. b \in 0 .. W - 1
  BY <1>1, <1>5, SMT
<1> QED BY <1>1, <1>2, <1>3, <1>6, <1>7 DEF R, W, b, m, MovedOut

(* Three bytes are four characters. *)
LEMMA BitSizes ==
  /\ ByteBits \in Nat /\ CharBits \in Nat /\ AccBits \in Nat
  /\ CharBits >= 1 /\ 3 * ByteBits = 4 * CharBits /\ ByteBits + CharBits <= AccBits
  /\ CharBits < ByteBits
  /\ SpareBits = 2 * (ByteBits - CharBits) /\ SpareBits \in Nat /\ SpareBits < CharBits
<1>1. /\ ByteBits \in Nat /\ CharBits \in Nat /\ AccBits \in Nat
      /\ CharBits > 0 /\ 3 * ByteBits = 4 * CharBits /\ AccBits >= ByteBits + CharBits
  BY CodecAssumption
<1> QED BY <1>1, SMT DEF SpareBits

(***************************************************************************)
(* Encoding.                                                                 *)
(***************************************************************************)

LEMMA AppendOne ==
  ASSUME NEW S, NEW s \in Seq(S), NEW t \in [1 .. 1 -> S]
  PROVE  s \o t = Append(s, t[1]) /\ t[1] \in S
<1>1. 1 \in 1 .. 1 /\ 1 \in Nat /\ \A i \in 1 .. 1 : i = 1
  BY SMT
<1>2. t[1] \in S /\ DOMAIN t = 1 .. 1
  BY <1>1
<1>3. t = <<t[1]>>
  BY <1>1, <1>2
<1>4. Append(s, t[1]) = s \o <<t[1]>>
  BY <1>2, AppendIsConcat
<1> QED BY <1>2, <1>3, <1>4

LEMMA AppendTwo ==
  ASSUME NEW S, NEW s \in Seq(S), NEW t \in [1 .. 2 -> S]
  PROVE  s \o t = Append(Append(s, t[1]), t[2]) /\ t[1] \in S /\ t[2] \in S
<1>1. 1 \in 1 .. 2 /\ 2 \in 1 .. 2 /\ 2 \in Nat /\ \A i \in 1 .. 2 : i = 1 \/ i = 2
  BY SMT
<1>2. t[1] \in S /\ t[2] \in S /\ DOMAIN t = 1 .. 2
  BY <1>1
<1> DEFINE u == Append(s, t[1])
           v == Append(u, t[2])
           x == s \o t
<1>3. u \in Seq(S) /\ Len(u) = Len(s) + 1 /\ u[Len(s) + 1] = t[1]
      /\ \A i \in 1 .. Len(s) : u[i] = s[i]
  BY <1>2, AppendProperties
<1>4. v \in Seq(S) /\ Len(v) = Len(u) + 1 /\ v[Len(u) + 1] = t[2]
      /\ \A i \in 1 .. Len(u) : v[i] = u[i]
  <2> HIDE DEF u
  <2> QED BY <1>2, <1>3, AppendProperties
<1>5. t \in Seq(S) /\ Len(t) = 2
  <2>1. t \in Seq(S)
    BY <1>1, SeqDef
  <2> QED BY <1>1, <1>2, <2>1, LenProperties
<1>6. /\ x \in Seq(S) /\ Len(x) = Len(s) + 2
      /\ \A i \in 1 .. Len(s) + 2 : x[i] = IF i <= Len(s) THEN s[i] ELSE t[i - Len(s)]
  <2>1. /\ s \o t \in Seq(S) /\ Len(s \o t) = Len(s) + Len(t)
        /\ \A i \in 1 .. Len(s) + Len(t) :
             (s \o t)[i] = IF i <= Len(s) THEN s[i] ELSE t[i - Len(s)]
    BY <1>5, ConcatProperties
  <2> QED BY <1>5, <2>1
<1>7. Len(s) \in Nat
  BY LenProperties
<1> HIDE DEF u, v, x
<1>8. Len(v) = Len(s) + 2
  BY <1>3, <1>4, <1>7, SMT
<1>9. \A i \in 1 .. Len(x) : x[i] = v[i]
  <2> DEFINE n == Len(s)
  <2> SUFFICES ASSUME NEW i \in 1 .. n + 2 PROVE x[i] = v[i]
    BY <1>6
  <2>1. n \in Nat
    BY <1>7
  <2>2. x[i] = IF i <= n THEN s[i] ELSE t[i - n]
    BY <1>6
  <2>3. v[n + 2] = t[2] /\ v[n + 1] = t[1] /\ \A j \in 1 .. n : v[j] = s[j]
    <3>1. Len(u) + 1 = n + 2 /\ n + 1 \in 1 .. Len(u) /\ \A j \in 1 .. n : j \in 1 .. Len(u)
      <4>1. Len(u) = n + 1
        BY <1>3
      <4> HIDE DEF n
      <4> QED BY <2>1, <4>1, SMT
    <3> QED BY <1>3, <1>4, <3>1
  <2> HIDE DEF n
  <2>4. \/ i \in 1 .. n /\ i <= n
        \/ i = n + 1 /\ ~ i <= n /\ i - n = 1
        \/ i = n + 2 /\ ~ i <= n /\ i - n = 2
    BY <2>1, SMT
  <2> QED BY <2>2, <2>3, <2>4
<1>10. x = v
  BY <1>4, <1>6, <1>8, <1>9, SeqEqual
<1> QED BY <1>2, <1>10 DEF x, u, v

EncStates == [acc : Nat, acc_len : Nat, dst : Seq(B64Chars)]

LEMMA CharOf ==
  ASSUME NEW x \in 0 .. exp2[CharBits] - 1
  PROVE  b64_byte_to_char(x) \in B64Chars /\ B64Val[b64_byte_to_char(x)] = x
<1>1. Len(Alphabet) = exp2[CharBits] /\ exp2[CharBits] \in Nat
  BY CodecAssumption, BitSizes, Exp2Positive
<1>2. x + 1 \in 1 .. Len(Alphabet) /\ (x + 1) - 1 = x
  BY <1>1, SMT
<1>3. /\ Alphabet[x + 1] \in CharsOf(Alphabet)
      /\ ValueOf(Alphabet, Alphabet[x + 1]) = (x + 1) - 1
  BY <1>2, Values
<1> QED BY <1>2, <1>3 DEF b64_byte_to_char, B64Chars, B64Val

(* The characters of one turn. *)
Written(X, n) ==
  [k \in 1 .. n \div CharBits |-> b64_byte_to_char(Bits(X, n - k * CharBits, CharBits))]

LEMMA WrittenType ==
  ASSUME NEW X \in Nat, NEW n \in Nat
  PROVE  /\ n \div CharBits \in Nat /\ n % CharBits \in Nat
         /\ Written(X, n) \in [1 .. n \div CharBits -> B64Chars]
         /\ Written(X, n) \in Seq(B64Chars)
<1> DEFINE t == n \div CharBits
<1>1. t \in Nat /\ n % CharBits \in Nat /\ n = t * CharBits + (n % CharBits)
  BY BitSizes, DivModIs
<1> HIDE DEF t
<1>2. ASSUME NEW k \in 1 .. t
      PROVE  b64_byte_to_char(Bits(X, n - k * CharBits, CharBits)) \in B64Chars
  <2>1. k \in Nat /\ k <= t
    BY <1>1, SMT
  <2>2. k * CharBits <= t * CharBits
    BY <1>1, <2>1, BitSizes, MultMonotone
  <2>3. n - k * CharBits \in Nat
    <3>1. k * CharBits \in Nat /\ t * CharBits \in Nat
      BY <1>1, <2>1, BitSizes, SMT
    <3> QED BY <1>1, <2>2, <3>1, SMT
  <2>4. Bits(X, n - k * CharBits, CharBits) \in 0 .. exp2[CharBits] - 1
    <3> DEFINE r == n - k * CharBits
               zero == 0
    <3>1. r \in Nat /\ zero \in Nat
      BY <2>3
    <3> HIDE DEF r, zero
    <3>2. MovedOut(r, CharBits, X, zero)
      BY <3>1, BitSizes, MoveOut
    <3>3. Bits(X, r, CharBits) \in 0 .. exp2[CharBits] - 1
      BY <3>2 DEF MovedOut
    <3> QED BY <3>3 DEF r
  <2> QED BY <2>4, CharOf
<1>3. Written(X, n) \in [1 .. t -> B64Chars]
  BY <1>2 DEF Written, t
<1>4. Written(X, n) \in Seq(B64Chars)
  BY <1>1, <1>3, SeqDef
<1> QED BY <1>1, <1>3, <1>4 DEF t

NumC(s) == Number(exp2[CharBits], B64Val, s)
NumB(s) == Number(exp2[ByteBits], ByteVal, s)
NumD(s) == Number(Radix, DigitVal, s)

LEMMA CharNumbers ==
  /\ NumC(<<>>) = 0
  /\ \A s \in Seq(B64Chars) : NumC(s) \in Nat
  /\ \A s \in Seq(B64Chars), c \in B64Chars :
       NumC(Append(s, c)) = NumC(s) * exp2[CharBits] + B64Val[c]
BY Numerals, NumberEmpty, NumberType, NumberAppend DEF NumC

LEMMA ByteNumbers ==
  /\ NumB(<<>>) = 0
  /\ \A s \in Seq(Byte) : NumB(s) \in Nat
  /\ \A s \in Seq(Byte), b \in Byte : NumB(Append(s, b)) = NumB(s) * exp2[ByteBits] + b
<1>1. \A b \in Byte : ByteVal[b] = b
  BY DEF ByteVal
<1> QED BY <1>1, Numerals, NumberEmpty, NumberType, NumberAppend DEF NumB

LEMMA ByteType == \A b \in Byte : b \in Nat /\ b < exp2[ByteBits]
<1>1. exp2[ByteBits] \in Nat
  BY BitSizes, Exp2Positive
<1> QED BY <1>1, SMT DEF Byte

LEMMA ShiftedType ==
  ASSUME NEW acc \in Nat, NEW bits \in Nat, NEW v \in Nat
  PROVE  Shifted(acc, bits, v) \in Nat
<1> DEFINE S == exp2[bits]
           A == exp2[AccBits]
           Y == acc * S + v
<1>1. S \in Nat /\ A \in Nat /\ A >= 1
  BY BitSizes, Exp2Positive
<1> HIDE DEF S, A
<1>2. Y \in Nat
  BY <1>1, SMT
<1> HIDE DEF Y
<1>3. Y % A \in Nat
  BY <1>1, <1>2, DivModIs
<1> QED BY <1>3 DEF Y, A, S, Shifted

EncBegin == [acc |-> 0, acc_len |-> 0, dst |-> <<>>]
EncStep == [p \in EncStates \X Byte |-> EncodedByte(p[1], p[2])]

LEMMA EncodedByteIs ==
  ASSUME NEW s \in EncStates, NEW b \in Byte
  PROVE  LET n == s.acc_len + ByteBits
             X == Shifted(s.acc, ByteBits, b)
         IN  /\ EncodedByte(s, b) \in EncStates
             /\ EncodedByte(s, b).acc = X
             /\ EncodedByte(s, b).acc_len = n % CharBits
             /\ EncodedByte(s, b).dst = s.dst \o Written(X, n)
<1> DEFINE n == s.acc_len + ByteBits
           X == Shifted(s.acc, ByteBits, b)
           W == Written(X, n)
           e == [acc |-> X, acc_len |-> n % CharBits, dst |-> s.dst \o W]
<1>1. s.acc \in Nat /\ s.acc_len \in Nat /\ s.dst \in Seq(B64Chars)
  BY DEF EncStates
<1>2. b \in Nat
  BY ByteType
<1>3. X \in Nat /\ n \in Nat
  <2>1. ByteBits \in Nat
    BY BitSizes
  <2>2. X \in Nat
    BY <1>1, <1>2, <2>1, ShiftedType
  <2> QED BY <1>1, <2>1, <2>2, SMT
<1>4. EncodedByte(s, b) = e
  BY DEF EncodedByte, Written
<1> HIDE DEF X, n
<1>5. n % CharBits \in Nat /\ W \in Seq(B64Chars)
  BY <1>3, WrittenType
<1> HIDE DEF W
<1>6. s.dst \o W \in Seq(B64Chars)
  BY <1>1, <1>5, ConcatProperties
<1>7. e \in EncStates
  BY <1>3, <1>5, <1>6 DEF EncStates
<1>8. e.acc = X /\ e.acc_len = n % CharBits /\ e.dst = s.dst \o W
  OBVIOUS
<1> HIDE DEF e
<1> QED BY <1>4, <1>7, <1>8 DEF X, n, W

LEMMA EncTurns ==
  /\ EncBegin \in EncStates /\ EncStep \in TurnsOn(Byte, EncStates)
  /\ \A s \in EncStates, b \in Byte : EncStep[<<s, b>>] = EncodedByte(s, b)
<1>1. EncBegin \in EncStates
  <2>1. <<>> \in Seq(B64Chars)
    BY EmptySeq
  <2> QED BY <2>1 DEF EncBegin, EncStates
<1>2. \A s \in EncStates, b \in Byte : EncodedByte(s, b) \in EncStates
  BY EncodedByteIs
<1> QED BY <1>1, <1>2 DEF EncStep, TurnsOn

LEMMA EncodedIsFold ==
  ASSUME NEW src \in Seq(Byte)
  PROVE  EncodedBytes(src) = Fold(EncBegin, EncStep, src)
<1> DEFINE Solves(f) == f = [n \in 0 .. Len(src) |->
                               IF n = 0 THEN [acc |-> 0, acc_len |-> 0, dst |-> <<>>]
                               ELSE EncodedByte(f[n - 1], src[n])]
           f == CHOOSE h : Solves(h)
           g == States(EncBegin, EncStep, src)
           n == Len(src)
<1>1. EncodedBytes(src) = f[n] /\ Fold(EncBegin, EncStep, src) = g[n]
  BY DEF EncodedBytes, Fold
<1>2. /\ g \in [0 .. n -> EncStates] /\ n \in Nat /\ g[0] = EncBegin
      /\ \A k \in 1 .. n : /\ g[k - 1] \in EncStates
                           /\ g[k] = EncStep[<<g[k - 1], src[k]>>]
  <2>1. EncBegin \in EncStates /\ EncStep \in TurnsOn(Byte, EncStates)
    BY EncTurns
  <2> HIDE DEF n, g
  <2> QED BY <2>1, FoldExists DEF n, g
<1>3. \A k \in 1 .. n : src[k] \in Byte
  BY ElementOfSeq
<1>4. \A k \in 1 .. n : g[k] = EncodedByte(g[k - 1], src[k])
  <2> HIDE DEF g, n
  <2> QED BY <1>2, <1>3, EncTurns
<1>5. /\ \A k \in 1 .. n : k # 0 /\ k \in 0 .. n
      /\ \A k \in 0 .. n : k # 0 => k \in 1 .. n
      /\ 0 \in 0 .. n /\ n \in 0 .. n
  BY <1>2, SMT
<1> HIDE DEF g
<1>6. Solves(g)
  <2> HIDE DEF n
  <2>1. g = [k \in 0 .. n |-> g[k]]
    BY <1>2
  <2>2. \A k \in 0 .. n : g[k] = IF k = 0 THEN EncBegin ELSE EncodedByte(g[k - 1], src[k])
    BY <1>2, <1>4, <1>5
  <2>3. g = [k \in 0 .. n |-> IF k = 0 THEN EncBegin ELSE EncodedByte(g[k - 1], src[k])]
    BY <2>1, <2>2
  <2> QED BY <2>3 DEF n, EncBegin
<1>7. Solves(f)
  <2> HIDE DEF Solves
  <2> QED BY <1>6
<1>8. f[0] = EncBegin /\ \A k \in 1 .. n : f[k] = EncodedByte(f[k - 1], src[k])
  <2> HIDE DEF f
  <2> QED BY <1>5, <1>7 DEF EncBegin
<1> HIDE DEF f
<1>9. InStep(f, g, n)
  BY <1>2, <1>4, <1>8 DEF InStep
<1> HIDE DEF n
<1>10. \A k \in 0 .. n : f[k] = g[k]
  BY <1>2, <1>9, FoldsAgree
<1> QED BY <1>1, <1>5, <1>10

LEMMA EncodedStart == EncodedBytes(<<>>) = EncBegin
<1>1. <<>> \in Seq(Byte)
  BY EmptySeq
<1>2. EncodedBytes(<<>>) = Fold(EncBegin, EncStep, <<>>)
  BY <1>1, EncodedIsFold
<1> QED BY <1>2, EncTurns, FoldEmpty

LEMMA EncodedNext ==
  ASSUME NEW src \in Seq(Byte), NEW b \in Byte
  PROVE  /\ EncodedBytes(src) \in EncStates
         /\ EncodedBytes(Append(src, b)) = EncodedByte(EncodedBytes(src), b)
<1>1. Append(src, b) \in Seq(Byte)
  BY AppendProperties
<1>2. EncBegin \in EncStates /\ EncStep \in TurnsOn(Byte, EncStates)
  BY EncTurns
<1>3. Fold(EncBegin, EncStep, src) \in EncStates
  BY <1>2, FoldType
<1>4. Fold(EncBegin, EncStep, Append(src, b)) = EncStep[<<Fold(EncBegin, EncStep, src), b>>]
  BY <1>2, FoldAppend
<1> QED BY <1>1, <1>3, <1>4, EncTurns, EncodedIsFold

(* A character that is moved out. *)
LEMMA MoveChar ==
  ASSUME NEW dst \in Seq(B64Chars), NEW X \in Nat, NEW r \in Nat
  PROVE  LET c == b64_byte_to_char(Bits(X, r, CharBits))
         IN  /\ c \in B64Chars /\ Append(dst, c) \in Seq(B64Chars)
             /\ Len(dst) \in Nat /\ Len(Append(dst, c)) = Len(dst) + 1
             /\ NumC(Append(dst, c)) * exp2[r] + (X % exp2[r])
                  = NumC(dst) * exp2[r + CharBits] + (X % exp2[r + CharBits])
<1> DEFINE x == Bits(X, r, CharBits)
           c == b64_byte_to_char(x)
<1>1. CharBits \in Nat /\ NumC(dst) \in Nat
  BY BitSizes, CharNumbers
<1>2. /\ x \in 0 .. exp2[CharBits] - 1
      /\ NumC(dst) * exp2[r + CharBits] + (X % exp2[r + CharBits])
           = (NumC(dst) * exp2[CharBits] + x) * exp2[r] + (X % exp2[r])
  <2>1. MovedOut(r, CharBits, X, NumC(dst))
    BY <1>1, MoveOut
  <2> QED BY <2>1 DEF MovedOut
<1> HIDE DEF x
<1>3. c \in B64Chars /\ B64Val[c] = x
  BY <1>2, CharOf
<1> HIDE DEF c
<1>4. NumC(Append(dst, c)) = NumC(dst) * exp2[CharBits] + x
  BY <1>3, CharNumbers
<1>5. /\ Append(dst, c) \in Seq(B64Chars) /\ Len(dst) \in Nat
      /\ Len(Append(dst, c)) = Len(dst) + 1
  BY <1>3, AppendProperties, LenProperties
<1> QED BY <1>2, <1>3, <1>4, <1>5 DEF c, x

EncInv(s, src) ==
  /\ s \in EncStates /\ s.acc_len < CharBits
  /\ CharBits * Len(s.dst) + s.acc_len = ByteBits * Len(src)
  /\ NumC(s.dst) * exp2[s.acc_len] + (s.acc % exp2[s.acc_len]) = NumB(src)

LEMMA TurnCount ==
  ASSUME NEW a \in Nat, a < CharBits
  PROVE  LET n == a + ByteBits
         IN  \/ /\ n \div CharBits = 1 /\ n % CharBits = n - CharBits
                /\ n - CharBits \in Nat /\ n - CharBits < CharBits
             \/ /\ n \div CharBits = 2 /\ n % CharBits = n - 2 * CharBits
                /\ n - 2 * CharBits \in Nat /\ n - 2 * CharBits < CharBits
<1> DEFINE n == a + ByteBits
<1>1. /\ ByteBits \in Nat /\ CharBits \in Nat /\ CharBits >= 1
      /\ 3 * ByteBits = 4 * CharBits
  BY BitSizes
<1>2. CASE n < 2 * CharBits
  <2> DEFINE r == n - CharBits
  <2>1. r \in Nat /\ r < CharBits /\ n = 1 * CharBits + r /\ 1 \in Nat
    BY <1>1, <1>2, SMT
  <2> HIDE DEF r, n
  <2>2. (1 * CharBits + r) \div CharBits = 1 /\ (1 * CharBits + r) % CharBits = r
    BY <1>1, <2>1, DivModUnique
  <2> QED BY <2>1, <2>2 DEF r, n
<1>3. CASE ~ n < 2 * CharBits
  <2> DEFINE r == n - 2 * CharBits
  <2>1. r \in Nat /\ r < CharBits /\ n = 2 * CharBits + r /\ 2 \in Nat
    BY <1>1, <1>3, SMT
  <2> HIDE DEF r, n
  <2>2. (2 * CharBits + r) \div CharBits = 2 /\ (2 * CharBits + r) % CharBits = r
    BY <1>1, <2>1, DivModUnique
  <2> QED BY <2>1, <2>2 DEF r, n
<1> QED BY <1>2, <1>3

LEMMA EncInvNext ==
  ASSUME NEW src \in Seq(Byte), NEW b \in Byte, NEW s, EncInv(s, src)
  PROVE  EncInv(EncodedByte(s, b), Append(src, b))
<1> DEFINE a == s.acc_len
           n == a + ByteBits
           X == Shifted(s.acc, ByteBits, b)
           W == Written(X, n)
           e == EncodedByte(s, b)
           M == NumB(Append(src, b))
           L == Len(s.dst)
           K == Len(src)
<1>1. /\ s \in EncStates /\ a \in Nat /\ a < CharBits /\ s.acc \in Nat /\ s.dst \in Seq(B64Chars)
      /\ CharBits * L + a = ByteBits * K
      /\ NumC(s.dst) * exp2[a] + (s.acc % exp2[a]) = NumB(src)
  BY DEF EncInv, EncStates
<1>2. /\ ByteBits \in Nat /\ CharBits \in Nat /\ AccBits \in Nat
      /\ ByteBits + CharBits <= AccBits
  BY BitSizes
<1>3. /\ e \in EncStates /\ e.acc = X /\ e.acc_len = n % CharBits /\ e.dst = s.dst \o W
  BY <1>1, EncodedByteIs
<1>4. n \in Nat /\ n <= AccBits
  BY <1>1, <1>2, SMT
<1>5. X \in Nat /\ NumC(s.dst) * exp2[n] + (X % exp2[n]) = M
  <2>1. b \in Nat /\ b < exp2[ByteBits]
    BY ByteType
  <2>2. NumC(s.dst) \in Nat
    BY <1>1, CharNumbers
  <2>3. /\ X \in Nat
        /\ NumC(s.dst) * exp2[n] + (X % exp2[n])
             = (NumC(s.dst) * exp2[a] + (s.acc % exp2[a])) * exp2[ByteBits] + b
    <3> DEFINE N == NumC(s.dst)
               acc == s.acc
    <3>1. N \in Nat /\ acc \in Nat
      BY <1>1, <2>2
    <3> HIDE DEF N, acc, a
    <3>2. ShiftedIn(a, ByteBits, acc, b, N)
      BY <1>1, <1>2, <1>4, <2>1, <3>1, ShiftIn
    <3> QED BY <3>2 DEF N, acc, ShiftedIn
  <2>4. M = NumB(src) * exp2[ByteBits] + b
    BY ByteNumbers
  <2> QED BY <1>1, <2>3, <2>4
<1>6. K \in Nat /\ L \in Nat /\ Len(Append(src, b)) = K + 1
  BY <1>1, LenProperties, AppendProperties
<1> SUFFICES /\ e.acc_len < CharBits
             /\ CharBits * Len(e.dst) + e.acc_len = ByteBits * (K + 1)
             /\ NumC(e.dst) * exp2[e.acc_len] + (e.acc % exp2[e.acc_len]) = M
  BY <1>3, <1>6 DEF EncInv
<1> HIDE DEF X, M, e, L, K
<1>7. W \in [1 .. n \div CharBits -> B64Chars]
  BY <1>4, <1>5, WrittenType
<1>8. CASE /\ n \div CharBits = 1 /\ n % CharBits = n - CharBits
           /\ n - CharBits \in Nat /\ n - CharBits < CharBits
  <2> DEFINE r == n - CharBits
             c == b64_byte_to_char(Bits(X, r, CharBits))
  <2>1. r \in Nat /\ r < CharBits /\ e.acc_len = r /\ r + CharBits = n
    BY <1>2, <1>3, <1>4, <1>8, SMT
  <2>2. W[1] = c /\ W \in [1 .. 1 -> B64Chars]
    <3>1. 1 \in 1 .. 1 /\ n - 1 * CharBits = r
      BY <1>2, <1>4, SMT
    <3>2. W[1] = b64_byte_to_char(Bits(X, n - 1 * CharBits, CharBits))
      BY <1>8, <3>1 DEF Written
    <3> QED BY <1>7, <1>8, <3>1, <3>2
  <2> HIDE DEF W, n, r
  <2>3. e.dst = Append(s.dst, c)
    <3>1. s.dst \o W = Append(s.dst, W[1])
      BY <1>1, <2>2, AppendOne
    <3> QED BY <1>3, <2>2, <3>1
  <2>4. /\ Len(Append(s.dst, c)) = L + 1
        /\ NumC(Append(s.dst, c)) * exp2[r] + (X % exp2[r]) = NumC(s.dst) * exp2[n] + (X % exp2[n])
    BY <1>1, <1>5, <2>1, MoveChar DEF L
  <2>5. CharBits * (L + 1) + r = ByteBits * (K + 1)
    <3>1. r + CharBits = a + ByteBits
      BY <2>1 DEF n
    <3>2. CharBits * (L + 1) = CharBits * L + CharBits /\ ByteBits * (K + 1) = ByteBits * K + ByteBits
          /\ CharBits * L \in Nat /\ ByteBits * K \in Nat
      BY <1>2, <1>6, SMT
    <3> DEFINE x == CharBits * L
               y == ByteBits * K
    <3>3. x + a = y /\ x \in Nat /\ y \in Nat
      BY <1>1, <3>2 DEF L, K
    <3> HIDE DEF x, y, a
    <3>4. x + CharBits + r = y + ByteBits
      BY <1>1, <1>2, <2>1, <3>1, <3>3, SMT
    <3> QED BY <3>2, <3>4 DEF x, y
  <2> QED BY <1>3, <1>5, <2>1, <2>3, <2>4, <2>5
<1>9. CASE /\ n \div CharBits = 2 /\ n % CharBits = n - 2 * CharBits
           /\ n - 2 * CharBits \in Nat /\ n - 2 * CharBits < CharBits
  <2> DEFINE q == n - CharBits
             r == n - 2 * CharBits
             c == b64_byte_to_char(Bits(X, q, CharBits))
             d == b64_byte_to_char(Bits(X, r, CharBits))
             u == Append(s.dst, c)
             v == Append(u, d)
  <2>1. /\ r \in Nat /\ r < CharBits /\ e.acc_len = r /\ q \in Nat
        /\ r + CharBits = q /\ q + CharBits = n
    <3>1. e.acc_len = r /\ r \in Nat /\ r < CharBits
      BY <1>3, <1>9
    <3>2. q \in Nat /\ r + CharBits = q /\ q + CharBits = n
      <4> HIDE DEF a
      <4> QED BY <1>1, <1>2, <1>4, <3>1, SMT
    <3> QED BY <3>1, <3>2
  <2>2. W[1] = c /\ W[2] = d /\ W \in [1 .. 2 -> B64Chars]
    <3>1. 1 \in 1 .. 2 /\ n - 1 * CharBits = q /\ 2 \in 1 .. 2
      BY <1>2, <1>4, SMT
    <3>2. /\ W[1] = b64_byte_to_char(Bits(X, n - 1 * CharBits, CharBits))
          /\ W[2] = b64_byte_to_char(Bits(X, n - 2 * CharBits, CharBits))
      BY <1>9, <3>1 DEF Written
    <3> QED BY <1>7, <1>9, <3>1, <3>2
  <2> HIDE DEF W, n, r, q
  <2>3. /\ c \in B64Chars /\ u \in Seq(B64Chars) /\ Len(u) = L + 1
        /\ NumC(u) * exp2[q] + (X % exp2[q]) = NumC(s.dst) * exp2[n] + (X % exp2[n])
    BY <1>1, <1>5, <2>1, MoveChar DEF L
  <2> HIDE DEF u
  <2>4. /\ Len(v) = Len(u) + 1
        /\ NumC(v) * exp2[r] + (X % exp2[r]) = NumC(u) * exp2[q] + (X % exp2[q])
    BY <1>5, <2>1, <2>3, MoveChar
  <2>5. e.dst = v
    <3>1. s.dst \o W = Append(Append(s.dst, W[1]), W[2])
      BY <1>1, <2>2, AppendTwo
    <3> QED BY <1>3, <2>2, <3>1 DEF u
  <2> HIDE DEF v
  <2>6. CharBits * Len(v) + r = ByteBits * (K + 1)
    <3>1. r + CharBits + CharBits = a + ByteBits
      BY <2>1 DEF n
    <3>2. Len(v) = L + 2
      BY <1>6, <2>3, <2>4, SMT
    <3>3. /\ CharBits * (L + 2) = CharBits * L + CharBits + CharBits
          /\ ByteBits * (K + 1) = ByteBits * K + ByteBits
          /\ CharBits * L \in Nat /\ ByteBits * K \in Nat
      BY <1>2, <1>6, SMT
    <3>4. CharBits * (L + 2) + r = ByteBits * (K + 1)
      <4> DEFINE x == CharBits * L
                 y == ByteBits * K
      <4>1. x + a = y /\ x \in Nat /\ y \in Nat
        BY <1>1, <3>3 DEF L, K
      <4> HIDE DEF x, y, a
      <4>2. x + CharBits + CharBits + r = y + ByteBits
        BY <1>1, <1>2, <2>1, <3>1, <4>1, SMT
      <4> QED BY <3>3, <4>2 DEF x, y
    <3> QED BY <3>2, <3>4
  <2> QED BY <1>3, <1>5, <2>1, <2>3, <2>4, <2>5, <2>6
<1> QED BY <1>1, <1>8, <1>9, TurnCount

LEMMA EncodedInv == \A src \in Seq(Byte) : EncInv(EncodedBytes(src), src)
<1> DEFINE S == {src \in Seq(Byte) : EncInv(EncodedBytes(src), src)}
<1>1. <<>> \in S
  <2> DEFINE e == EncBegin
  <2>1. e \in EncStates /\ e.acc_len = 0 /\ e.acc = 0 /\ e.dst = <<>>
    BY EncTurns DEF EncBegin
  <2>2. <<>> \in Seq(Byte) /\ Len(<<>>) = 0
    BY EmptySeq
  <2> HIDE DEF e
  <2>3. 0 < CharBits /\ CharBits * 0 + 0 = ByteBits * 0
    BY BitSizes, SMT
  <2>4. 0 * exp2[0] + (0 % exp2[0]) = 0
    BY Exp2Is, SMT
  <2>5. EncInv(e, <<>>)
    BY <2>1, <2>2, <2>3, <2>4, CharNumbers, ByteNumbers DEF EncInv
  <2> QED BY <2>2, <2>5, EncodedStart DEF e
<1>2. ASSUME NEW src \in Seq(Byte), NEW b \in Byte, src \in S PROVE Append(src, b) \in S
  <2>1. EncInv(EncodedByte(EncodedBytes(src), b), Append(src, b))
    BY <1>2, EncInvNext
  <2>2. Append(src, b) \in Seq(Byte)
    BY AppendProperties
  <2> QED BY <2>1, <2>2, EncodedNext
<1> HIDE DEF S
<1>3. \A src \in Seq(Byte) : src \in S
  BY <1>1, <1>2, SeqInductionOnSets
<1> QED BY <1>3 DEF S

(* The two sequences that a number of bits can be cut into have one length. *)
LEMMA CutOnce ==
  ASSUME NEW w \in Nat, NEW m \in Nat, NEW n \in Nat, NEW p \in Nat, NEW q \in Nat,
         p < w, q < w, m * w + p = n * w + q
  PROVE  m = n /\ p = q
<1>1. (m * w + p) \div w = m /\ (m * w + p) % w = p
  BY DivModUnique
<1>2. (n * w + q) \div w = n /\ (n * w + q) % w = q
  BY DivModUnique
<1> DEFINE x == m * w + p
           y == n * w + q
<1>3. x = y /\ x \div w = m /\ x % w = p /\ y \div w = n /\ y % w = q
  BY <1>1, <1>2
<1> HIDE DEF x, y
<1> QED BY <1>3

(* The spare bits of the last character, and how many characters there are. *)
LEMMA SpareAtEnd ==
  ASSUME NEW L \in Nat, NEW K \in Nat, NEW pad \in Nat, pad < CharBits,
         CharBits * L = ByteBits * K + pad
  PROVE  pad <= SpareBits /\ L = passe_b64len(K)
<1> DEFINE q == 3 * L - 4 * K
           C == CharBits
           B == ByteBits
<1>1. C \in Nat /\ C >= 1 /\ B \in Nat /\ 3 * B = 4 * C /\ SpareBits = 2 * (B - C)
  BY BitSizes
<1>2. q \in Int /\ C * L = B * K + pad /\ pad < C
  BY SMT
<1>3. C * q = 3 * pad
  <2>1. /\ C * (3 * L - 4 * K) = 3 * (C * L) - (4 * C) * K
        /\ (3 * B) * K = 3 * (B * K) /\ C * L \in Nat /\ B * K \in Nat
    <3> HIDE DEF C, B
    <3> QED BY <1>1, SMT
  <2>2. (4 * C) * K = 3 * (B * K)
    BY <1>1, <2>1
  <2> DEFINE x == C * L
             y == B * K
             z == (4 * C) * K
  <2>3. x = y + pad /\ z = 3 * y /\ x \in Nat /\ y \in Nat /\ C * q = 3 * x - z
    BY <1>2, <2>1, <2>2
  <2> HIDE DEF x, y, z, q, C
  <2> QED BY <2>3, SMT
<1> HIDE DEF q, C, B
<1>4. q >= 0
  <2> SUFFICES ASSUME q < 0 PROVE FALSE
    BY <1>2, SMT
  <2> DEFINE d == -1 - q
  <2>1. d \in Nat /\ q = -1 - d
    BY <1>2, SMT
  <2> HIDE DEF d
  <2>2. C * q = - C - C * d /\ C * d >= 0 /\ C * d \in Int
    BY <1>1, <2>1, SMT
  <2> QED BY <1>1, <1>3, <2>2, SMT
<1>5. q <= 2
  <2> SUFFICES ASSUME q >= 3 PROVE FALSE
    BY <1>2, SMT
  <2> DEFINE d == q - 3
  <2>1. d \in Nat /\ q = d + 3
    BY <1>2, SMT
  <2> HIDE DEF d
  <2>2. C * q = C * d + 3 * C /\ C * d >= 0 /\ C * d \in Int
    BY <1>1, <2>1, SMT
  <2> QED BY <1>1, <1>2, <1>3, <2>2, SMT
<1>6. q \in {0, 1, 2}
  BY <1>2, <1>4, <1>5, SMT
<1>7. 3 * pad <= 2 * C
  <2>1. q = 0 => C * q = 0
    BY <1>1, SMT
  <2>2. q = 1 => C * q = C
    BY <1>1, SMT
  <2>3. q = 2 => C * q = 2 * C
    BY <1>1, SMT
  <2> QED BY <1>1, <1>3, <1>6, <2>1, <2>2, <2>3, SMT
<1>8. pad <= SpareBits
  BY <1>1, <1>7, SMT
<1>9. L = passe_b64len(K)
  <2>1. 3 * L = 4 * K + q
    BY <1>2, SMT DEF q
  <2> QED BY <1>6, <2>1, SMT DEF passe_b64len
<1> QED BY <1>8, <1>9

(* D is what to_base64 makes of src: padded with zeros to whole characters. *)
Spells(D, src) ==
  /\ D \in Seq(B64Chars)
  /\ \E pad \in Nat : /\ pad < CharBits /\ CharBits * Len(D) = ByteBits * Len(src) + pad
                      /\ NumC(D) = NumB(src) * exp2[pad]

LEMMA LastBits ==
  ASSUME NEW a \in Nat, a < CharBits, NEW acc \in Nat, NEW N \in Nat
  PROVE  LET x == (acc * exp2[CharBits - a]) % exp2[CharBits]
         IN  /\ x \in 0 .. exp2[CharBits] - 1 /\ CharBits - a \in Nat
             /\ N * exp2[CharBits] + x = (N * exp2[a] + (acc % exp2[a])) * exp2[CharBits - a]
<1> DEFINE z == CharBits - a
           A == exp2[a]
           Z == exp2[z]
           u == acc \div A
           p == acc % A
<1>1. z \in Nat /\ CharBits = a + z
  BY BitSizes, SMT
<1>2. A \in Nat /\ A >= 1 /\ Z \in Nat /\ Z >= 1 /\ exp2[CharBits] = A * Z
  <2> HIDE DEF z
  <2> QED BY <1>1, Exp2Positive, Exp2Sum
<1> HIDE DEF A, Z
<1>3. u \in Nat /\ p \in Nat /\ p < A /\ acc = u * A + p
  BY <1>2, DivModIs
<1> HIDE DEF u, p
<1> DEFINE w == A * Z
           r == p * Z
<1>4. acc * Z = u * w + r /\ r \in Nat /\ w \in Nat
  BY <1>2, <1>3, SMT
<1>5. r < w
  <2>1. p + 1 <= A /\ p + 1 \in Nat
    BY <1>2, <1>3, SMT
  <2>2. (p + 1) * Z <= A * Z
    BY <1>2, <2>1, MultMonotone
  <2>3. (p + 1) * Z = r + Z
    BY <1>2, <1>3, SMT
  <2> HIDE DEF r, w
  <2>4. r + Z <= w
    BY <2>2, <2>3 DEF w
  <2> QED BY <1>2, <1>4, <2>4, SMT
<1>6. N * w + r = (N * A + p) * Z
  BY <1>2, <1>3, SMT
<1> HIDE DEF r, w
<1>7. (acc * Z) % w = r
  BY <1>3, <1>4, <1>5, DivModUnique
<1>8. r \in 0 .. w - 1
  BY <1>4, <1>5, SMT
<1> QED BY <1>1, <1>2, <1>6, <1>7, <1>8 DEF A, Z, p, w

LEMMA ToBase64Spells ==
  ASSUME NEW src \in Seq(Byte)
  PROVE  Spells(to_base64(src), src)
<1> DEFINE s == EncodedBytes(src)
           a == s.acc_len
           N == NumC(s.dst)
           K == Len(src)
           L == Len(s.dst)
<1>1. EncInv(s, src)
  BY EncodedInv
<1>2. to_base64(src) = IF s.acc_len = 0 THEN s.dst ELSE Append(s.dst, LastChar(s))
  BY DEF to_base64
<1> HIDE DEF s
<1>3. /\ s.dst \in Seq(B64Chars) /\ a \in Nat /\ s.acc \in Nat /\ a < CharBits
      /\ CharBits * L + a = ByteBits * K
      /\ N * exp2[a] + (s.acc % exp2[a]) = NumB(src)
  BY <1>1 DEF EncInv, EncStates
<1>4. L \in Nat /\ K \in Nat /\ N \in Nat /\ NumB(src) \in Nat
  BY <1>3, LenProperties, CharNumbers, ByteNumbers
<1>5. CASE a = 0
  <2>1. /\ CharBits * L = ByteBits * K + 0 /\ N = NumB(src) * exp2[0] /\ 0 < CharBits
        /\ 0 \in Nat
    <3>1. exp2[a] = 1 /\ s.acc % 1 = 0
      <4> DEFINE acc == s.acc
      <4>1. exp2[a] = 1
        BY <1>5, Exp2Is
      <4>2. acc \in Nat
        BY <1>3
      <4> HIDE DEF acc
      <4>3. acc % 1 = 0
        BY <4>2, SMT
      <4> QED BY <4>1, <4>3 DEF acc
    <3>2. N * 1 = N /\ NumB(src) * 1 = NumB(src) /\ N + 0 = N
      BY <1>4, SMT
    <3>3. N = NumB(src)
      BY <1>3, <3>1, <3>2
    <3>4. CharBits * L \in Nat /\ ByteBits * K \in Nat
      BY <1>4, BitSizes, SMT
    <3> HIDE DEF L, K, a
    <3>5. CharBits * L = ByteBits * K + 0
      BY <1>3, <1>5, <3>4, SMT DEF L, K
    <3> QED BY <1>3, <1>5, <3>1, <3>2, <3>3, <3>5
  <2>2. to_base64(src) = s.dst
    BY <1>2, <1>5
  <2> QED BY <1>3, <2>1, <2>2 DEF Spells
<1>6. CASE a # 0
  <2> DEFINE x == (s.acc * exp2[CharBits - a]) % exp2[CharBits]
             pad == CharBits - a
             c == b64_byte_to_char(x)
             D == Append(s.dst, c)
  <2>1. /\ x \in 0 .. exp2[CharBits] - 1 /\ pad \in Nat
        /\ N * exp2[CharBits] + x = NumB(src) * exp2[pad]
    <3> DEFINE acc == s.acc
    <3>1. acc \in Nat
      BY <1>3
    <3> HIDE DEF acc, N, a
    <3>2. LET y == (acc * exp2[CharBits - a]) % exp2[CharBits]
          IN  /\ y \in 0 .. exp2[CharBits] - 1 /\ CharBits - a \in Nat
              /\ N * exp2[CharBits] + y = (N * exp2[a] + (acc % exp2[a])) * exp2[CharBits - a]
      BY <1>3, <1>4, <3>1, LastBits
    <3> QED BY <1>3, <3>2 DEF acc, N
  <2>2. to_base64(src) = D
    BY <1>2, <1>6 DEF LastChar
  <2>3. pad < CharBits /\ a + pad = CharBits
    <3> HIDE DEF a
    <3> QED BY <1>3, <1>6, BitSizes, SMT
  <2> HIDE DEF x, pad
  <2>4. c \in B64Chars /\ B64Val[c] = x
    BY <2>1, CharOf
  <2> HIDE DEF c
  <2>5. NumC(D) = N * exp2[CharBits] + x /\ D \in Seq(B64Chars) /\ Len(D) = L + 1
    BY <1>3, <2>4, CharNumbers, AppendProperties
  <2> HIDE DEF D
  <2>6. CharBits * Len(D) = ByteBits * K + pad
    <3>1. CharBits * (L + 1) = CharBits * L + CharBits
          /\ CharBits * L \in Nat /\ ByteBits * K \in Nat
      BY <1>4, BitSizes, SMT
    <3> DEFINE p == CharBits * L
               q == ByteBits * K
    <3>2. p + a = q /\ p \in Nat /\ q \in Nat
      BY <1>3, <3>1
    <3> HIDE DEF p, q, a
    <3>3. p + CharBits = q + pad
      BY <1>3, <2>1, <2>3, <3>2, BitSizes, SMT
    <3> QED BY <2>5, <3>1, <3>3 DEF p, q
  <2> QED BY <2>1, <2>2, <2>3, <2>5, <2>6 DEF Spells
<1> QED BY <1>5, <1>6

LEMMA ToBase64Length ==
  ASSUME NEW src \in Seq(Byte)
  PROVE  to_base64(src) \in Seq(B64Chars) /\ Len(to_base64(src)) = passe_b64len(Len(src))
<1> DEFINE D == to_base64(src)
<1>1. D \in Seq(B64Chars)
  BY ToBase64Spells DEF Spells
<1>2. PICK pad \in Nat : pad < CharBits /\ CharBits * Len(D) = ByteBits * Len(src) + pad
  BY ToBase64Spells DEF Spells
<1>3. Len(D) \in Nat /\ Len(src) \in Nat
  BY <1>1, LenProperties
<1> HIDE DEF D
<1> QED BY <1>1, <1>2, <1>3, SpareAtEnd DEF D

LEMMA OneSpelling ==
  ASSUME NEW src \in Seq(Byte), NEW D, NEW E, Spells(D, src), Spells(E, src)
  PROVE  D = E
<1>1. D \in Seq(B64Chars) /\ E \in Seq(B64Chars)
  BY DEF Spells
<1> DEFINE L == Len(D)
           M == Len(E)
           x == ByteBits * Len(src)
<1>2. L \in Nat /\ M \in Nat /\ Len(src) \in Nat
  BY <1>1, LenProperties
<1>3. PICK p \in Nat : p < CharBits /\ CharBits * L = x + p /\ NumC(D) = NumB(src) * exp2[p]
  BY DEF Spells
<1>4. PICK q \in Nat : q < CharBits /\ CharBits * M = x + q /\ NumC(E) = NumB(src) * exp2[q]
  BY DEF Spells
<1>5. CharBits \in Nat /\ x \in Nat
  BY <1>2, BitSizes, SMT
<1> HIDE DEF L, M, x
<1>6. L * CharBits + q = M * CharBits + p
  <2>1. CharBits * L = L * CharBits /\ CharBits * M = M * CharBits
    BY <1>2, <1>5, SMT
  <2> DEFINE y == L * CharBits
             z == M * CharBits
  <2>2. y = x + p /\ z = x + q
    BY <1>3, <1>4, <2>1
  <2> HIDE DEF y, z
  <2>3. y + q = z + p
    BY <1>5, <2>2, SMT
  <2> QED BY <2>3 DEF y, z
<1>7. L = M /\ q = p
  BY <1>2, <1>3, <1>4, <1>5, <1>6, CutOnce
<1> QED BY <1>1, <1>3, <1>4, <1>7, Numerals, NumberUnique DEF L, M, NumC

(***************************************************************************)
(* Decimal numbers.                                                          *)
(***************************************************************************)

LEMMA RadixType == Radix \in Nat /\ Radix >= 2
<1>1. Radix \in Nat /\ Radix > 1
  BY ContextAssumption
<1> QED BY <1>1, SMT

(* A number of several digits, without its last one. *)
LEMMA QuotientLess ==
  ASSUME NEW n \in Nat, ~ n < Radix
  PROVE  n \div Radix \in Nat /\ n \div Radix < n /\ n \div Radix >= 1
<1> DEFINE q == n \div Radix
           r == n % Radix
<1>1. q \in Nat /\ r \in Nat /\ r < Radix /\ n = q * Radix + r
  <2>1. Radix \in Nat /\ Radix >= 1
    BY RadixType, SMT
  <2> QED BY <2>1, DivModIs
<1> HIDE DEF q, r
<1>2. q # 0
  <2> SUFFICES ASSUME q = 0 PROVE FALSE
    OBVIOUS
  <2>1. 0 * Radix + r = r
    BY <1>1, RadixType, SMT
  <2>2. n = r
    BY <1>1, <2>1
  <2> QED BY <1>1, <2>2
<1>3. q >= 1
  BY <1>1, <1>2, SMT
<1>4. 2 * q <= Radix * q /\ Radix * q = q * Radix
  <2>1. 2 \in Nat
    OBVIOUS
  <2>2. 2 * q <= Radix * q
    BY <1>1, <2>1, RadixType, MultMonotone
  <2> QED BY <1>1, <2>2, RadixType, SMT
<1>5. q < n
  <2> DEFINE x == q * Radix
  <2>1. n = x + r /\ 2 * q <= x /\ x \in Int
    BY <1>1, <1>4, RadixType, SMT
  <2> HIDE DEF x
  <2> QED BY <1>1, <1>3, <2>1, SMT
<1> QED BY <1>1, <1>3, <1>5 DEF q

LEMMA DigitOf ==
  ASSUME NEW v \in 0 .. Radix - 1
  PROVE  Digits[v + 1] \in DigitChars /\ DigitVal[Digits[v + 1]] = v
<1>1. Len(Digits) = Radix
  BY CodecAssumption
<1>2. v + 1 \in 1 .. Len(Digits) /\ (v + 1) - 1 = v
  BY <1>1, RadixType, SMT
<1> QED BY <1>2, Values DEF DigitChars, DigitVal

(* The last digit of a number, and the only one of a small number. *)
LEMMA LastDigit ==
  ASSUME NEW n \in Nat
  PROVE  /\ n % Radix \in 0 .. Radix - 1
         /\ n < Radix => n \in 0 .. Radix - 1
         /\ n \div Radix \in Nat /\ n = (n \div Radix) * Radix + (n % Radix)
<1>1. Radix \in Nat /\ Radix >= 1
  BY RadixType, SMT
<1>2. /\ n \div Radix \in Nat /\ n % Radix \in Nat /\ n % Radix < Radix
      /\ n = (n \div Radix) * Radix + (n % Radix)
  BY <1>1, DivModIs
<1> DEFINE r == n % Radix
<1>3. r \in Nat /\ r < Radix
  BY <1>2
<1> HIDE DEF r
<1>4. r \in 0 .. Radix - 1
  BY <1>1, <1>3, SMT
<1>5. n < Radix => n \in 0 .. Radix - 1
  BY <1>1, SMT
<1> QED BY <1>2, <1>4, <1>5 DEF r

LEMMA DecimalIs ==
  /\ Decimal \in [Nat -> Seq(DigitChars)]
  /\ \A n \in Nat : Decimal[n] =
       IF n < Radix THEN <<Digits[n + 1]>>
       ELSE Append(Decimal[n \div Radix], Digits[(n % Radix) + 1])
<1> DEFINE T == Seq(DigitChars)
           base == [n \in 0 .. Radix - 1 |-> <<Digits[n + 1]>>]
           down == [n \in Nat |-> n \div Radix]
           step == [n \in Nat |-> [t \in T |-> Append(t, Digits[(n % Radix) + 1])]]
<1>0. \A n \in Nat : n \in 0 .. Radix - 1 <=> n < Radix
  BY RadixType, SMT
<1>1. \A n \in DOMAIN base : base[n] \in T
  <2>1. \A n \in 0 .. Radix - 1 : <<Digits[n + 1]>> \in Seq(DigitChars)
    BY DigitOf
  <2> QED BY <2>1
<1>2. \A n \in Nat : n \notin DOMAIN base => down[n] \in Nat /\ down[n] < n
  BY <1>0, QuotientLess
<1>3. \A n \in Nat : n \notin DOMAIN base => step[n] \in [T -> T]
  <2>1. \A n \in Nat : Digits[(n % Radix) + 1] \in DigitChars
    BY DigitOf, LastDigit
  <2>2. \A n \in Nat : \A t \in T : Append(t, Digits[(n % Radix) + 1]) \in T
    BY <2>1, AppendProperties
  <2> QED BY <2>2
<1>4. /\ \A n \in Nat : n \in DOMAIN base <=> n < Radix
      /\ \A n \in Nat : n < Radix => base[n] = <<Digits[n + 1]>>
      /\ \A n \in Nat : down[n] = n \div Radix
      /\ \A n \in Nat, t \in T : step[n][t] = Append(t, Digits[(n % Radix) + 1])
  BY <1>0
<1> HIDE DEF base, down, step, T
<1>5. PICK f \in [Nat -> T] : Recursive(f, Nat, base, down, step)
  BY <1>1, <1>2, <1>3, RecursionOnNat
<1>6. \A n \in Nat : f[n] =
        IF n < Radix THEN <<Digits[n + 1]>> ELSE Append(f[n \div Radix], Digits[(n % Radix) + 1])
  <2> SUFFICES ASSUME NEW n \in Nat
               PROVE  f[n] = IF n < Radix THEN <<Digits[n + 1]>>
                             ELSE Append(f[n \div Radix], Digits[(n % Radix) + 1])
    OBVIOUS
  <2>1. f[n] = IF n \in DOMAIN base THEN base[n] ELSE step[n][f[down[n]]]
    BY <1>5, RecursiveAt
  <2>2. CASE n < Radix
    BY <1>4, <2>1, <2>2
  <2>3. CASE ~ n < Radix
    <3>1. f[n] = step[n][f[n \div Radix]] /\ n \div Radix \in Nat
      BY <1>4, <2>1, <2>3, QuotientLess
    <3> QED BY <1>4, <1>5, <2>3, <3>1
  <2> QED BY <2>2, <2>3
<1>7. f = [n \in Nat |-> IF n < Radix THEN <<Digits[n + 1]>>
                         ELSE Append(f[n \div Radix], Digits[(n % Radix) + 1])]
  <2>1. f = [n \in Nat |-> f[n]]
    OBVIOUS
  <2> QED BY <1>6, <2>1
<1>8. \E g : g = [n \in Nat |-> IF n < Radix THEN <<Digits[n + 1]>>
                                ELSE Append(g[n \div Radix], Digits[(n % Radix) + 1])]
  BY <1>7
<1>9. Decimal = [n \in Nat |-> IF n < Radix THEN <<Digits[n + 1]>>
                               ELSE Append(Decimal[n \div Radix], Digits[(n % Radix) + 1])]
  BY <1>8 DEF Decimal
<1>10. \A n \in Nat : Decimal[n] =
         IF n < Radix THEN <<Digits[n + 1]>>
         ELSE Append(Decimal[n \div Radix], Digits[(n % Radix) + 1])
  BY <1>9
<1> DEFINE S == {n \in Nat : Decimal[n] \in T}
<1>11. ASSUME NEW n \in Nat, \A m \in Nat : m < n => m \in S PROVE n \in S
  <2>1. CASE n < Radix
    <3>1. n \in 0 .. Radix - 1 /\ Decimal[n] = <<Digits[n + 1]>>
      BY <1>10, <2>1, LastDigit
    <3>2. Digits[n + 1] \in DigitChars
      BY <3>1, DigitOf
    <3>3. <<Digits[n + 1]>> \in T
      BY <3>2 DEF T
    <3> QED BY <3>1, <3>3
  <2>2. CASE ~ n < Radix
    <3>1. Decimal[n \div Radix] \in T /\ Digits[(n % Radix) + 1] \in DigitChars
      BY <1>11, <2>2, QuotientLess, DigitOf, LastDigit
    <3>2. Append(Decimal[n \div Radix], Digits[(n % Radix) + 1]) \in T
      BY <3>1, AppendProperties DEF T
    <3> QED BY <1>10, <2>2, <3>2
  <2> QED BY <2>1, <2>2
<1> HIDE DEF S
<1>12. \A n \in Nat : n \in S
  BY <1>11, StrongInductionOnSets
<1>13. Decimal \in [Nat -> T]
  BY <1>9, <1>12 DEF S
<1> QED BY <1>10, <1>13 DEF T

LEMMA NumlenIs ==
  /\ passe_numlen \in [Nat -> Nat]
  /\ \A n \in Nat : passe_numlen[n] =
       IF n < Radix THEN 1 ELSE 1 + passe_numlen[n \div Radix]
<1> DEFINE base == [n \in 0 .. Radix - 1 |-> 1]
           down == [n \in Nat |-> n \div Radix]
           step == [n \in Nat |-> [t \in Nat |-> 1 + t]]
<1>0. \A n \in Nat : n \in 0 .. Radix - 1 <=> n < Radix
  BY RadixType, SMT
<1>1. \A n \in DOMAIN base : base[n] \in Nat
  OBVIOUS
<1>2. \A n \in Nat : n \notin DOMAIN base => down[n] \in Nat /\ down[n] < n
  BY <1>0, QuotientLess
<1>3. \A n \in Nat : n \notin DOMAIN base => step[n] \in [Nat -> Nat]
  <2>1. \A t \in Nat : 1 + t \in Nat
    BY SMT
  <2> QED BY <2>1
<1>4. /\ \A n \in Nat : n \in DOMAIN base <=> n < Radix
      /\ \A n \in Nat : n < Radix => base[n] = 1
      /\ \A n \in Nat : down[n] = n \div Radix
      /\ \A n \in Nat, t \in Nat : step[n][t] = 1 + t
  BY <1>0
<1> HIDE DEF base, down, step
<1>5. PICK f \in [Nat -> Nat] : Recursive(f, Nat, base, down, step)
  BY <1>1, <1>2, <1>3, RecursionOnNat
<1>6. \A n \in Nat : f[n] = IF n < Radix THEN 1 ELSE 1 + f[n \div Radix]
  <2> SUFFICES ASSUME NEW n \in Nat
               PROVE  f[n] = IF n < Radix THEN 1 ELSE 1 + f[n \div Radix]
    OBVIOUS
  <2>1. f[n] = IF n \in DOMAIN base THEN base[n] ELSE step[n][f[down[n]]]
    BY <1>5, RecursiveAt
  <2>2. CASE n < Radix
    BY <1>4, <2>1, <2>2
  <2>3. CASE ~ n < Radix
    <3>1. f[n] = step[n][f[n \div Radix]] /\ n \div Radix \in Nat
      BY <1>4, <2>1, <2>3, QuotientLess
    <3> QED BY <1>4, <1>5, <2>3, <3>1
  <2> QED BY <2>2, <2>3
<1>7. f = [n \in Nat |-> IF n < Radix THEN 1 ELSE 1 + f[n \div Radix]]
  <2>1. f = [n \in Nat |-> f[n]]
    OBVIOUS
  <2> QED BY <1>6, <2>1
<1>8. \E g : g = [n \in Nat |-> IF n < Radix THEN 1 ELSE 1 + g[n \div Radix]]
  BY <1>7
<1>9. passe_numlen = [n \in Nat |-> IF n < Radix THEN 1 ELSE 1 + passe_numlen[n \div Radix]]
  BY <1>8 DEF passe_numlen
<1>10. \A n \in Nat : passe_numlen[n] = IF n < Radix THEN 1 ELSE 1 + passe_numlen[n \div Radix]
  BY <1>9
<1> DEFINE S == {n \in Nat : passe_numlen[n] \in Nat}
<1>11. ASSUME NEW n \in Nat, \A m \in Nat : m < n => m \in S PROVE n \in S
  <2>1. CASE n < Radix
    BY <1>10, <2>1
  <2>2. CASE ~ n < Radix
    <3> DEFINE k == passe_numlen[n \div Radix]
    <3>1. k \in Nat /\ passe_numlen[n] = 1 + k
      BY <1>10, <1>11, <2>2, QuotientLess
    <3> HIDE DEF k
    <3>2. 1 + k \in Nat
      BY <3>1, SMT
    <3> QED BY <3>1, <3>2
  <2> QED BY <2>1, <2>2
<1> HIDE DEF S
<1>12. \A n \in Nat : n \in S
  BY <1>11, StrongInductionOnSets
<1>13. passe_numlen \in [Nat -> Nat]
  BY <1>9, <1>12 DEF S
<1> QED BY <1>10, <1>13

LEMMA DigitNumbers ==
  /\ NumD(<<>>) = 0
  /\ \A s \in Seq(DigitChars) : NumD(s) \in Nat
  /\ \A s \in Seq(DigitChars), c \in DigitChars :
       NumD(Append(s, c)) = NumD(s) * Radix + DigitVal[c]
BY Numerals, NumberEmpty, NumberType, NumberAppend DEF NumD

LEMMA SingleDigit ==
  ASSUME NEW c \in DigitChars
  PROVE  /\ <<c>> \in Seq(DigitChars) /\ <<c>> = Append(<<>>, c)
         /\ Len(<<c>>) = 1 /\ <<c>>[1] = c /\ NumD(<<c>>) = DigitVal[c]
<1>1. <<>> \in Seq(DigitChars)
  BY EmptySeq
<1>2. DigitVal[c] \in Nat
  <2>1. DigitVal[c] \in 0 .. Radix - 1
    BY Numerals DEF Numeral
  <2> QED BY <2>1, RadixType, SMT
<1>3. <<c>> = Append(<<>>, c)
  <2>1. Append(<<>>, c) = <<>> \o <<c>>
    BY <1>1, AppendIsConcat
  <2>2. <<c>> \in Seq(DigitChars)
    OBVIOUS
  <2> QED BY <2>1, <2>2, ConcatEmptySeq
<1>4. NumD(Append(<<>>, c)) = 0 * Radix + DigitVal[c]
  BY <1>1, DigitNumbers
<1>5. 0 * Radix + DigitVal[c] = DigitVal[c]
  BY <1>2, RadixType, SMT
<1> QED BY <1>3, <1>4, <1>5

(* sprintf and what decode_decimal checks: the value, the length, no zero in
   front. *)
WellSpelt(n, s) ==
  /\ s \in Seq(DigitChars) /\ NumD(s) = n /\ Len(s) = passe_numlen[n] /\ Len(s) >= 1
  /\ s # <<>> /\ s[1] = Digits[1] <=> n = 0

LEMMA DecimalSpells == \A n \in Nat : WellSpelt(n, Decimal[n])
<1> DEFINE S == {n \in Nat : WellSpelt(n, Decimal[n])}
<1>1. ASSUME NEW n \in Nat, \A m \in Nat : m < n => m \in S PROVE n \in S
  <2>1. CASE n < Radix
    <3> DEFINE c == Digits[n + 1]
    <3>1. n \in 0 .. Radix - 1 /\ Decimal[n] = <<c>> /\ passe_numlen[n] = 1
      BY <2>1, DecimalIs, NumlenIs, LastDigit
    <3>2. c \in DigitChars /\ DigitVal[c] = n
      BY <3>1, DigitOf
    <3>3. c = Digits[1] <=> n = 0
      <4>1. 0 \in 0 .. Radix - 1 /\ 0 + 1 = 1
        BY RadixType, SMT
      <4>2. DigitVal[Digits[1]] = 0
        BY <4>1, DigitOf
      <4> QED BY <3>2, <4>1, <4>2
    <3> HIDE DEF c
    <3>4. WellSpelt(n, <<c>>)
      BY <3>1, <3>2, <3>3, SingleDigit DEF WellSpelt
    <3> QED BY <3>1, <3>4
  <2>2. CASE ~ n < Radix
    <3> DEFINE q == n \div Radix
               c == Digits[(n % Radix) + 1]
               s == Decimal[q]
    <3>1. q \in Nat /\ q < n /\ q >= 1 /\ n = q * Radix + (n % Radix)
      BY <2>2, QuotientLess, LastDigit
    <3>2. c \in DigitChars /\ DigitVal[c] = n % Radix
      BY DigitOf, LastDigit
    <3>3. Decimal[n] = Append(s, c) /\ passe_numlen[n] = 1 + passe_numlen[q]
      BY <2>2, DecimalIs, NumlenIs
    <3>4. WellSpelt(q, s)
      BY <1>1, <3>1
    <3> HIDE DEF s, c
    <3>5. s \in Seq(DigitChars) /\ NumD(s) = q /\ Len(s) = passe_numlen[q] /\ Len(s) >= 1
          /\ s[1] # Digits[1]
      <4>1. q # 0
        BY <3>1, SMT
      <4> QED BY <3>4, <4>1 DEF WellSpelt
    <3>6. NumD(Append(s, c)) = n
      BY <3>1, <3>2, <3>5, DigitNumbers
    <3>7. /\ Append(s, c) \in Seq(DigitChars) /\ Append(s, c) # <<>>
          /\ Len(Append(s, c)) = Len(s) + 1 /\ Append(s, c)[1] = s[1]
      <4>1. Len(s) \in Nat
        BY <3>5, LenProperties
      <4>2. 1 \in 1 .. Len(s)
        BY <3>5, <4>1, SMT
      <4> QED BY <3>2, <3>5, <4>2, AppendProperties
    <3>8. n # 0
      BY <3>1, SMT
    <3>9. Len(s) + 1 = 1 + passe_numlen[q] /\ Len(s) + 1 >= 1
      <4> DEFINE L == Len(s)
      <4>1. L \in Nat /\ L = passe_numlen[q]
        BY <3>5, LenProperties
      <4> HIDE DEF L
      <4>2. L + 1 = 1 + L /\ L + 1 >= 1
        BY <4>1, SMT
      <4> QED BY <4>1, <4>2 DEF L
    <3> HIDE DEF q
    <3>10. WellSpelt(n, Append(s, c))
      BY <3>3, <3>5, <3>6, <3>7, <3>8, <3>9 DEF WellSpelt
    <3> QED BY <3>3, <3>10
  <2> QED BY <2>1, <2>2
<1> HIDE DEF S
<1>2. \A n \in Nat : n \in S
  BY <1>1, StrongInductionOnSets
<1> QED BY <1>2 DEF S

(* A number has one minimal spelling. *)
LEMMA MinimalIsDecimal ==
  \A s \in Seq(DigitChars) : Minimal(s) => s = Decimal[NumD(s)]
<1> DEFINE S == {s \in Seq(DigitChars) : Minimal(s) => s = Decimal[NumD(s)]}
<1>1. <<>> \in S
  BY EmptySeq DEF Minimal
<1>2. ASSUME NEW s \in Seq(DigitChars), NEW c \in DigitChars, s \in S PROVE Append(s, c) \in S
  <2> DEFINE t == Append(s, c)
             q == NumD(s)
             v == DigitVal[c]
             n == NumD(t)
  <2>1. t \in Seq(DigitChars) /\ n = q * Radix + v /\ q \in Nat /\ n \in Nat
    BY DigitNumbers, AppendProperties
  <2>2. v \in 0 .. Radix - 1 /\ v \in Nat /\ v < Radix /\ Digits[v + 1] = c
    <3>1. v \in 0 .. Radix - 1
      BY Numerals DEF Numeral
    <3>2. DigitVal[Digits[v + 1]] = v /\ Digits[v + 1] \in DigitChars
      BY <3>1, DigitOf
    <3>3. Digits[v + 1] = c
      BY <3>2, Numerals DEF Numeral
    <3> HIDE DEF v
    <3>4. v \in Nat /\ v < Radix
      BY <3>1, RadixType, SMT
    <3> QED BY <3>1, <3>3, <3>4
  <2> SUFFICES ASSUME Minimal(t) PROVE t = Decimal[n]
    BY <2>1
  <2>3. CASE s = <<>>
    <3>1. t = <<c>> /\ n = v
      BY <2>3, SingleDigit
    <3>2. n < Radix
      BY <2>2, <3>1
    <3> QED BY <2>1, <2>2, <3>1, <3>2, DecimalIs
  <2>4. CASE s # <<>>
    <3>1. Len(s) \in Nat /\ Len(s) >= 1 /\ t[1] = s[1] /\ Len(t) = Len(s) + 1 /\ Len(t) # 1
      <4> DEFINE L == Len(s)
      <4>1. L \in Nat \ {0}
        BY <2>4, EmptySeq
      <4>2. Len(t) = L + 1 /\ \A i \in 1 .. L : t[i] = s[i]
        BY AppendProperties
      <4> HIDE DEF L, t
      <4>3. L >= 1 /\ 1 \in 1 .. L /\ L + 1 # 1
        BY <4>1, SMT
      <4> QED BY <4>1, <4>2, <4>3 DEF L
    <3>2. s[1] # Digits[1]
      BY <3>1 DEF Minimal
    <3>3. s = Decimal[q]
      BY <1>2, <2>4, <3>2 DEF Minimal
    <3>4. q # 0
      <4>1. WellSpelt(q, s)
        BY <2>1, <3>3, DecimalSpells
      <4> QED BY <3>2, <4>1 DEF WellSpelt
    <3> HIDE DEF q, v, n
    <3>5. n \div Radix = q /\ n % Radix = v
      BY <2>1, <2>2, RadixType, DivModUnique
    <3>6. ~ n < Radix
      <4> DEFINE x == q * Radix
      <4>1. 1 <= q /\ 1 \in Nat
        BY <2>1, <3>4, SMT
      <4>2. 1 * Radix <= q * Radix
        BY <2>1, <4>1, RadixType, MultMonotone
      <4>3. x \in Int /\ Radix <= x
        BY <2>1, <4>2, RadixType, SMT
      <4>4. n = x + v
        BY <2>1
      <4> HIDE DEF x
      <4> QED BY <2>2, <4>3, <4>4, RadixType, SMT
    <3>7. Decimal[n] = Append(Decimal[q], Digits[v + 1])
      BY <2>1, <3>5, <3>6, DecimalIs
    <3> QED BY <2>2, <3>3, <3>7
  <2> QED BY <2>3, <2>4
<1> HIDE DEF S
<1>3. \A s \in Seq(DigitChars) : s \in S
  BY <1>1, <1>2, SeqInductionOnSets
<1> QED BY <1>3 DEF S

ReadNumbers == Nat \union {Overflow}
DigitStep == [p \in ReadNumbers \X DigitChars |-> AppendDigit(p[1], ValueOf(Digits, p[2]))]

LEMMA UlongType == ULONG_MAX \in Nat /\ UINT32_MAX \in Nat /\ ULONG_MAX >= UINT32_MAX
<1>1. ULONG_MAX \in Nat /\ ULONG_MAX >= UINT32_MAX
  BY CodecAssumption
<1>2. Word \in Nat /\ Word > ARGON2_VERSION_NUMBER
  BY ContextAssumption
<1> QED BY <1>1, <1>2, SMT DEF UINT32_MAX, ARGON2_VERSION_NUMBER

(* Both comparisons of decode_decimal together are the one with the product. *)
LEMMA AppendDigitIs ==
  ASSUME NEW acc \in Nat, acc <= ULONG_MAX, NEW v \in Nat, v < Radix
  PROVE  AppendDigit(acc, v) =
           IF acc * Radix + v <= ULONG_MAX THEN acc * Radix + v ELSE Overflow
<1> DEFINE U == ULONG_MAX
           q == U \div Radix
           r == U % Radix
           x == acc * Radix
<1>1. U \in Nat /\ Radix \in Nat /\ Radix >= 1
  BY UlongType, RadixType, SMT
<1>2. q \in Nat /\ r \in Nat /\ r < Radix /\ U = q * Radix + r
  BY <1>1, DivModIs
<1>3. AppendDigit(acc, v) = IF acc > q THEN Overflow
                            ELSE IF v > U - x THEN Overflow ELSE x + v
  <2>1. acc # Overflow
    BY SMT DEF Overflow
  <2> QED BY <2>1 DEF AppendDigit
<1> HIDE DEF q, r, U
<1>4. x \in Nat /\ q * Radix \in Nat
  BY <1>1, <1>2, SMT
<1>5. ASSUME acc > q PROVE x > U
  <2>1. q + 1 <= acc /\ q + 1 \in Nat
    BY <1>2, <1>5, SMT
  <2>2. (q + 1) * Radix <= acc * Radix
    BY <1>1, <2>1, MultMonotone
  <2>3. (q + 1) * Radix = q * Radix + Radix
    BY <1>1, <1>2, SMT
  <2> DEFINE y == q * Radix
  <2>4. y + Radix <= x /\ U = y + r /\ y \in Nat
    BY <1>2, <1>4, <2>2, <2>3
  <2> HIDE DEF x, y
  <2> QED BY <1>1, <1>2, <1>4, <2>4, SMT
<1> HIDE DEF x
<1>6. v > U - x <=> ~ (x + v <= U)
  BY <1>1, <1>4, SMT
<1>7. acc > q => ~ (x + v <= U)
  BY <1>1, <1>4, <1>5, SMT
<1> QED BY <1>3, <1>6, <1>7 DEF x, U

LEMMA DigitTurns ==
  /\ 0 \in ReadNumbers /\ DigitStep \in TurnsOn(DigitChars, ReadNumbers)
  /\ \A n \in ReadNumbers, c \in DigitChars :
       DigitStep[<<n, c>>] = AppendDigit(n, ValueOf(Digits, c))
<1>1. 0 \in ReadNumbers
  BY DEF ReadNumbers
<1>2. ASSUME NEW n \in ReadNumbers, NEW c \in DigitChars
      PROVE  AppendDigit(n, ValueOf(Digits, c)) \in ReadNumbers
  <2> DEFINE v == ValueOf(Digits, c)
  <2>1. v \in Nat
    <3>1. Len(Digits) = Radix
      BY CodecAssumption
    <3>2. v \in 0 .. Radix - 1
      BY <3>1, Values DEF DigitChars
    <3> HIDE DEF v
    <3> QED BY <3>2, RadixType, SMT
  <2> HIDE DEF v
  <2>2. n \in Nat => n * Radix + v \in Nat
    BY <2>1, RadixType, SMT
  <2> QED BY <2>2 DEF AppendDigit, ReadNumbers, v
<1> QED BY <1>1, <1>2 DEF DigitStep, TurnsOn

LEMMA DecimalIsFold ==
  ASSUME NEW run \in Seq(DigitChars)
  PROVE  DecimalValue(run) = Fold(0, DigitStep, run)
<1> DEFINE Solves(f) == f = [k \in 0 .. Len(run) |->
                               IF k = 0 THEN 0
                               ELSE AppendDigit(f[k - 1], ValueOf(Digits, run[k]))]
           f == CHOOSE h : Solves(h)
           zero == 0
           g == States(zero, DigitStep, run)
           n == Len(run)
<1>1. DecimalValue(run) = f[n] /\ Fold(zero, DigitStep, run) = g[n]
  BY DEF DecimalValue, Fold
<1>2. /\ g \in [0 .. n -> ReadNumbers] /\ n \in Nat /\ g[0] = zero
      /\ \A k \in 1 .. n : /\ g[k - 1] \in ReadNumbers
                           /\ g[k] = DigitStep[<<g[k - 1], run[k]>>]
  <2>1. zero \in ReadNumbers /\ DigitStep \in TurnsOn(DigitChars, ReadNumbers)
    BY DigitTurns
  <2> HIDE DEF n, g, zero
  <2> QED BY <2>1, FoldExists DEF n, g
<1>3. \A k \in 1 .. n : run[k] \in DigitChars
  BY ElementOfSeq
<1>4. \A k \in 1 .. n : g[k] = AppendDigit(g[k - 1], ValueOf(Digits, run[k]))
  <2> HIDE DEF g, n
  <2> QED BY <1>2, <1>3, DigitTurns
<1>5. /\ \A k \in 1 .. n : k # 0 /\ k \in 0 .. n
      /\ \A k \in 0 .. n : k # 0 => k \in 1 .. n
      /\ 0 \in 0 .. n /\ n \in 0 .. n
  BY <1>2, SMT
<1> HIDE DEF g
<1>6. Solves(g)
  <2> HIDE DEF n
  <2>1. g = [k \in 0 .. n |-> g[k]]
    BY <1>2
  <2>2. \A k \in 0 .. n :
          g[k] = IF k = 0 THEN 0 ELSE AppendDigit(g[k - 1], ValueOf(Digits, run[k]))
    BY <1>2, <1>4, <1>5
  <2>3. g = [k \in 0 .. n |->
               IF k = 0 THEN 0 ELSE AppendDigit(g[k - 1], ValueOf(Digits, run[k]))]
    BY <2>1, <2>2
  <2> QED BY <2>3 DEF n
<1>7. Solves(f)
  <2> HIDE DEF Solves
  <2> QED BY <1>6
<1>8. f[0] = 0 /\ \A k \in 1 .. n : f[k] = AppendDigit(f[k - 1], ValueOf(Digits, run[k]))
  <2> HIDE DEF f
  <2> QED BY <1>5, <1>7
<1> HIDE DEF f
<1>9. InStep(f, g, n)
  BY <1>2, <1>4, <1>8 DEF InStep
<1> HIDE DEF n
<1>10. \A k \in 0 .. n : f[k] = g[k]
  BY <1>2, <1>9, FoldsAgree
<1> QED BY <1>1, <1>5, <1>10

(* What decode_decimal reads is the number, if unsigned long can hold it. *)
LEMMA DecimalValueIs ==
  \A run \in Seq(DigitChars) :
    DecimalValue(run) = IF NumD(run) <= ULONG_MAX THEN NumD(run) ELSE Overflow
<1> DEFINE S == {run \in Seq(DigitChars) :
                   DecimalValue(run) = IF NumD(run) <= ULONG_MAX THEN NumD(run) ELSE Overflow}
           zero == 0
<1>0. zero \in ReadNumbers /\ DigitStep \in TurnsOn(DigitChars, ReadNumbers)
  BY DigitTurns
<1>1. <<>> \in S
  <2>1. <<>> \in Seq(DigitChars)
    BY EmptySeq
  <2>2. DecimalValue(<<>>) = Fold(zero, DigitStep, <<>>)
    BY <2>1, DecimalIsFold
  <2>3. Fold(zero, DigitStep, <<>>) = zero
    <3> HIDE DEF zero
    <3> QED BY <1>0, FoldEmpty
  <2>4. 0 <= ULONG_MAX
    BY UlongType, SMT
  <2> QED BY <2>1, <2>2, <2>3, <2>4, DigitNumbers
<1>2. ASSUME NEW s \in Seq(DigitChars), NEW c \in DigitChars, s \in S PROVE Append(s, c) \in S
  <2> DEFINE v == DigitVal[c]
             q == NumD(s)
             t == Append(s, c)
  <2>1. t \in Seq(DigitChars) /\ NumD(t) = q * Radix + v /\ q \in Nat
    BY DigitNumbers, AppendProperties
  <2>2. v \in Nat /\ v < Radix /\ v = ValueOf(Digits, c)
    <3>1. v \in 0 .. Radix - 1 /\ v = ValueOf(Digits, c)
      BY Numerals DEF Numeral, DigitVal
    <3> HIDE DEF v
    <3> QED BY <3>1, RadixType, SMT
  <2>3. DecimalValue(t) = AppendDigit(DecimalValue(s), v)
    <3>1. DecimalValue(s) = Fold(zero, DigitStep, s) /\ DecimalValue(t) = Fold(zero, DigitStep, t)
      BY <2>1, DecimalIsFold
    <3> HIDE DEF zero, v
    <3>2. Fold(zero, DigitStep, s) \in ReadNumbers
      BY <1>0, FoldType
    <3>3. Fold(zero, DigitStep, t) = DigitStep[<<Fold(zero, DigitStep, s), c>>]
      BY <1>0, FoldAppend
    <3> QED BY <2>2, <3>1, <3>2, <3>3, DigitTurns
  <2>4. DecimalValue(s) = IF q <= ULONG_MAX THEN q ELSE Overflow
    BY <1>2
  <2> HIDE DEF q, v
  <2>5. DecimalValue(t) = IF q * Radix + v <= ULONG_MAX THEN q * Radix + v ELSE Overflow
    <3>1. CASE q <= ULONG_MAX
      BY <2>1, <2>2, <2>3, <2>4, <3>1, AppendDigitIs
    <3>2. CASE ~ q <= ULONG_MAX
      <4>1. ~ q * Radix + v <= ULONG_MAX
        <5> DEFINE x == q * Radix
        <5>1. 1 \in Nat /\ 1 <= Radix
          BY RadixType, SMT
        <5>2. 1 * q <= Radix * q
          BY <2>1, <5>1, RadixType, MultMonotone
        <5>3. x \in Nat /\ q <= x
          BY <2>1, <5>2, RadixType, SMT
        <5> HIDE DEF x
        <5>4. ~ x + v <= ULONG_MAX
          BY <2>1, <2>2, <3>2, <5>3, UlongType, SMT
        <5> QED BY <5>4 DEF x
      <4>2. AppendDigit(Overflow, v) = Overflow
        BY DEF AppendDigit
      <4> QED BY <2>3, <2>4, <3>2, <4>1, <4>2
    <3> QED BY <3>1, <3>2
  <2> QED BY <2>1, <2>5
<1> HIDE DEF S
<1>3. \A s \in Seq(DigitChars) : s \in S
  BY <1>1, <1>2, SeqInductionOnSets
<1> QED BY <1>3 DEF S

(***************************************************************************)
(* passe_encode_string: what has been written, and what is still to come.    *)
(***************************************************************************)

LEMMA DigitStrings ==
  /\ \A s \in Seq(DigitChars) : s \in Seq(Char)
  /\ \A s \in Seq(B64Chars) : s \in Seq(Char)
<1>1. DigitChars \subseteq Char /\ B64Chars \subseteq Char
  BY Values DEF DigitChars, B64Chars
<1> QED BY <1>1, SeqMonotonic

LEMMA NumberStrings ==
  ASSUME NEW n \in Nat
  PROVE  Decimal[n] \in Seq(Char) /\ Len(Decimal[n]) = passe_numlen[n]
BY DecimalSpells, DigitStrings DEF WellSpelt

LEMMA BytesStrings ==
  ASSUME NEW src \in Seq(Byte)
  PROVE  /\ to_base64(src) \in Seq(Char)
         /\ Len(to_base64(src)) = passe_b64len(Len(src)) /\ Len(src) \in Nat
BY ToBase64Length, DigitStrings, LenProperties

LEMMA Literals ==
  /\ <<"$">> \in Seq(Char) /\ Len(<<"$">>) = 1
  /\ \A type \in Types : /\ passe_argon2_type2string(type) \in Seq(Char)
                         /\ Len(passe_argon2_type2string(type)) \in Nat
  /\ \A l \in {Literal.version, Literal.memory, Literal.time, Literal.lanes} :
       l \in Seq(Char) /\ Len(l) = 3
<1>1. /\ <<"$">> \in FixedParts
      /\ \A type \in Types : passe_argon2_type2string(type) \in FixedParts
      /\ \A l \in {Literal.version, Literal.memory, Literal.time, Literal.lanes} : l \in FixedParts
  BY DEF FixedParts
<1>2. FixedParts \subseteq Seq(Char)
  BY ProgramAssumption
<1>3. Len(<<"$">>) = 1
  OBVIOUS
<1>4. /\ Len(Literal.version) = 3 /\ Len(Literal.memory) = 3
      /\ Len(Literal.time) = 3 /\ Len(Literal.lanes) = 3
  BY DEF Literal
<1> QED BY <1>1, <1>2, <1>3, <1>4, LenProperties

WriteStates == [ok : BOOLEAN, room : Nat, dst : Seq(Char)]

(* s is the state after the characters of str, or after the failure to write them. *)
Wrote(s, str, d) ==
  /\ s \in WriteStates
  /\ s.ok \/ Len(str) >= d
  /\ s.ok => s.dst = str /\ s.room = d - Len(str) /\ (str = <<>> \/ Len(str) < d)
  /\ s.dst = <<>> \/ Len(s.dst) < d

(* T is being written, and rest is missing. *)
Writing(s, d, T, rest) ==
  rest \in Seq(Char) /\ \E str \in Seq(Char) : Wrote(s, str, d) /\ str \o rest = T

LEMMA SSWrote ==
  ASSUME NEW d \in Nat, NEW str \in Seq(Char), NEW piece \in Seq(Char),
         NEW s, Wrote(s, str, d)
  PROVE  Wrote(SS(s, piece), str \o piece, d)
<1> DEFINE t == str \o piece
           room == s.room
           l == Len(str)
           p == Len(piece)
<1>1. /\ s \in WriteStates /\ s.ok \in BOOLEAN /\ room \in Nat /\ s.dst \in Seq(Char)
      /\ s.ok \/ l >= d
      /\ s.ok => s.dst = str /\ room = d - l /\ (str = <<>> \/ l < d)
      /\ s.dst = <<>> \/ Len(s.dst) < d
  BY DEF Wrote, WriteStates
<1>2. t \in Seq(Char) /\ Len(t) = l + p /\ l \in Nat /\ p \in Nat
  BY ConcatProperties, LenProperties
<1>3. CASE ~ s.ok \/ p >= room
  <2> DEFINE e == [ok |-> FALSE, room |-> room, dst |-> s.dst]
  <2>1. SS(s, piece) = e
    BY <1>3 DEF SS, Stopped
  <2>2. e \in WriteStates /\ e.ok = FALSE /\ e.dst = s.dst
    BY <1>1 DEF WriteStates
  <2> HIDE DEF e, room, l, p, t
  <2>3. l + p >= d
    BY <1>1, <1>2, <1>3, SMT
  <2> QED BY <1>1, <1>2, <2>1, <2>2, <2>3 DEF Wrote, t
<1>4. CASE s.ok /\ ~ p >= room
  <2> DEFINE e == [ok |-> TRUE, room |-> room - p, dst |-> t]
  <2>1. SS(s, piece) = e
    BY <1>1, <1>4 DEF SS
  <2> HIDE DEF room, l, p, t
  <2>2. room - p \in Nat /\ room - p = d - (l + p) /\ l + p < d
    BY <1>1, <1>2, <1>4, SMT
  <2>3. e \in WriteStates /\ e.ok = TRUE /\ e.dst = t /\ e.room = d - (l + p)
    BY <1>2, <2>2 DEF WriteStates
  <2> HIDE DEF e
  <2> QED BY <1>2, <2>1, <2>2, <2>3 DEF Wrote, t
<1> QED BY <1>3, <1>4

LEMMA SSWrites ==
  ASSUME NEW d \in Nat, NEW T, NEW s, NEW piece \in Seq(Char), NEW rest \in Seq(Char),
         Writing(s, d, T, piece \o rest)
  PROVE  Writing(SS(s, piece), d, T, rest)
<1>1. PICK str \in Seq(Char) : Wrote(s, str, d) /\ str \o (piece \o rest) = T
  BY DEF Writing
<1>2. Wrote(SS(s, piece), str \o piece, d)
  BY <1>1, SSWrote
<1>3. (str \o piece) \o rest = T
  <2>1. (str \o piece) \o rest = str \o (piece \o rest)
    BY ConcatAssociative
  <2> QED BY <1>1, <2>1
<1>4. str \o piece \in Seq(Char)
  BY ConcatProperties
<1> QED BY <1>2, <1>3, <1>4 DEF Writing

LEMMA SXWrites ==
  ASSUME NEW d \in Nat, NEW T, NEW s, NEW n \in Nat, NEW rest \in Seq(Char),
         Writing(s, d, T, Decimal[n] \o rest)
  PROVE  Writing(SX(s, n), d, T, rest)
BY NumberStrings, SSWrites DEF SX

(* passe_b64len is what to_base64 writes. *)
LEMMA SBWrites ==
  ASSUME NEW d \in Nat, NEW T, NEW s, NEW bin \in Seq(Byte), NEW rest \in Seq(Char),
         Writing(s, d, T, to_base64(bin) \o rest)
  PROVE  Writing(SB(s, bin), d, T, rest)
<1>1. PICK piece \in Seq(Char) :
        piece = to_base64(bin) /\ Len(piece) = passe_b64len(Len(bin))
  BY BytesStrings
<1>2. PICK p \in Nat : p = Len(piece)
  BY LenProperties
<1>3. s.room \in Nat
  BY DEF Writing, Wrote, WriteStates
<1>4. s.room <= p <=> p >= s.room
  BY <1>3, SMT
<1>5. SB(s, bin) = IF ~ s.ok \/ s.room <= p THEN Stopped(s)
                   ELSE [ok |-> TRUE, room |-> s.room - p, dst |-> s.dst \o piece]
  BY <1>1, <1>2 DEF SB
<1>6. SS(s, piece) = IF ~ s.ok \/ p >= s.room THEN Stopped(s)
                     ELSE [ok |-> TRUE, room |-> s.room - p, dst |-> s.dst \o piece]
  BY <1>2 DEF SS
<1>7. SB(s, bin) = SS(s, piece)
  BY <1>4, <1>5, <1>6
<1> QED BY <1>1, <1>7, SSWrites

(***************************************************************************)
(* The string of a context.                                                  *)
(***************************************************************************)
Hashed(ctx) == <<"$">> \o (to_base64(ctx.salt) \o (<<"$">> \o to_base64(ctx.out)))

Costs(ctx) ==
  Literal.memory \o (Decimal[ctx.m_cost] \o
    (Literal.time \o (Decimal[ctx.t_cost] \o
      (Literal.lanes \o (Decimal[ctx.lanes] \o Hashed(ctx))))))

Spelling(ctx, type) == Prefix(type) \o (VersionPart(ctx) \o Costs(ctx))

(* What is left to be written, field by field. *)
Spellable ==
  [version : Nat, m_cost : Nat, t_cost : Nat, lanes : Nat, threads : Nat,
   salt : Seq(Byte), saltlen : Nat, out : Seq(Byte), outlen : Nat]

(* The second of two pieces that are not yet joined. *)
LEMMA Joined ==
  /\ \A a, b \in Seq(Char) : a \o b \in Seq(Char) /\ Len(a \o b) = Len(a) + Len(b)
  /\ \A a \in Seq(Char) : Len(a) \in Nat
BY ConcatProperties, LenProperties

Associative(a, b, c) == (a \o b) \o c = a \o (b \o c)

LEMMA Rejoined == \A a, b, c \in Seq(Char) : Associative(a, b, c)
BY ConcatAssociative DEF Associative

LEMMA HashedParts ==
  ASSUME NEW ctx \in Spellable
  PROVE  /\ Hashed(ctx) \in Seq(Char)
         /\ Len(Hashed(ctx)) = 2 + passe_b64len(Len(ctx.salt)) + passe_b64len(Len(ctx.out))
<1>1. ctx.salt \in Seq(Byte) /\ ctx.out \in Seq(Byte)
  BY DEF Spellable
<1>2. PICK salt \in Seq(Char) :
        salt = to_base64(ctx.salt) /\ Len(salt) = passe_b64len(Len(ctx.salt))
  BY <1>1, BytesStrings
<1>3. PICK out \in Seq(Char) :
        out = to_base64(ctx.out) /\ Len(out) = passe_b64len(Len(ctx.out))
  BY <1>1, BytesStrings
<1>4. PICK dollar \in Seq(Char) : dollar = <<"$">> /\ Len(dollar) = 1
  BY Literals
<1>5. PICK h2 \in Seq(Char) : h2 = dollar \o out /\ Len(h2) = Len(dollar) + Len(out)
  BY Joined
<1>6. PICK h1 \in Seq(Char) : h1 = salt \o h2 /\ Len(h1) = Len(salt) + Len(h2)
  BY Joined
<1>7. PICK h \in Seq(Char) : h = dollar \o h1 /\ Len(h) = Len(dollar) + Len(h1)
  BY Joined
<1>8. Hashed(ctx) = h
  BY <1>2, <1>3, <1>4, <1>5, <1>6, <1>7 DEF Hashed
<1>9. Len(h) = 2 + Len(salt) + Len(out)
  <2>1. Len(salt) \in Nat /\ Len(out) \in Nat /\ Len(h2) \in Nat /\ Len(h1) \in Nat
    BY Joined
  <2> QED BY <1>4, <1>5, <1>6, <1>7, <2>1, SMT
<1> QED BY <1>2, <1>3, <1>8, <1>9

LEMMA CostsParts ==
  ASSUME NEW ctx \in Spellable
  PROVE  /\ Costs(ctx) \in Seq(Char)
         /\ Len(Costs(ctx)) = 9 + passe_numlen[ctx.m_cost] + passe_numlen[ctx.t_cost]
                              + passe_numlen[ctx.lanes] + Len(Hashed(ctx))
<1>1. ctx.m_cost \in Nat /\ ctx.t_cost \in Nat /\ ctx.lanes \in Nat
  BY DEF Spellable
<1>2. PICK m \in Seq(Char) : m = Decimal[ctx.m_cost] /\ Len(m) = passe_numlen[ctx.m_cost]
  BY <1>1, NumberStrings
<1>3. PICK t \in Seq(Char) : t = Decimal[ctx.t_cost] /\ Len(t) = passe_numlen[ctx.t_cost]
  BY <1>1, NumberStrings
<1>4. PICK l \in Seq(Char) : l = Decimal[ctx.lanes] /\ Len(l) = passe_numlen[ctx.lanes]
  BY <1>1, NumberStrings
<1>5. PICK lm \in Seq(Char) : lm = Literal.memory /\ Len(lm) = 3
  BY Literals
<1>6. PICK lt \in Seq(Char) : lt = Literal.time /\ Len(lt) = 3
  BY Literals
<1>7. PICK ll \in Seq(Char) : ll = Literal.lanes /\ Len(ll) = 3
  BY Literals
<1>8. PICK h \in Seq(Char) : h = Hashed(ctx)
  BY HashedParts
<1>9. PICK c5 \in Seq(Char) : c5 = l \o h /\ Len(c5) = Len(l) + Len(h)
  BY Joined
<1>10. PICK c4 \in Seq(Char) : c4 = ll \o c5 /\ Len(c4) = Len(ll) + Len(c5)
  BY Joined
<1>11. PICK c3 \in Seq(Char) : c3 = t \o c4 /\ Len(c3) = Len(t) + Len(c4)
  BY Joined
<1>12. PICK c2 \in Seq(Char) : c2 = lt \o c3 /\ Len(c2) = Len(lt) + Len(c3)
  BY Joined
<1>13. PICK c1 \in Seq(Char) : c1 = m \o c2 /\ Len(c1) = Len(m) + Len(c2)
  BY Joined
<1>14. PICK c \in Seq(Char) : c = lm \o c1 /\ Len(c) = Len(lm) + Len(c1)
  BY Joined
<1>15. Costs(ctx) = c
  BY <1>2, <1>3, <1>4, <1>5, <1>6, <1>7, <1>8, <1>9, <1>10, <1>11, <1>12, <1>13, <1>14 DEF Costs
<1>16. Len(c) = 9 + Len(m) + Len(t) + Len(l) + Len(h)
  <2>1. /\ Len(c5) \in Nat /\ Len(c4) \in Nat /\ Len(c3) \in Nat /\ Len(c2) \in Nat
        /\ Len(c1) \in Nat /\ Len(m) \in Nat /\ Len(t) \in Nat /\ Len(l) \in Nat
        /\ Len(h) \in Nat
    BY Joined
  <2> QED BY <1>5, <1>6, <1>7, <1>9, <1>10, <1>11, <1>12, <1>13, <1>14, <2>1, SMT
<1> QED BY <1>2, <1>3, <1>4, <1>8, <1>15, <1>16

LEMMA SpellingParts ==
  ASSUME NEW ctx \in Spellable, NEW type \in Types
  PROVE  /\ Prefix(type) \in Seq(Char) /\ VersionPart(ctx) \in Seq(Char)
         /\ Spelling(ctx, type) \in Seq(Char)
         /\ Len(Prefix(type)) = 1 + Len(passe_argon2_type2string(type))
         /\ Len(VersionPart(ctx)) = 3 + passe_numlen[ctx.version]
         /\ Len(Spelling(ctx, type)) = Len(Prefix(type)) + Len(VersionPart(ctx)) + Len(Costs(ctx))
<1>1. PICK v \in Seq(Char) : v = Decimal[ctx.version] /\ Len(v) = passe_numlen[ctx.version]
  <2>1. ctx.version \in Nat
    BY DEF Spellable
  <2> QED BY <2>1, NumberStrings
<1>2. PICK lv \in Seq(Char) : lv = Literal.version /\ Len(lv) = 3
  BY Literals
<1>3. PICK dollar \in Seq(Char) : dollar = <<"$">> /\ Len(dollar) = 1
  BY Literals
<1>4. PICK name \in Seq(Char) : name = passe_argon2_type2string(type)
  BY Literals
<1>5. PICK a \in Seq(Char) : a = dollar \o name /\ Len(a) = Len(dollar) + Len(name)
  BY Joined
<1>6. PICK b \in Seq(Char) : b = lv \o v /\ Len(b) = Len(lv) + Len(v)
  BY Joined
<1>7. PICK c \in Seq(Char) : c = Costs(ctx)
  BY CostsParts
<1>8. PICK e \in Seq(Char) : e = b \o c /\ Len(e) = Len(b) + Len(c)
  BY Joined
<1>9. PICK f \in Seq(Char) : f = a \o e /\ Len(f) = Len(a) + Len(e)
  BY Joined
<1>10. Prefix(type) = a /\ VersionPart(ctx) = b
  BY <1>1, <1>2, <1>3, <1>4, <1>5, <1>6 DEF Prefix, VersionPart
<1>11. Spelling(ctx, type) = f
  BY <1>7, <1>8, <1>9, <1>10 DEF Spelling
<1>12. Len(f) = Len(a) + Len(b) + Len(c)
  <2>1. Len(a) \in Nat /\ Len(b) \in Nat /\ Len(c) \in Nat
    BY Joined
  <2> QED BY <1>8, <1>9, <2>1, SMT
<1> QED BY <1>1, <1>2, <1>3, <1>4, <1>5, <1>6, <1>7, <1>10, <1>11, <1>12

LEMMA NumberFieldWrites ==
  ASSUME NEW d \in Nat, NEW T, NEW s, NEW literal \in Seq(Char), NEW n \in Nat,
         NEW rest \in Seq(Char), Writing(s, d, T, literal \o (Decimal[n] \o rest))
  PROVE  Writing(NumberField(s, literal, n), d, T, rest)
<1>1. Decimal[n] \o rest \in Seq(Char)
  BY NumberStrings, Joined
<1>2. Writing(SS(s, literal), d, T, Decimal[n] \o rest)
  BY <1>1, SSWrites
<1> QED BY <1>2, SXWrites DEF NumberField

LEMMA BytesFieldWrites ==
  ASSUME NEW d \in Nat, NEW T, NEW s, NEW bin \in Seq(Byte), NEW rest \in Seq(Char),
         Writing(s, d, T, <<"$">> \o (to_base64(bin) \o rest))
  PROVE  Writing(BytesField(s, bin), d, T, rest)
<1>1. to_base64(bin) \o rest \in Seq(Char)
  BY BytesStrings, Joined
<1>2. PICK dollar \in Seq(Char) : dollar = <<"$">>
  BY Literals
<1>3. Writing(SS(s, dollar), d, T, to_base64(bin) \o rest)
  BY <1>1, <1>2, SSWrites
<1> QED BY <1>2, <1>3, SBWrites DEF BytesField

(* passe_encode_string writes the spelling, if there is room for it and a NUL. *)
Encodes(d, ctx, type) ==
  /\ passe_encode_string(d, ctx, type).dst \in Seq(Char)
  /\ passe_encode_string(d, ctx, type).dst = <<>>
     \/ Len(passe_encode_string(d, ctx, type).dst) < d
  /\ passe_encode_string(d, ctx, type).ret = OK <=>
       ValidateInputs(ctx) = OK /\ Len(Spelling(ctx, type)) < d
  /\ passe_encode_string(d, ctx, type).ret = OK =>
       passe_encode_string(d, ctx, type).dst = Spelling(ctx, type)

LEMMA EncodeIs ==
  ASSUME NEW d \in Nat, NEW ctx \in Spellable, NEW type \in Types
  PROVE  Encodes(d, ctx, type)
<1>0. /\ ctx.version \in Nat /\ ctx.m_cost \in Nat /\ ctx.t_cost \in Nat /\ ctx.lanes \in Nat
      /\ ctx.salt \in Seq(Byte) /\ ctx.out \in Seq(Byte)
  BY DEF Spellable
<1>1. PICK T \in Seq(Char) : T = Spelling(ctx, type)
  BY SpellingParts
<1>2. PICK name \in Seq(Char) : name = passe_argon2_type2string(type)
  BY Literals
<1>3. PICK lv \in Seq(Char), lm \in Seq(Char), lt \in Seq(Char), ll \in Seq(Char) :
        /\ lv = Literal.version /\ lm = Literal.memory
        /\ lt = Literal.time /\ ll = Literal.lanes
  BY Literals
<1>4. PICK salt \in Seq(Char), out \in Seq(Char) :
        salt = to_base64(ctx.salt) /\ out = to_base64(ctx.out)
  BY <1>0, BytesStrings
<1>5. PICK v \in Seq(Char), m \in Seq(Char), t \in Seq(Char), l \in Seq(Char) :
        /\ v = Decimal[ctx.version] /\ m = Decimal[ctx.m_cost]
        /\ t = Decimal[ctx.t_cost] /\ l = Decimal[ctx.lanes]
  BY <1>0, NumberStrings
<1>6. PICK dollar \in Seq(Char) : dollar = <<"$">>
  BY Literals
<1>7. PICK empty \in Seq(Char) : empty = <<>> /\ out \o empty = out /\ empty \o T = T
  BY EmptySeq, ConcatEmptySeq
<1>8. PICK h2 \in Seq(Char) : h2 = dollar \o (out \o empty)
  BY <1>7, Joined
<1>9. PICK h \in Seq(Char) : h = dollar \o (salt \o h2) /\ salt \o h2 \in Seq(Char)
  BY Joined
<1>10. Hashed(ctx) = h
  BY <1>4, <1>6, <1>7, <1>8, <1>9 DEF Hashed
<1>11. PICK c2 \in Seq(Char) : c2 = ll \o (l \o h)
  BY Joined
<1>12. PICK c1 \in Seq(Char) : c1 = lt \o (t \o c2)
  BY Joined
<1>13. PICK c \in Seq(Char) : c = lm \o (m \o c1)
  BY Joined
<1>14. Costs(ctx) = c
  BY <1>3, <1>5, <1>10, <1>11, <1>12, <1>13 DEF Costs
<1>15. PICK b \in Seq(Char) : b = lv \o (v \o c)
  BY Joined
<1>16. T = dollar \o (name \o b) /\ name \o b \in Seq(Char)
  <2>1. VersionPart(ctx) = lv \o v /\ Prefix(type) = dollar \o name
    BY <1>2, <1>3, <1>5, <1>6 DEF VersionPart, Prefix
  <2>2. (lv \o v) \o c = b
    <3>1. Associative(lv, v, c)
      BY Rejoined
    <3> QED BY <1>15, <3>1 DEF Associative
  <2>3. (dollar \o name) \o b = dollar \o (name \o b)
    <3>1. Associative(dollar, name, b)
      BY Rejoined
    <3> QED BY <3>1 DEF Associative
  <2>4. T = (dollar \o name) \o ((lv \o v) \o c)
    BY <1>1, <1>14, <2>1 DEF Spelling
  <2>5. T = (dollar \o name) \o b
    BY <2>2, <2>4
  <2> QED BY <2>3, <2>5, Joined
<1>17. PICK s0 : s0 = [ok |-> TRUE, room |-> d, dst |-> <<>>]
  OBVIOUS
<1>18. Writing(s0, d, T, dollar \o (name \o b))
  <2>1. s0 \in WriteStates /\ s0.ok = TRUE /\ s0.room = d /\ s0.dst = empty
    BY <1>7, <1>17 DEF WriteStates
  <2>2. Len(empty) = 0 /\ d - 0 = d
    BY <1>7, SMT
  <2>3. Wrote(s0, empty, d)
    BY <1>7, <2>1, <2>2 DEF Wrote
  <2> QED BY <1>7, <1>16, <2>3 DEF Writing
<1>19. PICK s1 : s1 = SS(s0, dollar)
  OBVIOUS
<1>20. PICK s2 : s2 = SS(s1, name)
  OBVIOUS
<1>21. PICK s3 : s3 = NumberField(s2, lv, ctx.version)
  OBVIOUS
<1>22. PICK s4 : s4 = NumberField(s3, lm, ctx.m_cost)
  OBVIOUS
<1>23. PICK s5 : s5 = NumberField(s4, lt, ctx.t_cost)
  OBVIOUS
<1>24. PICK s6 : s6 = NumberField(s5, ll, ctx.lanes)
  OBVIOUS
<1>25. PICK s7 : s7 = BytesField(s6, ctx.salt)
  OBVIOUS
<1>26. PICK s8 : s8 = BytesField(s7, ctx.out)
  OBVIOUS
<1>27. Writing(s8, d, T, empty)
  <2>1. Writing(s1, d, T, name \o b)
    BY <1>16, <1>18, <1>19, SSWrites
  <2>2. Writing(s2, d, T, lv \o (v \o c))
    BY <1>15, <1>20, <2>1, SSWrites
  <2>3. Writing(s3, d, T, lm \o (m \o c1))
    BY <1>0, <1>5, <1>13, <1>21, <2>2, NumberFieldWrites
  <2>4. Writing(s4, d, T, lt \o (t \o c2))
    BY <1>0, <1>5, <1>12, <1>22, <2>3, NumberFieldWrites
  <2>5. Writing(s5, d, T, ll \o (l \o h))
    BY <1>0, <1>5, <1>11, <1>23, <2>4, NumberFieldWrites
  <2>6. Writing(s6, d, T, dollar \o (salt \o h2))
    BY <1>0, <1>5, <1>9, <1>24, <2>5, NumberFieldWrites
  <2>7. Writing(s7, d, T, dollar \o (out \o empty))
    BY <1>0, <1>4, <1>6, <1>8, <1>25, <2>6, BytesFieldWrites
  <2> QED BY <1>0, <1>4, <1>6, <1>26, <2>7, BytesFieldWrites
<1>28. Wrote(s8, T, d)
  <2>1. PICK str \in Seq(Char) : Wrote(s8, str, d) /\ str \o empty = T
    BY <1>27 DEF Writing
  <2>2. str \o empty = str
    BY <1>7, ConcatEmptySeq
  <2> QED BY <2>1, <2>2
<1>29. /\ s8.dst \in Seq(Char) /\ <<>> \in Seq(Char)
       /\ s8.ok \in BOOLEAN /\ (s8.ok \/ Len(T) >= d)
       /\ s8.ok => s8.dst = T /\ (T = <<>> \/ Len(T) < d)
       /\ s8.dst = <<>> \/ Len(s8.dst) < d
  BY <1>28, EmptySeq DEF Wrote, WriteStates
<1>30. T # <<>> /\ Len(T) \in Nat
  <2>1. Len(dollar) = 1
    BY <1>6, Literals
  <2>2. Len(T) = Len(dollar) + Len(name \o b) /\ Len(name \o b) \in Nat
    BY <1>16, Joined
  <2>3. Len(T) # 0
    BY <2>1, <2>2, SMT
  <2> QED BY <2>3, EmptySeq, Joined
<1>31. s8.ok <=> Len(T) < d
  <2>1. Len(T) >= d => ~ Len(T) < d
    BY <1>30, SMT
  <2> QED BY <1>29, <1>30, <2>1
<1>32. passe_encode_string(d, ctx, type) =
         IF ValidateInputs(ctx) # OK THEN [ret |-> ValidateInputs(ctx), dst |-> <<>>]
         ELSE [ret |-> IF s8.ok THEN OK ELSE "ARGON2_ENCODING_FAIL", dst |-> s8.dst]
  BY <1>2, <1>3, <1>6, <1>17, <1>19, <1>20, <1>21, <1>22, <1>23, <1>24, <1>25, <1>26
     DEF passe_encode_string
<1>33. CASE ValidateInputs(ctx) # OK
  <2>1. /\ passe_encode_string(d, ctx, type).ret = ValidateInputs(ctx)
        /\ passe_encode_string(d, ctx, type).dst = <<>>
    BY <1>32, <1>33
  <2> QED BY <1>29, <1>33, <2>1 DEF Encodes
<1>34. CASE ValidateInputs(ctx) = OK
  <2>1. /\ passe_encode_string(d, ctx, type).ret = IF s8.ok THEN OK ELSE "ARGON2_ENCODING_FAIL"
        /\ passe_encode_string(d, ctx, type).dst = s8.dst
    BY <1>32, <1>34
  <2>2. OK # "ARGON2_ENCODING_FAIL"
    BY DEF OK
  <2>3. passe_encode_string(d, ctx, type).ret = OK <=> Len(T) < d
    BY <1>31, <2>1, <2>2
  <2>4. Len(T) < d => s8.dst = T
    BY <1>29, <1>31
  <2> QED BY <1>1, <1>29, <1>34, <2>1, <2>3, <2>4 DEF Encodes
<1> QED BY <1>33, <1>34

(***************************************************************************)
(* passe_argon2_encodedlen.                                                  *)
(***************************************************************************)

LEMMA TwoDigits ==
  ASSUME NEW n \in 16 .. 19, Radix >= 5, Radix <= 16
  PROVE  passe_numlen[n] = 2
<1> DEFINE q == n \div Radix
           r == n % Radix
<1>1. Radix \in Nat /\ n \in Nat /\ Radix >= 1 /\ ~ n < Radix
  BY RadixType, SMT
<1>2. q \in Nat /\ r \in Nat /\ n = q * Radix + r
  BY <1>1, DivModIs
<1>3. passe_numlen[n] = 1 + passe_numlen[q]
  BY <1>1, NumlenIs
<1> HIDE DEF q, r
<1>4. q < Radix
  <2> SUFFICES ASSUME ~ q < Radix PROVE FALSE
    OBVIOUS
  <2> DEFINE x == q * Radix
             y == Radix * Radix
  <2>1. Radix * Radix <= q * Radix
    BY <1>1, <1>2, MultMonotone, SMT
  <2>2. 5 * Radix <= Radix * Radix
    <3>1. 5 \in Nat
      OBVIOUS
    <3> QED BY <1>1, <3>1, MultMonotone
  <2>3. x \in Int /\ y \in Int /\ y <= x /\ 5 * Radix <= y /\ n = x + r
    BY <1>1, <1>2, <2>1, <2>2, SMT
  <2> HIDE DEF x, y
  <2> QED BY <1>1, <1>2, <2>3, SMT
<1>5. passe_numlen[q] = 1
  BY <1>2, <1>4, NumlenIs
<1> QED BY <1>3, <1>5

(* 16 and 19, the versions, have as many digits in every radix. *)
LEMMA VersionLength ==
  passe_numlen[ARGON2_VERSION_10] = passe_numlen[ARGON2_VERSION_NUMBER]
<1>1. Radix \in Nat /\ Radix >= 2 /\ Radix <= 16
  BY RadixType, CodecAssumption DEF ARGON2_VERSION_10
<1>2. CASE Radix >= 5
  <2>1. passe_numlen[16] = 2
    BY <1>1, <1>2, TwoDigits
  <2>2. passe_numlen[19] = 2
    BY <1>1, <1>2, TwoDigits
  <2> QED BY <2>1, <2>2 DEF ARGON2_VERSION_10, ARGON2_VERSION_NUMBER
<1>3. CASE Radix = 4
  <2>1. /\ 16 \div Radix = 4 /\ 19 \div Radix = 4 /\ ~ 16 < Radix /\ ~ 19 < Radix
    BY <1>3, SMT
  <2> QED BY <2>1, NumlenIs DEF ARGON2_VERSION_10, ARGON2_VERSION_NUMBER
<1>4. CASE Radix = 3
  <2>1. /\ 16 \div Radix = 5 /\ 19 \div Radix = 6 /\ ~ 16 < Radix /\ ~ 19 < Radix
        /\ 5 \div Radix = 1 /\ 6 \div Radix = 2 /\ ~ 5 < Radix /\ ~ 6 < Radix
        /\ 1 < Radix /\ 2 < Radix
    BY <1>4, SMT
  <2>2. passe_numlen[5] = 2 /\ passe_numlen[6] = 2
    <3>1. passe_numlen[1] = 1 /\ passe_numlen[2] = 1
      BY <2>1, NumlenIs
    <3> QED BY <2>1, <3>1, NumlenIs
  <2> QED BY <2>1, <2>2, NumlenIs DEF ARGON2_VERSION_10, ARGON2_VERSION_NUMBER
<1>5. CASE Radix = 2
  <2>1. /\ 16 \div Radix = 8 /\ 19 \div Radix = 9 /\ ~ 16 < Radix /\ ~ 19 < Radix
        /\ 8 \div Radix = 4 /\ 9 \div Radix = 4 /\ ~ 8 < Radix /\ ~ 9 < Radix
    BY <1>5, SMT
  <2>2. passe_numlen[8] = 1 + passe_numlen[4] /\ passe_numlen[9] = 1 + passe_numlen[4]
    BY <2>1, NumlenIs
  <2> QED BY <2>1, <2>2, NumlenIs DEF ARGON2_VERSION_10, ARGON2_VERSION_NUMBER
<1>6. Radix >= 5 \/ Radix = 4 \/ Radix = 3 \/ Radix = 2
  BY <1>1, SMT
<1> QED BY <1>2, <1>3, <1>4, <1>5, <1>6

LEMMA AskedContext ==
  ASSUME NEW ctx \in Contexts
  PROVE  /\ ctx \in Spellable /\ ctx.version \in {ARGON2_VERSION_10, ARGON2_VERSION_NUMBER}
         /\ ctx.m_cost \in UInt32 /\ ctx.t_cost \in UInt32 /\ ctx.lanes \in UInt32
         /\ ctx.threads = ctx.lanes
         /\ ctx.saltlen = Len(ctx.salt) /\ ctx.outlen = Len(ctx.out)
         /\ ctx.saltlen \in UInt32 /\ ctx.outlen \in UInt32
<1>1. \A n \in UInt32 : n \in Nat
  BY UlongType, SMT DEF UInt32
<1>2. /\ ctx \in Asked /\ ctx.threads = ctx.lanes
      /\ ctx.saltlen = Len(ctx.salt) /\ ctx.outlen = Len(ctx.out)
  BY ProgramAssumption
<1>3. ARGON2_VERSION_10 \in Nat /\ ARGON2_VERSION_NUMBER \in Nat
  BY DEF ARGON2_VERSION_10, ARGON2_VERSION_NUMBER
<1> QED BY <1>1, <1>2, <1>3 DEF Asked, Spellable

(* passe_argon2_encodedlen is the length of the string and its NUL. *)
LEMMA EncodedLength ==
  ASSUME NEW ctx \in Contexts, NEW type \in Types
  PROVE  passe_argon2_encodedlen(ctx, type) = Len(Spelling(ctx, type)) + 1
<1> DEFINE a == Len(passe_argon2_type2string(type))
           v == passe_numlen[ARGON2_VERSION_NUMBER]
           t == passe_numlen[ctx.t_cost]
           m == passe_numlen[ctx.m_cost]
           l == passe_numlen[ctx.lanes]
           s == passe_b64len(ctx.saltlen)
           o == passe_b64len(ctx.outlen)
           P == Len(Prefix(type))
           V == Len(VersionPart(ctx))
           C == Len(Costs(ctx))
           H == Len(Hashed(ctx))
           E == passe_argon2_encodedlen(ctx, type)
           S == Len(Spelling(ctx, type))
<1>1. /\ ctx \in Spellable /\ ctx.version \in {ARGON2_VERSION_10, ARGON2_VERSION_NUMBER}
      /\ ctx.saltlen = Len(ctx.salt) /\ ctx.outlen = Len(ctx.out)
  BY AskedContext
<1>2. passe_numlen[ctx.version] = v
  BY <1>1, VersionLength
<1>3. S = P + V + C /\ P = 1 + a /\ V = 3 + v
  BY <1>1, <1>2, SpellingParts
<1>4. C = 9 + m + t + l + H
  BY <1>1, CostsParts
<1>5. H = 2 + s + o
  BY <1>1, HashedParts
<1>6. E = 15 + a + t + m + l + s + o + v + 1
  BY DEF passe_argon2_encodedlen, FixedLength
<1>7. a \in Nat /\ v \in Nat /\ t \in Nat /\ m \in Nat /\ l \in Nat
  <2>1. ctx.t_cost \in Nat /\ ctx.m_cost \in Nat /\ ctx.lanes \in Nat
        /\ ARGON2_VERSION_NUMBER \in Nat
    BY <1>1 DEF Spellable, ARGON2_VERSION_NUMBER
  <2> QED BY <2>1, Literals, NumlenIs
<1>8. s \in Nat /\ o \in Nat
  <2>1. ctx.salt \in Seq(Byte) /\ ctx.out \in Seq(Byte)
    BY <1>1 DEF Spellable
  <2>2. passe_b64len(Len(ctx.salt)) \in Nat /\ passe_b64len(Len(ctx.out)) \in Nat
    BY <2>1, ToBase64Length, LenProperties
  <2> QED BY <1>1, <2>2
<1> HIDE DEF a, v, t, m, l, s, o, P, V, C, H, E, S
<1>9. E = S + 1
  BY <1>3, <1>4, <1>5, <1>6, <1>7, <1>8, SMT
<1> QED BY <1>9 DEF E, S

(***************************************************************************)
(* The program.                                                              *)
(***************************************************************************)
Made(ctx, type, d) ==
  [ret |-> passe_encode_string(d, ctx, type).ret, ctx |-> ctx, type |-> type,
   dst_len |-> d, dst |-> passe_encode_string(d, ctx, type).dst]

Reading(str, type, room) ==
  [ret |-> passe_decode_string(room, room, str, type).ret,
   ctx |-> passe_decode_string(room, room, str, type).ctx, type |-> type, room |-> room]

(* What was made is what passe_encode_string makes of a context; there is a text
   only if that succeeded, and what was read is what passe_decode_string makes of
   the text that is still there. *)
MadeInv ==
  made # NotMade =>
    \E ctx \in Contexts, type \in Types : \E d \in Rooms(ctx, type) : made = Made(ctx, type, d)
TextInv == text # NoString => text \in Seq(Char) /\ made # NotMade /\ made.ret = OK
ReadInv ==
  read # NotRead =>
    /\ text # NoString
    /\ \E type \in Types, room \in Nat : read = Reading(text, type, room)

EncodingInv == MadeInv /\ TextInv /\ ReadInv

LEMMA RoomType ==
  ASSUME NEW ctx \in Contexts, NEW type \in Types, NEW d \in Rooms(ctx, type)
  PROVE  /\ d \in Nat
         /\ passe_encode_string(d, ctx, type).ret = OK =>
              Changed(passe_encode_string(d, ctx, type).dst) \subseteq Seq(Char)
BY ProgramAssumption

LEMMA NoneMade ==
  /\ NotMade.ret # OK
  /\ \A ctx \in Contexts, type \in Types : \A d \in Rooms(ctx, type) : Made(ctx, type, d) # NotMade
  /\ \A str, room : \A type \in Types : Reading(str, type, room) # NotRead
<1>1. NotMade.ret # OK
  BY DEF NotMade, OK
<1>2. NotMade.type = "none" /\ NotRead.type = "none" /\ "none" \notin Types
  BY DEF NotMade, NotRead, Types
<1>3. \A ctx, type, d : Made(ctx, type, d).type = type
  BY DEF Made
<1>4. \A str, type, room : Reading(str, type, room).type = type
  BY DEF Reading
<1> QED BY <1>1, <1>2, <1>3, <1>4

(* What was made, what is stored and what was read belong together. *)
LEMMA EncodingInvariance == Spec => []EncodingInv
<1>1. Init => EncodingInv
  BY DEF Init, EncodingInv, MadeInv, TextInv, ReadInv
<1>2. EncodingInv /\ [Next]_vars => EncodingInv'
  <2> SUFFICES ASSUME EncodingInv, [Next]_vars PROVE EncodingInv'
    OBVIOUS
  <2>0. /\ MadeInv /\ TextInv /\ ReadInv
    BY DEF EncodingInv
  <2>1. ASSUME NEW ctx \in Contexts, NEW type \in Types, NEW d \in Rooms(ctx, type),
               Encode(ctx, type, d)
        PROVE  EncodingInv'
    <3>1. /\ made = NotMade /\ read' = read /\ made' = Made(ctx, type, d)
          /\ text' = IF passe_encode_string(d, ctx, type).ret = OK
                     THEN passe_encode_string(d, ctx, type).dst ELSE NoString
      BY <2>1 DEF Encode, Made
    <3>2. text = NoString /\ read = NotRead
      BY <2>0, <3>1 DEF TextInv, ReadInv
    <3>3. MadeInv'
      BY <3>1 DEF MadeInv
    <3>4. TextInv'
      <4> SUFFICES ASSUME text' # NoString
                   PROVE  text' \in Seq(Char) /\ made' # NotMade /\ made'.ret = OK
        BY DEF TextInv
      <4>1. /\ passe_encode_string(d, ctx, type).ret = OK
            /\ text' = passe_encode_string(d, ctx, type).dst
        BY <3>1
      <4>2. ctx \in Spellable /\ d \in Nat
        BY AskedContext, RoomType
      <4>3. text' = Spelling(ctx, type)
        BY <4>1, <4>2, EncodeIs DEF Encodes
      <4>4. made'.ret = OK
        BY <3>1, <4>1 DEF Made
      <4> QED BY <3>1, <4>2, <4>3, <4>4, SpellingParts, NoneMade
    <3>5. ReadInv'
      BY <3>1, <3>2 DEF ReadInv
    <3> QED BY <3>3, <3>4, <3>5 DEF EncodingInv
  <2>2. ASSUME Change PROVE EncodingInv'
    <3>1. /\ text # NoString /\ text = made.dst /\ read = NotRead
          /\ text' \in Changed(text) /\ made' = made /\ read' = read
      BY <2>2 DEF Change
    <3>2. made # NotMade /\ made.ret = OK
      BY <2>0, <3>1 DEF TextInv
    <3>3. PICK ctx \in Contexts, type \in Types : \E d \in Rooms(ctx, type) : made = Made(ctx, type, d)
      BY <2>0, <3>2 DEF MadeInv
    <3>4. PICK d \in Rooms(ctx, type) : made = Made(ctx, type, d)
      BY <3>3
    <3>5. passe_encode_string(d, ctx, type).ret = OK /\ text = passe_encode_string(d, ctx, type).dst
      BY <3>1, <3>2, <3>4 DEF Made
    <3>6. text' \in Seq(Char)
      BY <3>1, <3>5, RoomType
    <3>7. MadeInv' /\ TextInv' /\ ReadInv'
      BY <2>0, <3>1, <3>2, <3>6 DEF MadeInv, TextInv, ReadInv
    <3> QED BY <3>7 DEF EncodingInv
  <2>3. ASSUME text # NoString, NEW type \in Types,
               NEW room \in SmallRooms \union {max_field_len(text)}, Decode(type, room)
        PROVE  EncodingInv'
    <3>1. /\ text # NoString /\ made' = made /\ text' = text
          /\ read' = Reading(text, type, room)
      BY <2>3 DEF Decode, Reading
    <3>2. room \in Nat
      <4>1. text \in Seq(Char)
        BY <2>0, <3>1 DEF TextInv
      <4>2. max_field_len(text) \in Nat
        BY <4>1, LenProperties DEF max_field_len
      <4> QED BY <4>2, ProgramAssumption
    <3>3. MadeInv' /\ TextInv' /\ ReadInv'
      BY <2>0, <3>1, <3>2 DEF MadeInv, TextInv, ReadInv
    <3> QED BY <3>3 DEF EncodingInv
  <2>4. ASSUME Forget PROVE EncodingInv'
    BY <2>4 DEF Forget, EncodingInv, MadeInv, TextInv, ReadInv
  <2>5. ASSUME UNCHANGED vars PROVE EncodingInv'
    BY <2>0, <2>5 DEF vars, EncodingInv, MadeInv, TextInv, ReadInv
  <2> QED BY <2>1, <2>2, <2>3, <2>4, <2>5 DEF Next
<1> QED BY <1>1, <1>2, PTL DEF Spec

(* passe_encode_string succeeds on a valid context exactly when its buffer has the
   length that passe_argon2_encodedlen asks for, and it never writes behind the
   end of the buffer, however long the fields are (argon2/encoding.c).       *)
THEOREM EncodingFits == Spec => []EncodesWhenItFits
<1>1. EncodingInv => EncodesWhenItFits
  <2> SUFFICES ASSUME EncodingInv, made # NotMade
               PROVE  /\ made.dst = <<>> \/ Len(made.dst) + 1 <= made.dst_len
                      /\ ValidateInputs(made.ctx) = OK =>
                           (made.ret = OK <=>
                              made.dst_len >= passe_argon2_encodedlen(made.ctx, made.type))
    BY DEF EncodesWhenItFits
  <2>1. PICK ctx \in Contexts, type \in Types : \E d \in Rooms(ctx, type) : made = Made(ctx, type, d)
    BY DEF EncodingInv, MadeInv
  <2>2. PICK d \in Rooms(ctx, type) : made = Made(ctx, type, d)
    BY <2>1
  <2>3. /\ made.ctx = ctx /\ made.type = type /\ made.dst_len = d
        /\ made.ret = passe_encode_string(d, ctx, type).ret
        /\ made.dst = passe_encode_string(d, ctx, type).dst
    BY <2>2 DEF Made
  <2>4. ctx \in Spellable /\ d \in Nat
    BY AskedContext, RoomType
  <2>5. /\ made.dst = <<>> \/ Len(made.dst) < d
        /\ made.ret = OK <=> ValidateInputs(ctx) = OK /\ Len(Spelling(ctx, type)) < d
        /\ made.ret = OK => made.dst = Spelling(ctx, type)
    BY <2>3, <2>4, EncodeIs DEF Encodes
  <2> DEFINE S == Len(Spelling(ctx, type))
             E == passe_argon2_encodedlen(ctx, type)
             D == Len(made.dst)
  <2>6. S \in Nat /\ E = S + 1
    BY <2>4, EncodedLength, SpellingParts, Joined
  <2>7. D < d => D + 1 <= d
    <3>1. D \in Nat
      BY <2>3, <2>4, EncodeIs, LenProperties DEF Encodes
    <3> HIDE DEF D
    <3> QED BY <2>4, <3>1, SMT
  <2> HIDE DEF S, E
  <2>8. d >= E <=> S < d
    BY <2>4, <2>6, SMT
  <2> QED BY <2>3, <2>5, <2>7, <2>8 DEF S, E
<1> QED BY <1>1, EncodingInvariance, PTL

(***************************************************************************)
(* Decoding base64.                                                          *)
(***************************************************************************)

DecStates == [acc : Nat, acc_len : Nat, full : BOOLEAN, dst : Seq(Byte)]
DecBegin == [acc |-> 0, acc_len |-> 0, full |-> FALSE, dst |-> <<>>]
DecStep(d) == [p \in DecStates \X B64Chars |-> DecodedChar(p[1], d, p[2])]

(* The cases of one turn. *)
DecodesOne(s, d, c, e) ==
  LET X == Shifted(s.acc, CharBits, B64Val[c])
      n == s.acc_len + CharBits
  IN  /\ e \in DecStates
      /\ \/ s.full = TRUE /\ e.full = TRUE
         \/ /\ s.full = FALSE /\ n < ByteBits
            /\ e.acc = X /\ e.acc_len = n /\ e.full = FALSE /\ e.dst = s.dst
         \/ s.full = FALSE /\ n >= ByteBits /\ Len(s.dst) >= d /\ e.full = TRUE
         \/ /\ s.full = FALSE /\ n >= ByteBits /\ ~ Len(s.dst) >= d /\ n - ByteBits \in Nat
            /\ e.acc = X /\ e.acc_len = n - ByteBits /\ e.full = FALSE
            /\ Bits(X, n - ByteBits, ByteBits) \in Byte
            /\ e.dst = Append(s.dst, Bits(X, n - ByteBits, ByteBits))

LEMMA DecodedCharIs ==
  ASSUME NEW d \in Nat, NEW s \in DecStates, NEW c \in B64Chars
  PROVE  DecodesOne(s, d, c, DecodedChar(s, d, c))
<1> DEFINE X == Shifted(s.acc, CharBits, B64Val[c])
           n == s.acc_len + CharBits
           r == n - ByteBits
           b == Bits(X, r, ByteBits)
           e == DecodedChar(s, d, c)
<1>1. s.acc \in Nat /\ s.acc_len \in Nat /\ s.dst \in Seq(Byte) /\ s.full \in BOOLEAN
  BY DEF DecStates
<1>2. CharBits \in Nat /\ ByteBits \in Nat
  BY BitSizes
<1>3. B64Val[c] \in Nat /\ B64Val[c] = ValueOf(Alphabet, c)
  <2>1. B64Val[c] \in 0 .. exp2[CharBits] - 1 /\ exp2[CharBits] \in Nat
    BY Numerals DEF Numeral
  <2>2. B64Val[c] \in Nat
    BY <2>1, SMT
  <2> QED BY <2>2 DEF B64Val
<1>4. X \in Nat /\ n \in Nat
  <2>1. X \in Nat
    BY <1>1, <1>2, <1>3, ShiftedType
  <2> QED BY <1>1, <1>2, <2>1, SMT
<1>5. X = Shifted(s.acc, CharBits, ValueOf(Alphabet, c))
  BY <1>3
<1>6. CASE s.full = TRUE
  <2>1. e = s
    BY <1>6 DEF DecodedChar
  <2> QED BY <1>6, <2>1 DEF DecodesOne
<1>7. CASE s.full = FALSE /\ n < ByteBits
  <2>1. e = [acc |-> X, acc_len |-> n, full |-> FALSE, dst |-> s.dst]
    BY <1>5, <1>7 DEF DecodedChar
  <2> HIDE DEF X, n, e
  <2>2. e \in DecStates /\ e.acc = X /\ e.acc_len = n /\ e.full = FALSE /\ e.dst = s.dst
    BY <1>1, <1>4, <2>1 DEF DecStates
  <2> QED BY <1>7, <2>2 DEF DecodesOne, X, n, e
<1>8. CASE s.full = FALSE /\ ~ n < ByteBits /\ Len(s.dst) >= d
  <2>1. e = [acc |-> s.acc, acc_len |-> s.acc_len, full |-> TRUE, dst |-> s.dst]
    BY <1>5, <1>8 DEF DecodedChar
  <2>2. n >= ByteBits
    <3> HIDE DEF n
    <3> QED BY <1>2, <1>4, <1>8, SMT
  <2> HIDE DEF X, n, e
  <2>3. e \in DecStates /\ e.full = TRUE
    BY <1>1, <1>4, <2>1 DEF DecStates
  <2> QED BY <1>8, <2>2, <2>3 DEF DecodesOne, X, n, e
<1>9. CASE s.full = FALSE /\ ~ n < ByteBits /\ ~ Len(s.dst) >= d
  <2>1. e = [acc |-> X, acc_len |-> r, full |-> FALSE, dst |-> Append(s.dst, b)]
    BY <1>5, <1>9 DEF DecodedChar
  <2>2. n >= ByteBits /\ r \in Nat
    <3> HIDE DEF n
    <3> QED BY <1>2, <1>4, <1>9, SMT
  <2> HIDE DEF X, n, e, r
  <2>3. b \in Byte
    <3> DEFINE zero == 0
    <3>1. zero \in Nat
      OBVIOUS
    <3> HIDE DEF zero
    <3>2. MovedOut(r, ByteBits, X, zero)
      BY <1>2, <1>4, <2>2, <3>1, MoveOut
    <3> QED BY <3>2 DEF MovedOut, Byte
  <2> HIDE DEF b
  <2>4. Append(s.dst, b) \in Seq(Byte)
    BY <1>1, <2>3, AppendProperties
  <2>5. e \in DecStates /\ e.acc = X /\ e.acc_len = r /\ e.full = FALSE
        /\ e.dst = Append(s.dst, b)
    BY <1>4, <2>1, <2>2, <2>4 DEF DecStates
  <2> QED BY <1>9, <2>2, <2>3, <2>5 DEF DecodesOne, X, n, e, r, b
<1> QED BY <1>1, <1>6, <1>7, <1>8, <1>9

LEMMA DecTurns ==
  ASSUME NEW d \in Nat
  PROVE  /\ DecBegin \in DecStates /\ DecStep(d) \in TurnsOn(B64Chars, DecStates)
         /\ \A s \in DecStates, c \in B64Chars : DecStep(d)[<<s, c>>] = DecodedChar(s, d, c)
<1>1. DecBegin \in DecStates
  <2>1. <<>> \in Seq(Byte)
    BY EmptySeq
  <2> QED BY <2>1 DEF DecBegin, DecStates
<1>2. \A s \in DecStates, c \in B64Chars : DecodedChar(s, d, c) \in DecStates
  BY DecodedCharIs DEF DecodesOne
<1> QED BY <1>1, <1>2 DEF DecStep, TurnsOn

LEMMA DecodedIsFold ==
  ASSUME NEW d \in Nat, NEW run \in Seq(B64Chars)
  PROVE  DecodedChars(d, run) = Fold(DecBegin, DecStep(d), run)
<1> DEFINE Solves(f) == f = [k \in 0 .. Len(run) |->
                               IF k = 0 THEN [acc |-> 0, acc_len |-> 0, full |-> FALSE, dst |-> <<>>]
                               ELSE DecodedChar(f[k - 1], d, run[k])]
           f == CHOOSE h : Solves(h)
           g == States(DecBegin, DecStep(d), run)
           n == Len(run)
<1>1. DecodedChars(d, run) = f[n] /\ Fold(DecBegin, DecStep(d), run) = g[n]
  BY DEF DecodedChars, Fold
<1>2. /\ g \in [0 .. n -> DecStates] /\ n \in Nat /\ g[0] = DecBegin
      /\ \A k \in 1 .. n : /\ g[k - 1] \in DecStates
                           /\ g[k] = DecStep(d)[<<g[k - 1], run[k]>>]
  <2>1. DecBegin \in DecStates /\ DecStep(d) \in TurnsOn(B64Chars, DecStates)
    BY DecTurns
  <2> HIDE DEF n, g
  <2> QED BY <2>1, FoldExists DEF n, g
<1>3. \A k \in 1 .. n : run[k] \in B64Chars
  BY ElementOfSeq
<1>4. \A k \in 1 .. n : g[k] = DecodedChar(g[k - 1], d, run[k])
  <2> HIDE DEF g, n
  <2> QED BY <1>2, <1>3, DecTurns
<1>5. /\ \A k \in 1 .. n : k # 0 /\ k \in 0 .. n
      /\ \A k \in 0 .. n : k # 0 => k \in 1 .. n
      /\ 0 \in 0 .. n /\ n \in 0 .. n
  BY <1>2, SMT
<1> HIDE DEF g
<1>6. Solves(g)
  <2> HIDE DEF n
  <2>1. g = [k \in 0 .. n |-> g[k]]
    BY <1>2
  <2>2. \A k \in 0 .. n : g[k] = IF k = 0 THEN DecBegin ELSE DecodedChar(g[k - 1], d, run[k])
    BY <1>2, <1>4, <1>5
  <2>3. g = [k \in 0 .. n |-> IF k = 0 THEN DecBegin ELSE DecodedChar(g[k - 1], d, run[k])]
    BY <2>1, <2>2
  <2> QED BY <2>3 DEF n, DecBegin
<1>7. Solves(f)
  <2> HIDE DEF Solves
  <2> QED BY <1>6
<1>8. f[0] = DecBegin /\ \A k \in 1 .. n : f[k] = DecodedChar(f[k - 1], d, run[k])
  <2> HIDE DEF f
  <2> QED BY <1>5, <1>7 DEF DecBegin
<1> HIDE DEF f
<1>9. InStep(f, g, n)
  BY <1>2, <1>4, <1>8 DEF InStep
<1> HIDE DEF n
<1>10. \A k \in 0 .. n : f[k] = g[k]
  BY <1>2, <1>9, FoldsAgree
<1> QED BY <1>1, <1>5, <1>10

LEMMA DecodedStart ==
  ASSUME NEW d \in Nat
  PROVE  DecodedChars(d, <<>>) = DecBegin
<1>1. <<>> \in Seq(B64Chars)
  BY EmptySeq
<1>2. DecodedChars(d, <<>>) = Fold(DecBegin, DecStep(d), <<>>)
  BY <1>1, DecodedIsFold
<1> QED BY <1>2, DecTurns, FoldEmpty

LEMMA DecodedNext ==
  ASSUME NEW d \in Nat, NEW run \in Seq(B64Chars), NEW c \in B64Chars
  PROVE  /\ DecodedChars(d, run) \in DecStates
         /\ DecodedChars(d, Append(run, c)) = DecodedChar(DecodedChars(d, run), d, c)
<1>1. Append(run, c) \in Seq(B64Chars)
  BY AppendProperties
<1>2. DecBegin \in DecStates /\ DecStep(d) \in TurnsOn(B64Chars, DecStates)
  BY DecTurns
<1> DEFINE step == DecStep(d)
<1>3. step \in TurnsOn(B64Chars, DecStates)
      /\ \A s \in DecStates : step[<<s, c>>] = DecodedChar(s, d, c)
  BY DecTurns
<1>4. /\ DecodedChars(d, run) = Fold(DecBegin, step, run)
      /\ DecodedChars(d, Append(run, c)) = Fold(DecBegin, step, Append(run, c))
  BY <1>1, DecodedIsFold
<1> HIDE DEF step
<1>5. Fold(DecBegin, step, run) \in DecStates
  BY <1>2, <1>3, FoldType
<1>6. Fold(DecBegin, step, Append(run, c)) = step[<<Fold(DecBegin, step, run), c>>]
  BY <1>2, <1>3, FoldAppend
<1> QED BY <1>3, <1>4, <1>5, <1>6

(* What has been decoded, followed by what is pending, is what was read; a full
   buffer was too short for it. *)
DecInv(s, d, run) ==
  /\ s \in DecStates
  /\ s.full = TRUE => ByteBits * (d + 1) <= CharBits * Len(run)
  /\ s.full = FALSE =>
       /\ s.acc_len < ByteBits /\ Len(s.dst) <= d
       /\ ByteBits * Len(s.dst) + s.acc_len = CharBits * Len(run)
       /\ NumB(s.dst) * exp2[s.acc_len] + (s.acc % exp2[s.acc_len]) = NumC(run)

LEMMA DecInvNext ==
  ASSUME NEW d \in Nat, NEW run \in Seq(B64Chars), NEW c \in B64Chars, NEW s, DecInv(s, d, run)
  PROVE  DecInv(DecodedChar(s, d, c), d, Append(run, c))
<1> DEFINE t == Append(run, c)
           L == Len(run)
           X == Shifted(s.acc, CharBits, B64Val[c])
           a == s.acc_len
           n == a + CharBits
           K == Len(s.dst)
           N == NumB(s.dst)
           M == NumC(t)
<1>0. PICK e : e = DecodedChar(s, d, c)
  OBVIOUS
<1>1. /\ s \in DecStates /\ a \in Nat /\ s.acc \in Nat /\ s.dst \in Seq(Byte)
      /\ s.full = TRUE => ByteBits * (d + 1) <= CharBits * L
      /\ s.full = FALSE =>
           /\ a < ByteBits /\ K <= d /\ ByteBits * K + a = CharBits * L
           /\ N * exp2[a] + (s.acc % exp2[a]) = NumC(run)
  BY DEF DecInv, DecStates
<1>2. DecodesOne(s, d, c, e)
  BY <1>0, <1>1, DecodedCharIs
<1> SUFFICES DecInv(e, d, t)
  BY <1>0
<1>3. Len(t) = L + 1 /\ L \in Nat /\ K \in Nat /\ N \in Nat
  BY <1>1, AppendProperties, LenProperties, ByteNumbers
<1>4. /\ ByteBits \in Nat /\ CharBits \in Nat /\ AccBits \in Nat /\ CharBits < ByteBits
      /\ ByteBits + CharBits <= AccBits
  BY BitSizes
<1>5. CharBits * (L + 1) = CharBits * L + CharBits /\ CharBits * L \in Nat
  BY <1>3, <1>4, SMT
<1>6. B64Val[c] \in Nat /\ B64Val[c] < exp2[CharBits] /\ M = NumC(run) * exp2[CharBits] + B64Val[c]
  <2>1. B64Val[c] \in 0 .. exp2[CharBits] - 1 /\ exp2[CharBits] \in Nat
    BY Numerals DEF Numeral
  <2>2. B64Val[c] \in Nat /\ B64Val[c] < exp2[CharBits]
    BY <2>1, SMT
  <2> QED BY <2>2, CharNumbers
<1>7. n \in Nat
  BY <1>1, <1>4, SMT
<1>8. ASSUME s.full = FALSE
      PROVE  X \in Nat /\ N * exp2[n] + (X % exp2[n]) = M
  <2>1. n <= AccBits
    BY <1>1, <1>4, <1>8, SMT
  <2> DEFINE acc == s.acc
             v == B64Val[c]
  <2>2. acc \in Nat /\ v \in Nat /\ v < exp2[CharBits]
    BY <1>1, <1>6
  <2>3. N * exp2[a] + (acc % exp2[a]) = NumC(run) /\ X = Shifted(acc, CharBits, v)
    BY <1>1, <1>8
  <2> HIDE DEF acc, v, N, a, X
  <2>4. ShiftedIn(a, CharBits, acc, v, N)
    BY <1>1, <1>3, <1>4, <2>1, <2>2, ShiftIn
  <2> QED BY <1>6, <2>3, <2>4 DEF ShiftedIn, v
<1>9. CASE s.full = TRUE /\ e.full = TRUE
  <2> DEFINE x == ByteBits * (d + 1)
             y == CharBits * L
  <2>1. x <= y /\ x \in Int /\ y \in Int
    BY <1>1, <1>3, <1>4, <1>9, SMT
  <2> HIDE DEF x, y
  <2>2. x <= y + CharBits
    BY <1>4, <2>1, SMT
  <2>3. ByteBits * (d + 1) <= CharBits * Len(t)
    BY <1>3, <1>5, <2>2 DEF x, y
  <2>4. e \in DecStates /\ ~ e.full = FALSE
    BY <1>2, <1>9 DEF DecodesOne
  <2> HIDE DEF t
  <2> QED BY <2>3, <2>4 DEF DecInv
<1>10. CASE /\ s.full = FALSE /\ n < ByteBits
            /\ e.acc = X /\ e.acc_len = n /\ e.full = FALSE /\ e.dst = s.dst
  <2> DEFINE x == ByteBits * K
             y == CharBits * L
  <2>1. x + a = y /\ x \in Int /\ y \in Int
    BY <1>1, <1>3, <1>4, <1>10, SMT
  <2> HIDE DEF x, y
  <2>2. x + n = y + CharBits
    <3> HIDE DEF a
    <3> QED BY <1>1, <1>4, <2>1, SMT
  <2>3. ByteBits * K + n = CharBits * Len(t)
    BY <1>3, <1>5, <2>2 DEF x, y
  <2>4. e \in DecStates
    BY <1>2 DEF DecodesOne
  <2>5. /\ e.acc_len < ByteBits /\ Len(e.dst) <= d
        /\ ByteBits * Len(e.dst) + e.acc_len = CharBits * Len(t)
        /\ NumB(e.dst) * exp2[e.acc_len] + (e.acc % exp2[e.acc_len]) = M
    BY <1>1, <1>8, <1>10, <2>3
  <2> HIDE DEF t
  <2> QED BY <1>10, <2>4, <2>5 DEF DecInv
<1>11. CASE s.full = FALSE /\ n >= ByteBits /\ K >= d /\ e.full = TRUE
  <2> DEFINE x == ByteBits * K
             y == CharBits * L
             z == ByteBits * (d + 1)
  <2>1. x + a = y /\ x \in Int /\ y \in Int
    BY <1>1, <1>3, <1>4, <1>11, SMT
  <2>2. K = d
    <3> HIDE DEF K
    <3> QED BY <1>1, <1>3, <1>11, SMT
  <2>3. z = x + ByteBits
    <3>1. ByteBits * (d + 1) = ByteBits * d + ByteBits
      BY <1>4, SMT
    <3> QED BY <2>2, <3>1
  <2> HIDE DEF x, y, z
  <2>4. z <= y + CharBits
    <3>1. a + CharBits >= ByteBits
      BY <1>11
    <3> HIDE DEF a
    <3> QED BY <1>1, <1>4, <2>1, <2>3, <3>1, SMT
  <2>5. ByteBits * (d + 1) <= CharBits * Len(t)
    BY <1>3, <1>5, <2>4 DEF y, z
  <2>6. e \in DecStates
    BY <1>2 DEF DecodesOne
  <2> QED BY <1>11, <2>5, <2>6 DEF DecInv
<1>12. CASE /\ s.full = FALSE /\ n >= ByteBits /\ ~ K >= d /\ n - ByteBits \in Nat
            /\ e.acc = X /\ e.acc_len = n - ByteBits /\ e.full = FALSE
            /\ Bits(X, n - ByteBits, ByteBits) \in Byte
            /\ e.dst = Append(s.dst, Bits(X, n - ByteBits, ByteBits))
  <2> DEFINE r == n - ByteBits
             b == Bits(X, r, ByteBits)
             u == Append(s.dst, b)
             x == ByteBits * K
             y == CharBits * L
  <2>1. r \in Nat /\ r + ByteBits = n /\ r < ByteBits
    <3>1. a < ByteBits
      BY <1>1, <1>12
    <3> HIDE DEF a
    <3> QED BY <1>1, <1>4, <1>7, <1>12, <3>1, SMT
  <2>2. u \in Seq(Byte) /\ Len(u) = K + 1 /\ NumB(u) = N * exp2[ByteBits] + b
    BY <1>1, <1>12, AppendProperties, ByteNumbers
  <2>3. K + 1 <= d
    <3> HIDE DEF K
    <3> QED BY <1>3, <1>12, SMT
  <2>4. NumB(u) * exp2[r] + (X % exp2[r]) = M
    <3>1. X \in Nat /\ N * exp2[n] + (X % exp2[n]) = M
      BY <1>8, <1>12
    <3> HIDE DEF X, N, n, r, u, M
    <3>2. MovedOut(r, ByteBits, X, N)
      BY <1>3, <1>4, <2>1, <3>1, MoveOut
    <3>3. N * exp2[r + ByteBits] + (X % exp2[r + ByteBits])
            = (N * exp2[ByteBits] + b) * exp2[r] + (X % exp2[r])
      BY <3>2 DEF MovedOut
    <3> QED BY <2>1, <2>2, <3>1, <3>3
  <2>5. ByteBits * (K + 1) + r = CharBits * Len(t)
    <3>1. x + a = y /\ x \in Int /\ y \in Int
      BY <1>1, <1>3, <1>4, <1>12, SMT
    <3>2. ByteBits * (K + 1) = x + ByteBits
      <4> HIDE DEF K
      <4> QED BY <1>3, <1>4, SMT DEF x
    <3> HIDE DEF x, y, K, r
    <3>3. x + ByteBits + r = y + CharBits
      <4>1. r + ByteBits = a + CharBits
        BY <2>1
      <4> HIDE DEF a
      <4> QED BY <1>1, <1>4, <2>1, <3>1, <4>1, SMT
    <3> QED BY <1>3, <1>5, <3>2, <3>3 DEF y
  <2>6. e \in DecStates
    BY <1>2 DEF DecodesOne
  <2>7. e.acc = X /\ e.acc_len = r /\ e.full = FALSE /\ e.dst = u
    BY <1>12
  <2>8. /\ e.acc_len < ByteBits /\ Len(e.dst) <= d
        /\ ByteBits * Len(e.dst) + e.acc_len = CharBits * Len(t)
        /\ NumB(e.dst) * exp2[e.acc_len] + (e.acc % exp2[e.acc_len]) = M
    <3> HIDE DEF t, X, u, r, M
    <3> QED BY <2>1, <2>2, <2>3, <2>4, <2>5, <2>7
  <2> HIDE DEF t, X, u, r
  <2> QED BY <2>6, <2>7, <2>8 DEF DecInv
<1> QED BY <1>2, <1>9, <1>10, <1>11, <1>12 DEF DecodesOne

LEMMA DecodedInv ==
  ASSUME NEW d \in Nat
  PROVE  \A run \in Seq(B64Chars) : DecInv(DecodedChars(d, run), d, run)
<1> DEFINE S == {run \in Seq(B64Chars) : DecInv(DecodedChars(d, run), d, run)}
<1>1. <<>> \in S
  <2> DEFINE e == DecBegin
  <2>1. e \in DecStates /\ e.acc_len = 0 /\ e.acc = 0 /\ e.dst = <<>> /\ e.full = FALSE
    BY DecTurns DEF DecBegin
  <2>2. <<>> \in Seq(B64Chars) /\ Len(<<>>) = 0
    BY EmptySeq
  <2> HIDE DEF e
  <2>3. 0 < ByteBits /\ ByteBits * 0 + 0 = CharBits * 0 /\ 0 <= d
    BY BitSizes, SMT
  <2>4. 0 * exp2[0] + (0 % exp2[0]) = 0
    BY Exp2Is, SMT
  <2>5. DecInv(e, d, <<>>)
    BY <2>1, <2>2, <2>3, <2>4, CharNumbers, ByteNumbers DEF DecInv
  <2> QED BY <2>2, <2>5, DecodedStart DEF e
<1>2. ASSUME NEW run \in Seq(B64Chars), NEW c \in B64Chars, run \in S
      PROVE  Append(run, c) \in S
  <2>1. DecInv(DecodedChar(DecodedChars(d, run), d, c), d, Append(run, c))
    BY <1>2, DecInvNext
  <2>2. Append(run, c) \in Seq(B64Chars)
    BY AppendProperties
  <2> QED BY <2>1, <2>2, DecodedNext
<1> HIDE DEF S
<1>3. \A run \in Seq(B64Chars) : run \in S
  BY <1>1, <1>2, SeqInductionOnSets
<1> QED BY <1>3 DEF S

(* What from_base64 accepts is what to_base64 writes, and nothing else. *)
Accepted(e) == ~ e.full /\ LeftOverNothing(e)

LEMMA AcceptedOnlySpellings ==
  ASSUME NEW d \in Nat, NEW run \in Seq(B64Chars), Accepted(DecodedChars(d, run))
  PROVE  /\ DecodedChars(d, run).dst \in Seq(Byte) /\ Len(DecodedChars(d, run).dst) <= d
         /\ run = to_base64(DecodedChars(d, run).dst)
<1>0. PICK e : e = DecodedChars(d, run)
  OBVIOUS
<1> DEFINE a == e.acc_len
           src == e.dst
<1>1. DecInv(e, d, run) /\ Accepted(e)
  BY <1>0, DecodedInv
<1>2. a \in Nat /\ e.acc \in Nat /\ src \in Seq(Byte) /\ e.full = FALSE
  BY <1>1 DEF DecInv, DecStates, Accepted
<1>3. /\ Len(src) <= d /\ ByteBits * Len(src) + a = CharBits * Len(run)
      /\ NumB(src) * exp2[a] + (e.acc % exp2[a]) = NumC(run)
  BY <1>1, <1>2 DEF DecInv
<1>4. a <= SpareBits /\ e.acc % exp2[a] = 0
  BY <1>1 DEF Accepted, LeftOverNothing
<1>5. a < CharBits
  <2> HIDE DEF a
  <2> QED BY <1>2, <1>4, BitSizes, SMT
<1>6. NumC(run) = NumB(src) * exp2[a]
  <2>1. NumB(src) \in Nat /\ exp2[a] \in Nat
    BY <1>2, ByteNumbers, Exp2Positive
  <2> DEFINE x == NumB(src) * exp2[a]
  <2>2. x \in Nat
    BY <2>1, SMT
  <2>3. x + 0 = NumC(run)
    BY <1>3, <1>4
  <2> HIDE DEF x
  <2>4. x = NumC(run)
    BY <2>2, <2>3, SMT
  <2> QED BY <2>4 DEF x
<1>7. Spells(run, src)
  BY <1>2, <1>3, <1>5, <1>6 DEF Spells
<1>8. run = to_base64(src)
  BY <1>2, <1>7, ToBase64Spells, OneSpelling
<1> QED BY <1>0, <1>2, <1>3, <1>8

LEMMA SpellingsAccepted ==
  ASSUME NEW d \in Nat, NEW src \in Seq(Byte), Len(src) <= d
  PROVE  /\ Accepted(DecodedChars(d, to_base64(src)))
         /\ DecodedChars(d, to_base64(src)).dst = src
<1>0. PICK run : run = to_base64(src)
  OBVIOUS
<1>00. PICK e : e = DecodedChars(d, run)
  OBVIOUS
<1>1. Spells(run, src) /\ run \in Seq(B64Chars)
  BY <1>0, ToBase64Spells, ToBase64Length
<1>2. PICK pad \in Nat : /\ pad < CharBits /\ CharBits * Len(run) = ByteBits * Len(src) + pad
                         /\ NumC(run) = NumB(src) * exp2[pad]
  BY <1>1 DEF Spells
<1>3. DecInv(e, d, run)
  BY <1>00, <1>1, DecodedInv
<1> DEFINE L == Len(run)
           K == Len(src)
           a == e.acc_len
           dst == e.dst
           J == Len(dst)
<1>4. /\ e \in DecStates /\ e.full \in BOOLEAN /\ a \in Nat /\ e.acc \in Nat /\ dst \in Seq(Byte)
      /\ e.full = TRUE => ByteBits * (d + 1) <= CharBits * L
      /\ e.full = FALSE =>
           /\ a < ByteBits /\ ByteBits * J + a = CharBits * L
           /\ NumB(dst) * exp2[a] + (e.acc % exp2[a]) = NumC(run)
  BY <1>3 DEF DecInv, DecStates
<1>5. L \in Nat /\ K \in Nat /\ J \in Nat
  BY <1>1, <1>4, LenProperties
<1>6. /\ ByteBits \in Nat /\ CharBits \in Nat /\ CharBits < ByteBits
  BY BitSizes
<1>7. e.full = FALSE
  <2> SUFFICES ASSUME e.full = TRUE PROVE FALSE
    BY <1>4
  <2> DEFINE x == ByteBits * K
             y == ByteBits * d
             z == CharBits * L
  <2>1. ByteBits * (d + 1) = y + ByteBits
    BY <1>6, SMT
  <2>2. x \in Nat /\ y \in Nat /\ z \in Nat
    BY <1>5, <1>6, SMT
  <2>3. x <= y
    <3>1. K * ByteBits <= d * ByteBits
      BY <1>5, <1>6, MultMonotone
    <3>2. K * ByteBits = ByteBits * K /\ d * ByteBits = ByteBits * d
      BY <1>5, <1>6, SMT
    <3> QED BY <3>1, <3>2
  <2>4. y + ByteBits <= z /\ z = x + pad
    BY <1>2, <1>4, <2>1
  <2> HIDE DEF x, y, z
  <2> QED BY <1>2, <1>6, <2>2, <2>3, <2>4, SMT
<1>8. J = K /\ a = pad
  <2>1. J * ByteBits + a = K * ByteBits + pad
    <3>1. ByteBits * J + a = ByteBits * K + pad
      BY <1>2, <1>4, <1>7
    <3>2. K * ByteBits = ByteBits * K /\ J * ByteBits = ByteBits * J
      BY <1>5, <1>6, SMT
    <3> QED BY <3>1, <3>2
  <2>2. a < ByteBits /\ pad < ByteBits
    <3>1. a < ByteBits
      BY <1>4, <1>7
    <3>2. pad < ByteBits
      BY <1>2, <1>6, SMT
    <3> QED BY <3>1, <3>2
  <2> HIDE DEF J, K, a
  <2> QED BY <1>4, <1>5, <1>6, <2>1, <2>2, CutOnce
<1>9. pad <= SpareBits
  BY <1>2, <1>5, SpareAtEnd
<1>10. NumB(dst) = NumB(src) /\ e.acc % exp2[a] = 0
  <2> DEFINE w == exp2[a]
             m == NumB(dst)
             n == NumB(src)
             p == e.acc % w
  <2>1. w \in Nat /\ w >= 1 /\ m \in Nat /\ n \in Nat
    BY <1>4, Exp2Positive, ByteNumbers
  <2>2. p \in Nat /\ p < w
    <3> HIDE DEF w
    <3> QED BY <1>4, <2>1, DivModIs
  <2>3. m * w + p = n * w + 0
    <3>1. m * w + p = n * w
      BY <1>2, <1>4, <1>7, <1>8
    <3>2. n * w + 0 = n * w
      <4> HIDE DEF n, w
      <4> QED BY <2>1, SMT
    <3> QED BY <3>1, <3>2
  <2> HIDE DEF w, m, n, p
  <2>4. 0 \in Nat /\ 0 < w
    BY <2>1, SMT
  <2>5. m = n /\ p = 0
    BY <2>1, <2>2, <2>3, <2>4, CutOnce
  <2> QED BY <2>5 DEF w, m, n, p
<1>11. dst = src
  BY <1>4, <1>8, <1>10, Numerals, NumberUnique DEF NumB
<1> QED BY <1>0, <1>00, <1>7, <1>8, <1>9, <1>10, <1>11 DEF Accepted, LeftOverNothing

(***************************************************************************)
(* Positions in a string.                                                    *)
(***************************************************************************)

(* A is what str has left from the index i. *)
At(str, i, A) ==
  /\ i \in Nat /\ i # 0 /\ A \in Seq(Char) /\ i + Len(A) = Len(str) + 1
  /\ \A k \in 1 .. Len(A) : str[i + k - 1] = A[k]

(* p stands at the index i. *)
Stands(str, i, p) == \A k \in 1 .. Len(p) : str[i + k - 1] = p[k]

LEMMA AtStart ==
  ASSUME NEW str \in Seq(Char)
  PROVE  At(str, 1, str)
<1>1. Len(str) \in Nat
  BY LenProperties
<1>2. \A k \in 1 .. Len(str) : 1 + k - 1 = k
  BY <1>1, SMT
<1>3. 1 + Len(str) = Len(str) + 1 /\ 1 \in Nat /\ 1 # 0
  BY <1>1, SMT
<1> QED BY <1>2, <1>3 DEF At

LEMMA AtSome ==
  ASSUME NEW str \in Seq(Char), NEW i \in Nat, i # 0, i <= Len(str) + 1
  PROVE  \E A \in Seq(Char) : At(str, i, A)
<1> DEFINE n == Len(str) + 1 - i
           A == [k \in 1 .. n |-> str[i + k - 1]]
<1>1. Len(str) \in Nat /\ \A k \in 1 .. Len(str) : str[k] \in Char
  BY LenProperties, ElementOfSeq
<1>2. n \in Nat /\ i + n = Len(str) + 1 /\ \A k \in 1 .. n : i + k - 1 \in 1 .. Len(str)
  BY <1>1, SMT
<1> HIDE DEF n
<1>3. A \in [1 .. n -> Char]
  BY <1>1, <1>2
<1>4. A \in Seq(Char) /\ Len(A) = n
  BY <1>2, <1>3, IsASeq, LenProperties
<1>5. At(str, i, A)
  BY <1>2, <1>4 DEF At
<1> QED BY <1>4, <1>5

LEMMA AtOne ==
  ASSUME NEW str, Len(str) \in Nat, NEW i, NEW A, NEW B, At(str, i, A), At(str, i, B)
  PROVE  A = B
<1>1. /\ A \in Seq(Char) /\ B \in Seq(Char) /\ i \in Nat
      /\ i + Len(A) = Len(str) + 1 /\ i + Len(B) = Len(str) + 1
  BY DEF At
<1>2. Len(A) \in Nat /\ Len(B) \in Nat
  BY <1>1, LenProperties
<1>3. Len(A) = Len(B)
  BY <1>1, <1>2, SMT
<1>4. \A k \in 1 .. Len(A) : A[k] = B[k]
  BY <1>3 DEF At
<1> QED BY <1>1, <1>3, <1>4, SeqEqual

LEMMA AtPieces ==
  ASSUME NEW str, Len(str) \in Nat, NEW i \in Nat, i # 0,
         NEW p \in Seq(Char), NEW B \in Seq(Char)
  PROVE  /\ At(str, i, p \o B) <=> Stands(str, i, p) /\ At(str, i + Len(p), B)
         /\ i + Len(p) \in Nat /\ i + Len(p) # 0
<1> DEFINE A == p \o B
           n == Len(p)
           m == Len(B)
<1>1. /\ n \in Nat /\ m \in Nat /\ A \in Seq(Char) /\ Len(A) = n + m
      /\ \A k \in 1 .. Len(p) + Len(B) : A[k] = IF k <= Len(p) THEN p[k] ELSE B[k - Len(p)]
  BY ConcatProperties, LenProperties
<1>2. /\ \A k \in 1 .. n : k \in 1 .. n + m /\ A[k] = p[k]
      /\ \A k \in 1 .. m : n + k \in 1 .. n + m /\ A[n + k] = B[k]
  <2>1. \A k \in 1 .. n : k \in 1 .. n + m /\ k <= n
    BY <1>1, SMT
  <2>2. \A k \in 1 .. m : n + k \in 1 .. n + m /\ ~ n + k <= n /\ (n + k) - n = k
    BY <1>1, SMT
  <2> HIDE DEF A
  <2> QED BY <1>1, <2>1, <2>2
<1>3. i + n \in Nat /\ i + n # 0
  BY <1>1, SMT
<1>4. i + (n + m) = Len(str) + 1 <=> (i + n) + m = Len(str) + 1
  BY <1>1, SMT
<1>5. \A k \in 1 .. m : i + (n + k) - 1 = (i + n) + k - 1
  BY <1>1, SMT
<1> HIDE DEF A, n, m
<1>6. ASSUME \A k \in 1 .. n + m : str[i + k - 1] = A[k]
      PROVE  /\ \A k \in 1 .. n : str[i + k - 1] = p[k]
             /\ \A k \in 1 .. m : str[(i + n) + k - 1] = B[k]
  BY <1>2, <1>5, <1>6
<1>7. ASSUME /\ \A k \in 1 .. n : str[i + k - 1] = p[k]
             /\ \A k \in 1 .. m : str[(i + n) + k - 1] = B[k],
             NEW k \in 1 .. n + m
      PROVE  str[i + k - 1] = A[k]
  <2>1. CASE k <= n
    <3>1. k \in 1 .. n
      BY <1>1, <2>1, SMT
    <3> QED BY <1>2, <1>7, <3>1
  <2>2. CASE ~ k <= n
    <3>1. PICK j \in 1 .. m : k = n + j
      <4>1. k - n \in 1 .. m /\ k = n + (k - n)
        BY <1>1, <2>2, SMT
      <4> QED BY <4>1
    <3>2. str[i + (n + j) - 1] = B[j]
      BY <1>5, <1>7
    <3> QED BY <1>2, <3>1, <3>2
  <2> QED BY <2>1, <2>2
<1>8. At(str, i, A) <=> /\ i + (n + m) = Len(str) + 1
                        /\ \A k \in 1 .. n + m : str[i + k - 1] = A[k]
  BY <1>1 DEF At
<1>9. At(str, i + n, B) <=> /\ (i + n) + m = Len(str) + 1
                            /\ \A k \in 1 .. m : str[(i + n) + k - 1] = B[k]
  BY <1>1, <1>3 DEF At, m
<1>10. Stands(str, i, p) <=> \A k \in 1 .. n : str[i + k - 1] = p[k]
  BY DEF Stands, n
<1>11. At(str, i, A) <=> Stands(str, i, p) /\ At(str, i + n, B)
  BY <1>4, <1>6, <1>7, <1>8, <1>9, <1>10
<1> QED BY <1>3, <1>11 DEF A, n

LEMMA AtEnd ==
  ASSUME NEW str, Len(str) \in Nat, NEW i, NEW B, At(str, i, B)
  PROVE  /\ i \in Nat /\ i # 0 /\ i <= Len(str) + 1 /\ B \in Seq(Char) /\ Len(B) <= Len(str)
         /\ i = Len(str) + 1 <=> B = <<>>
<1>1. i \in Nat /\ i # 0 /\ B \in Seq(Char) /\ i + Len(B) = Len(str) + 1 /\ Len(B) \in Nat
  BY LenProperties DEF At
<1>2. B = <<>> <=> Len(B) = 0
  BY <1>1, EmptySeq
<1>3. /\ i <= Len(str) + 1 /\ Len(B) <= Len(str)
      /\ i = Len(str) + 1 <=> Len(B) = 0
  BY <1>1, SMT
<1> QED BY <1>1, <1>2, <1>3

(* CC moves behind the characters that it looks for, if they are there. *)
LEMMA CCType ==
  ASSUME NEW str, NEW i \in Nat, NEW p \in Seq(Char)
  PROVE  CC(p, str, i) \in Nat
<1>1. Len(p) \in Nat /\ NULL = 0
  BY LenProperties DEF NULL
<1>2. i + Len(p) \in Nat /\ 0 \in Nat
  BY <1>1, SMT
<1> QED BY <1>1, <1>2 DEF CC

LEMMA CCFinds ==
  ASSUME NEW str, Len(str) \in Nat, NEW i \in Nat, NEW p \in Seq(Char), NEW B \in Seq(Char),
         At(str, i, p \o B)
  PROVE  At(str, CC(p, str, i), B)
<1>1. i # 0
  BY DEF At
<1>2. Stands(str, i, p) /\ At(str, i + Len(p), B)
  BY <1>1, AtPieces
<1>3. Len(p) \in Nat /\ DOMAIN p = 1 .. Len(p) /\ NULL = 0
  BY LenProperties DEF NULL
<1>4. i + Len(p) - 1 <= Len(str)
  <2>1. i + Len(p) <= Len(str) + 1
    BY <1>2, AtEnd
  <2> QED BY <1>3, <2>1, SMT
<1>5. StartsWith(p, str, i)
  BY <1>2, <1>3, <1>4 DEF StartsWith, Stands
<1>6. CC(p, str, i) = i + Len(p)
  BY <1>1, <1>3, <1>5 DEF CC
<1> QED BY <1>2, <1>6

LEMMA CCFound ==
  ASSUME NEW str \in Seq(Char), NEW i \in Nat, NEW p \in Seq(Char), CC(p, str, i) # NULL
  PROVE  \E B \in Seq(Char) : At(str, i, p \o B) /\ At(str, CC(p, str, i), B)
<1>1. i # 0 /\ StartsWith(p, str, i) /\ CC(p, str, i) = i + Len(p)
  BY DEF CC, NULL
<1>2. Len(p) \in Nat /\ DOMAIN p = 1 .. Len(p) /\ Len(str) \in Nat
  BY LenProperties
<1>3. Stands(str, i, p) /\ i + Len(p) - 1 <= Len(str)
  BY <1>1, <1>2 DEF StartsWith, Stands
<1>4. i + Len(p) \in Nat /\ i + Len(p) # 0 /\ i + Len(p) <= Len(str) + 1
  BY <1>1, <1>2, <1>3, SMT
<1>5. PICK B \in Seq(Char) : At(str, i + Len(p), B)
  BY <1>4, AtSome
<1>6. At(str, i, p \o B)
  BY <1>1, <1>2, <1>3, <1>5, AtPieces
<1> QED BY <1>1, <1>5, <1>6

(* A loop over characters takes all of them up to the first one of another kind. *)
Ends(B, chars) == B = <<>> \/ B[1] \notin chars

RunsTo(str, i, chars, n) ==
  /\ \A k \in 0 .. n - 1 : str[i + k] \in chars
  /\ i + n > Len(str) \/ str[i + n] \notin chars

LEMMA RunLengthIs ==
  ASSUME NEW str, Len(str) \in Nat, NEW i \in Nat, i # 0, i <= Len(str) + 1, NEW chars
  PROVE  /\ RunLength(str, i, chars) \in 0 .. Len(str) - i + 1
         /\ RunsTo(str, i, chars, RunLength(str, i, chars))
         /\ \A n \in 0 .. Len(str) - i + 1 :
              RunsTo(str, i, chars, n) => n = RunLength(str, i, chars)
<1> DEFINE room == Len(str) - i + 1
           S == {n \in Nat : i + n > Len(str) \/ str[i + n] \notin chars}
<1>1. room \in Nat /\ i + room > Len(str) /\ \A n \in Nat : n <= room <=> n \in 0 .. room
  BY SMT
<1>2. room \in S
  BY <1>1
<1>3. PICK m \in Nat : m \in S /\ \A k \in Nat : k < m => k \notin S
  <2> HIDE DEF S, room
  <2> QED BY <1>1, <1>2, LeastNumber
<1>4. m \in 0 .. room
  <2>1. ~ room < m
    BY <1>1, <1>2, <1>3
  <2> HIDE DEF room
  <2> QED BY <1>1, <2>1, SMT
<1>5. RunsTo(str, i, chars, m)
  <2>1. ASSUME NEW k \in 0 .. m - 1 PROVE str[i + k] \in chars
    <3>1. k \in Nat /\ k < m
      BY <1>3, <2>1, SMT
    <3> QED BY <1>3, <3>1
  <2> QED BY <1>3, <2>1 DEF RunsTo
<1>6. ASSUME NEW a \in 0 .. room, NEW b \in 0 .. room,
             RunsTo(str, i, chars, a), RunsTo(str, i, chars, b), a < b
      PROVE  FALSE
  <2>1. a \in 0 .. b - 1 /\ ~ i + a > Len(str)
    BY <1>1, <1>6, SMT
  <2> QED BY <1>6, <2>1 DEF RunsTo
<1>7. \A a, b \in 0 .. room : RunsTo(str, i, chars, a) /\ RunsTo(str, i, chars, b) => a = b
  <2> SUFFICES ASSUME NEW a \in 0 .. room, NEW b \in 0 .. room,
                      RunsTo(str, i, chars, a), RunsTo(str, i, chars, b)
               PROVE  a = b
    OBVIOUS
  <2>1. ~ a < b /\ ~ b < a
    BY <1>6
  <2> HIDE DEF room
  <2> QED BY <1>1, <2>1, SMT
<1>8. RunLength(str, i, chars) = CHOOSE n \in 0 .. room : RunsTo(str, i, chars, n)
  BY DEF RunLength, RunsTo
<1> HIDE DEF room
<1>9. RunLength(str, i, chars) \in 0 .. room /\ RunsTo(str, i, chars, RunLength(str, i, chars))
  BY <1>4, <1>5, <1>8
<1> QED BY <1>7, <1>9 DEF room

LEMMA RunIs ==
  ASSUME NEW str \in Seq(Char), NEW i \in Nat, i # 0, i <= Len(str) + 1,
         NEW chars, chars \subseteq Char
  PROVE  /\ Run(str, i, chars) \in Seq(chars) /\ Run(str, i, chars) \in Seq(Char)
         /\ \E B \in Seq(Char) : Ends(B, chars) /\ At(str, i, Run(str, i, chars) \o B)
<1> DEFINE n == RunLength(str, i, chars)
           r == Run(str, i, chars)
<1>1. Len(str) \in Nat /\ \A k \in 1 .. Len(str) : str[k] \in Char
  BY LenProperties, ElementOfSeq
<1>2. n \in 0 .. Len(str) - i + 1 /\ RunsTo(str, i, chars, n)
  BY <1>1, RunLengthIs
<1>3. r = SubSeq(str, i, i + n - 1)
  BY DEF Run
<1> HIDE DEF n, r
<1>4. /\ n \in Nat /\ i + n - 1 \in Int /\ i \in Int /\ i >= 1
      /\ i <= i + n - 1 => i + n - 1 <= Len(str)
      /\ i + n \in Nat /\ i + n # 0 /\ i + n <= Len(str) + 1
  BY <1>1, <1>2, SMT
<1>5. r = [k \in 1 .. n |-> str[i + k - 1]]
  <2>1. SubSeq(str, i, i + n - 1) = [k \in 1 .. (i + n - 1) - i + 1 |-> str[i + k - 1]]
    BY <1>4 DEF SubSeq
  <2>2. (i + n - 1) - i + 1 = n
    BY <1>4, SMT
  <2> QED BY <1>3, <2>1, <2>2
<1>6. \A k \in 1 .. n : str[i + k - 1] \in chars
  <2> SUFFICES ASSUME NEW k \in 1 .. n PROVE str[i + k - 1] \in chars
    OBVIOUS
  <2>1. k - 1 \in 0 .. n - 1 /\ i + k - 1 = i + (k - 1)
    BY <1>4, SMT
  <2> QED BY <1>2, <2>1 DEF RunsTo
<1>7. r \in [1 .. n -> chars] /\ r \in [1 .. n -> Char]
  BY <1>5, <1>6
<1>8. r \in Seq(chars) /\ r \in Seq(Char) /\ Len(r) = n
  BY <1>4, <1>7, IsASeq, LenProperties
<1>9. PICK B \in Seq(Char) : At(str, i + n, B)
  BY <1>4, AtSome
<1>10. At(str, i, r \o B)
  <2>1. Stands(str, i, r)
    BY <1>5, <1>8 DEF Stands
  <2> QED BY <1>1, <1>8, <1>9, <2>1, AtPieces
<1>11. Ends(B, chars)
  <2> SUFFICES ASSUME B # <<>> PROVE B[1] \notin chars
    BY DEF Ends
  <2>1. Len(B) \in Nat /\ Len(B) # 0
    BY LenProperties, EmptySeq
  <2>2. 1 \in 1 .. Len(B)
    BY <2>1, SMT
  <2>3. i + n + 1 - 1 = i + n /\ i + n + Len(B) = Len(str) + 1
    BY <1>4, <1>9, SMT DEF At
  <2>4. B[1] = str[i + n] /\ ~ i + n > Len(str)
    <3>1. str[i + n + 1 - 1] = B[1]
      BY <1>9, <2>2 DEF At
    <3>2. ~ i + n > Len(str)
      BY <1>1, <1>4, <2>1, <2>3, SMT
    <3> QED BY <2>3, <3>1, <3>2
  <2> QED BY <1>2, <2>4 DEF RunsTo
<1> QED BY <1>8, <1>10, <1>11 DEF r

LEMMA RunFinds ==
  ASSUME NEW str \in Seq(Char), NEW i \in Nat, NEW chars, chars \subseteq Char,
         NEW r \in Seq(chars), NEW B \in Seq(Char), Ends(B, chars), At(str, i, r \o B)
  PROVE  Run(str, i, chars) = r /\ At(str, i + Len(r), B)
<1> DEFINE n == Len(r)
<1>1. Len(str) \in Nat /\ n \in Nat /\ r \in Seq(Char) /\ i # 0
  <2>1. Len(r) \in Nat /\ r \in [1 .. Len(r) -> Char]
    BY LenProperties
  <2> QED BY <2>1, LenProperties, IsASeq DEF At
<1>2. Stands(str, i, r) /\ At(str, i + n, B)
  BY <1>1, AtPieces
<1>3. /\ i + n \in Nat /\ i + n # 0 /\ i + n <= Len(str) + 1 /\ i + n + Len(B) = Len(str) + 1
      /\ i + n = Len(str) + 1 <=> B = <<>>
  BY <1>1, <1>2, AtEnd DEF At
<1>4. n \in 0 .. Len(str) - i + 1 /\ i <= Len(str) + 1
  BY <1>1, <1>3, SMT
<1>5. RunsTo(str, i, chars, n)
  <2>1. ASSUME NEW k \in 0 .. n - 1 PROVE str[i + k] \in chars
    <3>1. k + 1 \in 1 .. n /\ i + (k + 1) - 1 = i + k
      BY <1>1, <2>1, SMT
    <3>2. r[k + 1] \in chars
      BY <3>1, ElementOfSeq
    <3> QED BY <1>2, <3>1, <3>2 DEF Stands
  <2>2. ASSUME ~ i + n > Len(str) PROVE str[i + n] \notin chars
    <3>1. B # <<>> /\ Len(B) \in Nat
      <4>1. i + n # Len(str) + 1
        BY <1>1, <1>3, <2>2, SMT
      <4> QED BY <1>3, <4>1, LenProperties
    <3>2. 1 \in 1 .. Len(B) /\ i + n + 1 - 1 = i + n
      <4>1. Len(B) # 0
        BY <3>1, EmptySeq
      <4> QED BY <1>3, <3>1, <4>1, SMT
    <3>3. str[i + n + 1 - 1] = B[1]
      BY <1>2, <3>2 DEF At
    <3> QED BY <3>1, <3>2, <3>3 DEF Ends
  <2> QED BY <2>1, <2>2 DEF RunsTo
<1>6. RunLength(str, i, chars) = n
  BY <1>1, <1>4, <1>5, RunLengthIs
<1>7. Run(str, i, chars) = SubSeq(str, i, i + n - 1)
  BY <1>6 DEF Run
<1>8. SubSeq(str, i, i + n - 1) = [k \in 1 .. n |-> str[i + k - 1]]
  <2>1. SubSeq(str, i, i + n - 1) = [k \in 1 .. (i + n - 1) - i + 1 |-> str[i + k - 1]]
    BY DEF SubSeq
  <2>2. (i + n - 1) - i + 1 = n
    BY <1>1, SMT
  <2> QED BY <2>1, <2>2
<1>9. \A k \in 1 .. n : str[i + k - 1] = r[k]
  BY <1>2 DEF Stands
<1>10. r = [k \in 1 .. n |-> r[k]]
  BY LenProperties
<1> QED BY <1>2, <1>7, <1>8, <1>9, <1>10

(* An index of str, the one behind its end, or NULL. *)
Inside(str, i) == i \in Nat /\ (i # NULL => i <= Len(str) + 1)

LEMMA AtInside ==
  ASSUME NEW str, Len(str) \in Nat, NEW i, NEW B, At(str, i, B)
  PROVE  Inside(str, i) /\ i # NULL
BY AtEnd DEF Inside, NULL

LEMMA CCInside ==
  ASSUME NEW str \in Seq(Char), NEW i \in Nat, NEW p \in Seq(Char)
  PROVE  Inside(str, CC(p, str, i))
<1>1. Len(str) \in Nat
  BY LenProperties
<1>2. CASE CC(p, str, i) = NULL
  BY <1>2, CCType DEF Inside
<1>3. CASE CC(p, str, i) # NULL
  BY <1>1, <1>3, CCFound, AtInside
<1> QED BY <1>2, <1>3

(* decode_decimal reads the digits of numbers, without leading zeros, up to ULONG_MAX. *)
LEMMA DecodeDecimalIs ==
  ASSUME NEW str, NEW i, NEW run \in Seq(DigitChars), Run(str, i, DigitChars) = run
  PROVE  decode_decimal(str, i) =
           IF NumD(run) <= ULONG_MAX /\ Minimal(run)
           THEN [next |-> i + Len(run), value |-> NumD(run)] ELSE Unread
<1>1. NumD(run) \in Nat
  BY DigitNumbers
<1>2. NumD(run) # Overflow
  BY <1>1, SMT DEF Overflow
<1>3. DecimalValue(run) = IF NumD(run) <= ULONG_MAX THEN NumD(run) ELSE Overflow
  BY DecimalValueIs
<1>4. decode_decimal(str, i) =
        IF DecimalValue(run) # Overflow /\ Minimal(run)
        THEN [next |-> i + Len(run), value |-> DecimalValue(run)] ELSE Unread
  BY DEF decode_decimal, DigitChars
<1> QED BY <1>2, <1>3, <1>4

LEMMA NumberFound ==
  ASSUME NEW str \in Seq(Char), NEW i, Inside(str, i), DECIMAL_U32(str, i).next # NULL
  PROVE  \E n \in UInt32, B \in Seq(Char) :
           /\ DECIMAL_U32(str, i).value = n
           /\ At(str, i, Decimal[n] \o B) /\ At(str, DECIMAL_U32(str, i).next, B)
<1>0. Unread.next = NULL
  BY DEF Unread
<1>1. /\ i # NULL /\ DECIMAL_U32(str, i) = decode_decimal(str, i)
      /\ ~ decode_decimal(str, i).value > UINT32_MAX
  BY <1>0 DEF DECIMAL_U32
<1>2. i \in Nat /\ i # 0 /\ i <= Len(str) + 1 /\ Len(str) \in Nat
  BY <1>1, LenProperties DEF Inside, NULL
<1>3. DigitChars \subseteq Char
  BY Values DEF DigitChars
<1>4. PICK run : run = Run(str, i, DigitChars)
  OBVIOUS
<1>5. run \in Seq(DigitChars) /\ run \in Seq(Char)
  BY <1>2, <1>3, <1>4, RunIs
<1>6. PICK B \in Seq(Char) : At(str, i, run \o B)
  BY <1>2, <1>3, <1>4, RunIs
<1> DEFINE n == NumD(run)
<1>7. Minimal(run) /\ decode_decimal(str, i) = [next |-> i + Len(run), value |-> n]
  BY <1>0, <1>1, <1>4, <1>5, DecodeDecimalIs
<1>8. n \in Nat
  BY <1>5, DigitNumbers
<1>9. n \in UInt32
  <2>1. ~ n > UINT32_MAX
    BY <1>1, <1>7
  <2> HIDE DEF n
  <2> QED BY <1>8, <2>1, UlongType, SMT DEF UInt32
<1>10. run = Decimal[n]
  BY <1>5, <1>7, MinimalIsDecimal
<1>11. At(str, i + Len(run), B)
  BY <1>2, <1>5, <1>6, AtPieces
<1>12. DECIMAL_U32(str, i).value = n /\ DECIMAL_U32(str, i).next = i + Len(run)
  BY <1>1, <1>7
<1>13. At(str, i, Decimal[n] \o B)
  BY <1>6, <1>10
<1>14. At(str, DECIMAL_U32(str, i).next, B)
  BY <1>11, <1>12
<1> HIDE DEF n
<1> QED BY <1>9, <1>12, <1>13, <1>14

LEMMA NumberFinds ==
  ASSUME NEW str \in Seq(Char), NEW i, NEW n \in UInt32, NEW B \in Seq(Char),
         Ends(B, DigitChars), At(str, i, Decimal[n] \o B)
  PROVE  DECIMAL_U32(str, i).value = n /\ At(str, DECIMAL_U32(str, i).next, B)
<1>0. n \in Nat /\ n <= UINT32_MAX /\ n <= ULONG_MAX
  BY UlongType, SMT DEF UInt32
<1>1. PICK run : run = Decimal[n]
  OBVIOUS
<1>2. /\ run \in Seq(DigitChars) /\ NumD(run) = n /\ Len(run) = passe_numlen[n]
      /\ run # <<>> /\ (run[1] = Digits[1] => n = 0)
  <2>1. WellSpelt(n, run)
    BY <1>0, <1>1, DecimalSpells
  <2>2. run # <<>>
    <3>1. Len(run) >= 1
      BY <2>1 DEF WellSpelt
    <3> QED BY <3>1, EmptySeq, SMT
  <2> QED BY <2>1, <2>2 DEF WellSpelt
<1>3. Minimal(run)
  <2>1. passe_numlen[0] = 1
    BY NumlenIs, RadixType, SMT
  <2> QED BY <1>2, <2>1 DEF Minimal
<1>4. DigitChars \subseteq Char
  BY Values DEF DigitChars
<1>5. i \in Nat /\ i # NULL
  BY DEF At, NULL
<1>6. Run(str, i, DigitChars) = run /\ At(str, i + Len(run), B)
  BY <1>1, <1>2, <1>4, <1>5, RunFinds
<1>7. decode_decimal(str, i) = [next |-> i + Len(run), value |-> n]
  BY <1>0, <1>2, <1>3, <1>6, DecodeDecimalIs
<1>8. DECIMAL_U32(str, i) = decode_decimal(str, i)
  <2>1. ~ n > UINT32_MAX
    BY <1>0, UlongType, SMT
  <2> QED BY <1>5, <1>7, <2>1 DEF DECIMAL_U32
<1> QED BY <1>6, <1>7, <1>8

(* BIN reads what SB writes, if the buffer has room for it. *)
LEMMA BytesFound ==
  ASSUME NEW str \in Seq(Char), NEW d \in Nat, NEW i, Inside(str, i), BIN(d, str, i).next # NULL
  PROVE  \E src \in Seq(Byte), B \in Seq(Char) :
           /\ BIN(d, str, i).data = src /\ Len(src) <= d /\ Len(src) \in UInt32
           /\ At(str, i, to_base64(src) \o B) /\ At(str, BIN(d, str, i).next, B)
<1>1. /\ i # NULL /\ BIN(d, str, i) = from_base64(d, str, i)
      /\ ~ Len(from_base64(d, str, i).data) > UINT32_MAX
  BY DEF BIN, NULL
<1>2. i \in Nat /\ i # 0 /\ i <= Len(str) + 1 /\ Len(str) \in Nat
  BY <1>1, LenProperties DEF Inside, NULL
<1>3. B64Chars \subseteq Char
  BY Values DEF B64Chars
<1>4. PICK run : run = Run(str, i, B64Chars)
  OBVIOUS
<1>5. run \in Seq(B64Chars) /\ run \in Seq(Char)
  BY <1>2, <1>3, <1>4, RunIs
<1>6. PICK B \in Seq(Char) : At(str, i, run \o B)
  BY <1>2, <1>3, <1>4, RunIs
<1>7. PICK e : e = DecodedChars(d, run)
  OBVIOUS
<1>8. from_base64(d, str, i) =
        IF Accepted(e) THEN [next |-> i + Len(run), data |-> e.dst]
        ELSE [next |-> NULL, data |-> <<>>]
  BY <1>4, <1>7 DEF from_base64, Accepted, B64Chars
<1>9. Accepted(e)
  BY <1>1, <1>8
<1>10. e.dst \in Seq(Byte) /\ Len(e.dst) <= d /\ run = to_base64(e.dst)
  BY <1>5, <1>7, <1>9, AcceptedOnlySpellings
<1>11. Len(e.dst) \in UInt32
  <2>1. Len(e.dst) \in Nat /\ ~ Len(e.dst) > UINT32_MAX
    BY <1>1, <1>8, <1>9, <1>10, LenProperties
  <2> QED BY <2>1, UlongType, SMT DEF UInt32
<1>12. At(str, i + Len(run), B)
  BY <1>2, <1>5, <1>6, AtPieces
<1>13. BIN(d, str, i).data = e.dst /\ BIN(d, str, i).next = i + Len(run)
  BY <1>1, <1>8, <1>9
<1>14. At(str, i, to_base64(e.dst) \o B) /\ At(str, BIN(d, str, i).next, B)
  BY <1>6, <1>10, <1>12, <1>13
<1> QED BY <1>10, <1>11, <1>13, <1>14

LEMMA BytesFinds ==
  ASSUME NEW str \in Seq(Char), NEW d \in Nat, NEW i, NEW src \in Seq(Byte), NEW B \in Seq(Char),
         Len(src) <= d, Len(src) \in UInt32, Ends(B, B64Chars), At(str, i, to_base64(src) \o B)
  PROVE  BIN(d, str, i).data = src /\ At(str, BIN(d, str, i).next, B)
<1>1. PICK run : run = to_base64(src)
  OBVIOUS
<1>2. run \in Seq(B64Chars)
  BY <1>1, ToBase64Length
<1>3. B64Chars \subseteq Char
  BY Values DEF B64Chars
<1>4. i \in Nat /\ i # NULL
  BY DEF At, NULL
<1>5. Run(str, i, B64Chars) = run /\ At(str, i + Len(run), B)
  BY <1>1, <1>2, <1>3, <1>4, RunFinds
<1>6. Accepted(DecodedChars(d, run)) /\ DecodedChars(d, run).dst = src
  BY <1>1, SpellingsAccepted
<1>7. from_base64(d, str, i) = [next |-> i + Len(run), data |-> src]
  BY <1>5, <1>6 DEF from_base64, Accepted, B64Chars
<1>8. ~ Len(src) > UINT32_MAX
  BY UlongType, SMT DEF UInt32
<1>9. BIN(d, str, i) = from_base64(d, str, i)
  BY <1>4, <1>7, <1>8 DEF BIN
<1> QED BY <1>5, <1>7, <1>9

(* A number behind what announces it, and bytes behind their "$". *)
ReadNumber(literal, str, i) == DECIMAL_U32(str, CC(literal, str, i))
ReadBytes(d, str, i) == BIN(d, str, CC(<<"$">>, str, i))

LEMMA ReadNumberFound ==
  ASSUME NEW str \in Seq(Char), NEW i \in Nat, NEW literal \in Seq(Char),
         ReadNumber(literal, str, i).next # NULL
  PROVE  \E n \in UInt32, B \in Seq(Char) :
           /\ ReadNumber(literal, str, i).value = n
           /\ At(str, i, literal \o (Decimal[n] \o B))
           /\ At(str, ReadNumber(literal, str, i).next, B)
<1>0. PICK j : j = CC(literal, str, i)
  OBVIOUS
<1>1. Inside(str, j) /\ Len(str) \in Nat
  BY <1>0, CCInside, LenProperties
<1>2. PICK r : r = DECIMAL_U32(str, j) /\ r = ReadNumber(literal, str, i)
  BY <1>0 DEF ReadNumber
<1>3. PICK n \in UInt32, B \in Seq(Char) :
        r.value = n /\ At(str, j, Decimal[n] \o B) /\ At(str, r.next, B)
  BY <1>1, <1>2, NumberFound
<1>4. j # NULL
  BY <1>1, <1>3, AtInside
<1>5. PICK C \in Seq(Char) : At(str, i, literal \o C) /\ At(str, j, C)
  BY <1>0, <1>4, CCFound
<1>6. C = Decimal[n] \o B
  BY <1>1, <1>3, <1>5, AtOne
<1> QED BY <1>2, <1>3, <1>5, <1>6

LEMMA ReadNumberFinds ==
  ASSUME NEW str \in Seq(Char), NEW i, NEW literal \in Seq(Char), NEW n \in UInt32,
         NEW B \in Seq(Char), Ends(B, DigitChars), At(str, i, literal \o (Decimal[n] \o B))
  PROVE  /\ ReadNumber(literal, str, i).value = n
         /\ At(str, ReadNumber(literal, str, i).next, B)
<1>1. Len(str) \in Nat /\ i \in Nat /\ n \in Nat
  BY LenProperties, UlongType, SMT DEF At, UInt32
<1>2. Decimal[n] \o B \in Seq(Char)
  BY <1>1, NumberStrings, Joined
<1>3. PICK C : C = Decimal[n] \o B
  OBVIOUS
<1>4. At(str, CC(literal, str, i), C)
  BY <1>1, <1>2, <1>3, CCFinds
<1> QED BY <1>3, <1>4, NumberFinds DEF ReadNumber

LEMMA ReadBytesFound ==
  ASSUME NEW str \in Seq(Char), NEW d \in Nat, NEW i \in Nat, ReadBytes(d, str, i).next # NULL
  PROVE  \E src \in Seq(Byte), B \in Seq(Char) :
           /\ ReadBytes(d, str, i).data = src /\ Len(src) <= d /\ Len(src) \in UInt32
           /\ At(str, i, <<"$">> \o (to_base64(src) \o B))
           /\ At(str, ReadBytes(d, str, i).next, B)
<1>0. PICK j : j = CC(<<"$">>, str, i)
  OBVIOUS
<1>1. Inside(str, j) /\ Len(str) \in Nat
  BY <1>0, CCInside, LenProperties, Literals
<1>2. PICK r : r = BIN(d, str, j) /\ r = ReadBytes(d, str, i)
  BY <1>0 DEF ReadBytes
<1>3. PICK src \in Seq(Byte), B \in Seq(Char) :
        /\ r.data = src /\ Len(src) <= d /\ Len(src) \in UInt32
        /\ At(str, j, to_base64(src) \o B) /\ At(str, r.next, B)
  BY <1>1, <1>2, BytesFound
<1>4. j # NULL
  BY <1>1, <1>3, AtInside
<1>5. PICK C \in Seq(Char) : At(str, i, <<"$">> \o C) /\ At(str, j, C)
  BY <1>0, <1>4, CCFound, Literals
<1>6. C = to_base64(src) \o B
  BY <1>1, <1>3, <1>5, AtOne
<1> QED BY <1>2, <1>3, <1>5, <1>6

LEMMA ReadBytesFinds ==
  ASSUME NEW str \in Seq(Char), NEW d \in Nat, NEW i, NEW src \in Seq(Byte), NEW B \in Seq(Char),
         Len(src) <= d, Len(src) \in UInt32, Ends(B, B64Chars),
         At(str, i, <<"$">> \o (to_base64(src) \o B))
  PROVE  ReadBytes(d, str, i).data = src /\ At(str, ReadBytes(d, str, i).next, B)
<1>1. Len(str) \in Nat /\ i \in Nat
  BY LenProperties DEF At
<1>2. to_base64(src) \o B \in Seq(Char)
  BY BytesStrings, Joined
<1>3. PICK C : C = to_base64(src) \o B
  OBVIOUS
<1>4. At(str, CC(<<"$">>, str, i), C)
  BY <1>1, <1>2, <1>3, CCFinds, Literals
<1> QED BY <1>3, <1>4, BytesFinds DEF ReadBytes

(* Buffers as long as the string are as good as any longer ones. *)
LEMMA SourceShort ==
  ASSUME NEW src \in Seq(Byte)
  PROVE  Len(src) <= Len(to_base64(src))
<1>1. PICK pad \in Nat :
        CharBits * Len(to_base64(src)) = ByteBits * Len(src) + pad
  BY ToBase64Spells DEF Spells
<1> DEFINE L == Len(to_base64(src))
           K == Len(src)
           x == CharBits * K
           y == CharBits * L
           z == ByteBits * K
<1>2. L \in Nat /\ K \in Nat
  BY BytesStrings, LenProperties
<1>3. CharBits \in Nat /\ ByteBits \in Nat /\ CharBits >= 1 /\ CharBits <= ByteBits
  <2>1. CharBits < ByteBits
    BY BitSizes
  <2> QED BY <2>1, BitSizes, SMT
<1>4. x <= z /\ y = z + pad
  BY <1>1, <1>2, <1>3, MultMonotone
<1>5. SUFFICES ASSUME ~ K <= L PROVE FALSE
  OBVIOUS
<1>6. CharBits * (L + 1) = y + CharBits
  <2> HIDE DEF L
  <2> QED BY <1>2, <1>3, SMT DEF y
<1>7. CharBits * (L + 1) <= x
  <2>1. L + 1 \in Nat /\ L + 1 <= K
    <3> HIDE DEF L, K
    <3> QED BY <1>2, <1>5, SMT
  <2>2. (L + 1) * CharBits <= K * CharBits
    <3> HIDE DEF L, K
    <3> QED BY <1>2, <1>3, <2>1, MultMonotone
  <2>3. (L + 1) * CharBits = CharBits * (L + 1) /\ K * CharBits = x
    <3> HIDE DEF L, K
    <3> QED BY <1>2, <1>3, SMT DEF x
  <2> QED BY <2>2, <2>3
<1>8. x \in Nat /\ y \in Nat /\ z \in Nat
  <2> HIDE DEF L, K
  <2> QED BY <1>2, <1>3, SMT DEF x, y, z
<1>9. y + CharBits <= x
  BY <1>6, <1>7
<1> HIDE DEF x, y, z
<1> QED BY <1>3, <1>4, <1>8, <1>9, SMT

LEMMA RoomToSpare ==
  ASSUME NEW str \in Seq(Char), NEW d \in Nat, NEW e \in Nat, Len(str) <= d, Len(str) <= e,
         NEW i \in Nat
  PROVE  ReadBytes(d, str, i).next # NULL => ReadBytes(e, str, i) = ReadBytes(d, str, i)
<1> SUFFICES ASSUME ReadBytes(d, str, i).next # NULL
             PROVE  ReadBytes(e, str, i) = ReadBytes(d, str, i)
  OBVIOUS
<1>0. PICK j : j = CC(<<"$">>, str, i)
  OBVIOUS
<1>1. Inside(str, j) /\ Len(str) \in Nat
  BY <1>0, CCInside, LenProperties, Literals
<1>2. BIN(d, str, j).next # NULL
  BY <1>0 DEF ReadBytes
<1>3. /\ j # NULL /\ BIN(d, str, j) = from_base64(d, str, j)
      /\ ~ Len(from_base64(d, str, j).data) > UINT32_MAX
  BY <1>2 DEF BIN, NULL
<1>4. j \in Nat /\ j # 0 /\ j <= Len(str) + 1
  BY <1>1, <1>3 DEF Inside, NULL
<1>5. PICK run : run = Run(str, j, B64Chars)
  OBVIOUS
<1>6. B64Chars \subseteq Char
  BY Values DEF B64Chars
<1>7. run \in Seq(B64Chars) /\ run \in Seq(Char)
  BY <1>1, <1>4, <1>5, <1>6, RunIs
<1>8. PICK B \in Seq(Char) : At(str, j, run \o B)
  BY <1>1, <1>4, <1>5, <1>6, RunIs
<1>9. Accepted(DecodedChars(d, run))
  BY <1>2, <1>3, <1>5 DEF from_base64, Accepted, B64Chars
<1>10. PICK src : src = DecodedChars(d, run).dst
  OBVIOUS
<1>11. src \in Seq(Byte) /\ run = to_base64(src)
  BY <1>7, <1>9, <1>10, AcceptedOnlySpellings
<1>12. Len(src) <= e
  <2>1. Len(src) <= Len(run) /\ Len(src) \in Nat /\ Len(run) \in Nat
    BY <1>7, <1>11, SourceShort, LenProperties
  <2>2. Len(run \o B) <= Len(str) /\ Len(run \o B) = Len(run) + Len(B) /\ Len(B) \in Nat
    BY <1>1, <1>7, <1>8, AtEnd, Joined
  <2> QED BY <1>1, <2>1, <2>2, SMT
<1>13. Accepted(DecodedChars(e, run)) /\ DecodedChars(e, run).dst = src
  BY <1>11, <1>12, SpellingsAccepted
<1>14. from_base64(e, str, j) = from_base64(d, str, j)
  BY <1>5, <1>9, <1>10, <1>13 DEF from_base64, Accepted, B64Chars
<1>15. BIN(e, str, j) = BIN(d, str, j)
  BY <1>3, <1>14 DEF BIN
<1> QED BY <1>0, <1>15 DEF ReadBytes

(* The version may be missing. *)
LEMMA VersionFieldIs ==
  ASSUME NEW str \in Seq(Char), NEW i \in Nat
  PROVE  VersionField(str, i) =
           IF CC(Literal.version, str, i) # NULL THEN ReadNumber(Literal.version, str, i)
           ELSE [next |-> i, value |-> ARGON2_VERSION_10]
<1> DEFINE l == Literal.version
<1>1. i + Len(l) # NULL
  <2>1. Len(l) = 3
    BY Literals
  <2> HIDE DEF l
  <2> QED BY <2>1, SMT DEF NULL
<1>2. VersionField(str, i) =
        IF i # NULL /\ StartsWith(l, str, i) THEN DECIMAL_U32(str, i + Len(l))
        ELSE [next |-> i, value |-> ARGON2_VERSION_10]
  BY DEF VersionField
<1> HIDE DEF l
<1>3. CASE i # NULL /\ StartsWith(l, str, i)
  <2>1. CC(l, str, i) = i + Len(l)
    BY <1>3 DEF CC
  <2> QED BY <1>1, <1>2, <1>3, <2>1 DEF ReadNumber, l
<1>4. CASE ~ (i # NULL /\ StartsWith(l, str, i))
  <2>1. CC(l, str, i) = NULL
    BY <1>4 DEF CC
  <2> QED BY <1>2, <1>4, <2>1 DEF l
<1> QED BY <1>3, <1>4

LEMMA VersionFound ==
  ASSUME NEW str \in Seq(Char), NEW i \in Nat, VersionField(str, i).next # NULL
  PROVE  \/ VersionField(str, i).next = i /\ VersionField(str, i).value = ARGON2_VERSION_10
         \/ \E n \in UInt32, B \in Seq(Char) :
              /\ VersionField(str, i).value = n
              /\ At(str, i, Literal.version \o (Decimal[n] \o B))
              /\ At(str, VersionField(str, i).next, B)
<1>1. CASE CC(Literal.version, str, i) # NULL
  <2>1. PICK r : r = VersionField(str, i)
    OBVIOUS
  <2>2. r = ReadNumber(Literal.version, str, i)
    BY <1>1, <2>1, VersionFieldIs
  <2>3. Literal.version \in Seq(Char)
    BY Literals
  <2>4. PICK n \in UInt32, B \in Seq(Char) :
          r.value = n /\ At(str, i, Literal.version \o (Decimal[n] \o B)) /\ At(str, r.next, B)
    BY <2>1, <2>2, <2>3, ReadNumberFound
  <2> QED BY <2>1, <2>4
<1>2. CASE CC(Literal.version, str, i) = NULL
  BY <1>2, VersionFieldIs
<1> QED BY <1>1, <1>2

LEMMA VersionFinds ==
  ASSUME NEW str \in Seq(Char), NEW i, NEW n \in UInt32, NEW B \in Seq(Char),
         Ends(B, DigitChars), At(str, i, Literal.version \o (Decimal[n] \o B))
  PROVE  VersionField(str, i).value = n /\ At(str, VersionField(str, i).next, B)
<1>1. i \in Nat /\ Len(str) \in Nat /\ n \in Nat
  BY LenProperties, UlongType, SMT DEF At, UInt32
<1>2. Literal.version \in Seq(Char) /\ Decimal[n] \o B \in Seq(Char)
  BY <1>1, Literals, NumberStrings, Joined
<1>3. PICK C : C = Decimal[n] \o B
  OBVIOUS
<1>4. At(str, CC(Literal.version, str, i), C)
  BY <1>1, <1>2, <1>3, CCFinds
<1>5. CC(Literal.version, str, i) # NULL
  BY <1>1, <1>4, AtInside
<1>6. VersionField(str, i) = ReadNumber(Literal.version, str, i)
  BY <1>1, <1>5, VersionFieldIs
<1> QED BY <1>2, <1>6, ReadNumberFinds

(* "$m=" is not "$v=". *)
LEMMA VersionSkips ==
  ASSUME NEW str \in Seq(Char), NEW i, NEW B \in Seq(Char), At(str, i, Literal.memory \o B)
  PROVE  VersionField(str, i).next = i /\ VersionField(str, i).value = ARGON2_VERSION_10
<1>1. i \in Nat /\ i # 0 /\ Len(str) \in Nat
  BY LenProperties DEF At
<1>2. /\ Literal.memory \in Seq(Char) /\ Literal.version \in Seq(Char)
      /\ Len(Literal.memory) = 3 /\ Len(Literal.version) = 3
  BY Literals
<1>3. Stands(str, i, Literal.memory)
  BY <1>1, <1>2, AtPieces
<1>4. SUFFICES ASSUME CC(Literal.version, str, i) # NULL PROVE FALSE
  BY <1>1, VersionFieldIs
<1>5. Stands(str, i, Literal.version)
  <2>1. PICK C \in Seq(Char) : At(str, i, Literal.version \o C)
    BY <1>1, <1>2, <1>4, CCFound
  <2> QED BY <1>1, <1>2, <2>1, AtPieces
<1>6. Literal.version[2] = "v" /\ Literal.memory[2] = "m"
  BY DEF Literal
<1>7. 2 \in 1 .. 3
  BY SMT
<1>8. Literal.version[2] = Literal.memory[2]
  BY <1>2, <1>3, <1>5, <1>7 DEF Stands
<1> QED BY <1>6, <1>8

(***************************************************************************)
(* passe_decode_string, field by field.                                      *)
(***************************************************************************)
TypeEnd(str, type) == CC(Prefix(type), str, 1)
VersionOf(str, type) == VersionField(str, TypeEnd(str, type))
MemoryOf(str, type) == ReadNumber(Literal.memory, str, VersionOf(str, type).next)
TimeOf(str, type) == ReadNumber(Literal.time, str, MemoryOf(str, type).next)
LanesOf(str, type) == ReadNumber(Literal.lanes, str, TimeOf(str, type).next)
SaltOf(d, str, type) == ReadBytes(d, str, LanesOf(str, type).next)
OutOf(d, str, type) == ReadBytes(d, str, SaltOf(d, str, type).next)

ContextOf(d, str, type) ==
  [version |-> VersionOf(str, type).value, m_cost |-> MemoryOf(str, type).value,
   t_cost |-> TimeOf(str, type).value, lanes |-> LanesOf(str, type).value,
   threads |-> LanesOf(str, type).value,
   salt |-> SaltOf(d, str, type).data, saltlen |-> Len(SaltOf(d, str, type).data),
   out |-> OutOf(d, str, type).data, outlen |-> Len(OutOf(d, str, type).data)]

DecodedFrom(str, end, ctx) ==
  IF end = NULL THEN Failed("ARGON2_DECODING_FAIL")
  ELSE IF ValidateInputs(ctx) # OK THEN Failed(ValidateInputs(ctx))
  ELSE IF end # Len(str) + 1 THEN Failed("ARGON2_DECODING_FAIL")
  ELSE [ret |-> OK, ctx |-> ctx]

LEMMA DecodeIs ==
  ASSUME NEW d, NEW str, NEW type
  PROVE  passe_decode_string(d, d, str, type)
           = DecodedFrom(str, OutOf(d, str, type).next, ContextOf(d, str, type))
BY DEF passe_decode_string, DecodedFrom, TypeEnd, VersionOf, MemoryOf, TimeOf, LanesOf, SaltOf,
       OutOf, ContextOf, ReadNumber, ReadBytes, Prefix

LEMMA NextIndex ==
  ASSUME NEW str \in Seq(Char), NEW i \in Nat
  PROVE  /\ VersionField(str, i).next \in Nat
         /\ \A l \in Seq(Char) : ReadNumber(l, str, i).next \in Nat
         /\ \A d \in Nat : ReadBytes(d, str, i).next \in Nat
<1>0. Len(str) \in Nat /\ NULL \in Nat
  BY LenProperties DEF NULL
<1>1. \A B : \A j : At(str, j, B) => j \in Nat
  BY DEF At
<1>2. ASSUME NEW l \in Seq(Char) PROVE ReadNumber(l, str, i).next \in Nat
  <2>1. CASE ReadNumber(l, str, i).next = NULL
    BY <1>0, <2>1
  <2>2. CASE ReadNumber(l, str, i).next # NULL
    <3>1. PICK B \in Seq(Char) : At(str, ReadNumber(l, str, i).next, B)
      BY <2>2, ReadNumberFound
    <3> QED BY <1>1, <3>1
  <2> QED BY <2>1, <2>2
<1>3. ASSUME NEW d \in Nat PROVE ReadBytes(d, str, i).next \in Nat
  <2>1. CASE ReadBytes(d, str, i).next = NULL
    BY <1>0, <2>1
  <2>2. CASE ReadBytes(d, str, i).next # NULL
    <3>1. PICK B \in Seq(Char) : At(str, ReadBytes(d, str, i).next, B)
      BY <2>2, ReadBytesFound
    <3> QED BY <1>1, <3>1
  <2> QED BY <2>1, <2>2
<1>4. VersionField(str, i).next \in Nat
  <2>1. Literal.version \in Seq(Char)
    BY Literals
  <2> QED BY <1>2, <2>1, VersionFieldIs
<1> QED BY <1>2, <1>3, <1>4

LEMMA FieldIndices ==
  ASSUME NEW str \in Seq(Char), NEW type \in Types, NEW d \in Nat
  PROVE  /\ TypeEnd(str, type) \in Nat /\ VersionOf(str, type).next \in Nat
         /\ MemoryOf(str, type).next \in Nat /\ TimeOf(str, type).next \in Nat
         /\ LanesOf(str, type).next \in Nat /\ SaltOf(d, str, type).next \in Nat
         /\ OutOf(d, str, type).next \in Nat
<1>1. /\ Literal.memory \in Seq(Char) /\ Literal.time \in Seq(Char)
      /\ Literal.lanes \in Seq(Char) /\ Prefix(type) \in Seq(Char)
  BY Literals, Joined DEF Prefix
<1>2. TypeEnd(str, type) \in Nat
  BY <1>1, CCType DEF TypeEnd
<1>3. VersionOf(str, type).next \in Nat
  BY <1>2, NextIndex DEF VersionOf
<1>4. MemoryOf(str, type).next \in Nat
  BY <1>1, <1>3, NextIndex DEF MemoryOf
<1>5. TimeOf(str, type).next \in Nat
  BY <1>1, <1>4, NextIndex DEF TimeOf
<1>6. LanesOf(str, type).next \in Nat
  BY <1>1, <1>5, NextIndex DEF LanesOf
<1>7. SaltOf(d, str, type).next \in Nat
  BY <1>6, NextIndex DEF SaltOf
<1>8. OutOf(d, str, type).next \in Nat
  BY <1>7, NextIndex DEF OutOf
<1> QED BY <1>2, <1>3, <1>4, <1>5, <1>6, <1>7, <1>8

(* The contexts that buffers of length d have room for, and the strings that stand
   for a context: its spelling, and the one without a version if that is 0x10. *)
Readable(d) ==
  {ctx \in [version : UInt32, m_cost : UInt32, t_cost : UInt32, lanes : UInt32,
            threads : UInt32, salt : Seq(Byte), saltlen : UInt32, out : Seq(Byte),
            outlen : UInt32] :
     /\ ctx.threads = ctx.lanes
     /\ ctx.saltlen = Len(ctx.salt) /\ ctx.outlen = Len(ctx.out)
     /\ ctx.saltlen <= d /\ ctx.outlen <= d}

Denotes(str, ctx, type) ==
  \/ str = Spelling(ctx, type)
  \/ ctx.version = ARGON2_VERSION_10 /\ str = Prefix(type) \o Costs(ctx)

LEMMA UInt32Type == \A n \in UInt32 : n \in Nat
BY UlongType, SMT DEF UInt32

LEMMA ReadableContext ==
  ASSUME NEW d, NEW ctx \in Readable(d)
  PROVE  /\ ctx \in Spellable
         /\ ctx.version \in UInt32 /\ ctx.m_cost \in UInt32 /\ ctx.t_cost \in UInt32
         /\ ctx.lanes \in UInt32 /\ ctx.threads = ctx.lanes
         /\ ctx.salt \in Seq(Byte) /\ ctx.out \in Seq(Byte)
         /\ ctx.saltlen = Len(ctx.salt) /\ ctx.outlen = Len(ctx.out)
         /\ ctx.saltlen \in UInt32 /\ ctx.outlen \in UInt32
         /\ ctx.saltlen <= d /\ ctx.outlen <= d
         /\ ctx = [version |-> ctx.version, m_cost |-> ctx.m_cost, t_cost |-> ctx.t_cost,
                   lanes |-> ctx.lanes, threads |-> ctx.lanes, salt |-> ctx.salt,
                   saltlen |-> Len(ctx.salt), out |-> ctx.out, outlen |-> Len(ctx.out)]
<1>1. ctx \in Spellable
  BY UInt32Type DEF Readable, Spellable
<1> QED BY <1>1 DEF Readable

(* What is read to the end of the string has been spelt by it. *)
LEMMA DecodesOnlySpellings ==
  ASSUME NEW str \in Seq(Char), NEW type \in Types, NEW d \in Nat,
         OutOf(d, str, type).next = Len(str) + 1
  PROVE  /\ ContextOf(d, str, type) \in Readable(d)
         /\ Denotes(str, ContextOf(d, str, type), type)
<1> DEFINE T == TypeEnd(str, type)
           V == VersionOf(str, type)
           M == MemoryOf(str, type)
           I == TimeOf(str, type)
           P == LanesOf(str, type)
           S == SaltOf(d, str, type)
           O == OutOf(d, str, type)
           ctx == ContextOf(d, str, type)
<1>0. Len(str) \in Nat /\ O.next # NULL
  <2>1. Len(str) \in Nat
    BY LenProperties
  <2>2. O.next # 0
    <3> HIDE DEF O
    <3>1. O.next = Len(str) + 1
      BY DEF O
    <3> QED BY <2>1, <3>1, SMT
  <2> QED BY <2>1, <2>2 DEF NULL
<1>1. /\ Literal.memory \in Seq(Char) /\ Literal.time \in Seq(Char) /\ Literal.lanes \in Seq(Char)
      /\ Prefix(type) \in Seq(Char)
  BY Literals, Joined DEF Prefix
<1>2. /\ T \in Nat /\ V.next \in Nat /\ M.next \in Nat /\ I.next \in Nat /\ P.next \in Nat
      /\ S.next \in Nat
  BY FieldIndices
<1>3. PICK out \in Seq(Byte), B6 \in Seq(Char) :
        /\ O.data = out /\ Len(out) <= d /\ Len(out) \in UInt32
        /\ At(str, S.next, <<"$">> \o (to_base64(out) \o B6)) /\ At(str, O.next, B6)
  BY <1>0, <1>2, ReadBytesFound DEF OutOf
<1>4. B6 = <<>>
  BY <1>0, <1>3, AtEnd
<1>5. S.next # NULL
  BY <1>0, <1>3, AtInside
<1>6. PICK salt \in Seq(Byte), B5 \in Seq(Char) :
        /\ S.data = salt /\ Len(salt) <= d /\ Len(salt) \in UInt32
        /\ At(str, P.next, <<"$">> \o (to_base64(salt) \o B5)) /\ At(str, S.next, B5)
  BY <1>2, <1>5, ReadBytesFound DEF SaltOf
<1>7. P.next # NULL
  BY <1>0, <1>6, AtInside
<1>8. PICK lanes \in UInt32, B4 \in Seq(Char) :
        /\ P.value = lanes
        /\ At(str, I.next, Literal.lanes \o (Decimal[lanes] \o B4)) /\ At(str, P.next, B4)
  BY <1>1, <1>2, <1>7, ReadNumberFound DEF LanesOf
<1>9. I.next # NULL
  BY <1>0, <1>8, AtInside
<1>10. PICK t_cost \in UInt32, B3 \in Seq(Char) :
        /\ I.value = t_cost
        /\ At(str, M.next, Literal.time \o (Decimal[t_cost] \o B3)) /\ At(str, I.next, B3)
  BY <1>1, <1>2, <1>9, ReadNumberFound DEF TimeOf
<1>11. M.next # NULL
  BY <1>0, <1>10, AtInside
<1>12. PICK m_cost \in UInt32, B2 \in Seq(Char) :
        /\ M.value = m_cost
        /\ At(str, V.next, Literal.memory \o (Decimal[m_cost] \o B2)) /\ At(str, M.next, B2)
  BY <1>1, <1>2, <1>11, ReadNumberFound DEF MemoryOf
<1>13. V.next # NULL
  BY <1>0, <1>12, AtInside
<1>14. \/ V.next = T /\ V.value = ARGON2_VERSION_10
       \/ \E n \in UInt32, B \in Seq(Char) :
            /\ V.value = n
            /\ At(str, T, Literal.version \o (Decimal[n] \o B)) /\ At(str, V.next, B)
  <2>1. V = VersionField(str, T)
    BY DEF VersionOf
  <2> HIDE DEF V, T
  <2> QED BY <1>2, <1>13, <2>1, VersionFound
<1>15. V.value \in UInt32
  <2>1. ARGON2_VERSION_10 \in UInt32
    BY ContextAssumption, SMT DEF ARGON2_VERSION_10, ARGON2_VERSION_NUMBER, UInt32, UINT32_MAX
  <2> QED BY <1>14, <2>1
<1>16. T # NULL
  <2> HIDE DEF T, V
  <2> QED BY <1>0, <1>13, <1>14, AtInside
<1>17. PICK B0 \in Seq(Char) : At(str, 1, Prefix(type) \o B0) /\ At(str, T, B0)
  <2>1. 1 \in Nat
    BY SMT
  <2> QED BY <1>1, <1>16, <2>1, CCFound DEF TypeEnd
<1>18. str = Prefix(type) \o B0
  BY <1>0, <1>17, AtStart, AtOne
<1>19. /\ ctx.version = V.value /\ ctx.m_cost = m_cost /\ ctx.t_cost = t_cost /\ ctx.lanes = lanes
       /\ ctx.salt = salt /\ ctx.out = out
  BY <1>3, <1>6, <1>8, <1>10, <1>12 DEF ContextOf
<1>20. ctx \in Readable(d)
  <2> DEFINE v == V.value
  <2>1. ctx = [version |-> v, m_cost |-> m_cost, t_cost |-> t_cost, lanes |-> lanes,
               threads |-> lanes, salt |-> salt, saltlen |-> Len(salt), out |-> out,
               outlen |-> Len(out)]
    BY <1>3, <1>6, <1>8, <1>10, <1>12 DEF ContextOf
  <2>2. v \in UInt32
    BY <1>15
  <2> HIDE DEF v, ctx
  <2> QED BY <1>3, <1>6, <2>1, <2>2 DEF Readable
<1>21. At(str, V.next, Costs(ctx))
  <2>1. B5 = <<"$">> \o to_base64(out)
    <3>1. B5 = <<"$">> \o (to_base64(out) \o B6)
      BY <1>0, <1>3, <1>6, AtOne
    <3>2. to_base64(out) \o <<>> = to_base64(out)
      BY BytesStrings, ConcatEmptySeq
    <3> QED BY <1>4, <3>1, <3>2
  <2>2. B4 = Hashed(ctx)
    <3>1. B4 = <<"$">> \o (to_base64(salt) \o B5)
      BY <1>0, <1>6, <1>8, AtOne
    <3> QED BY <1>19, <2>1, <3>1 DEF Hashed
  <2>3. B3 = Literal.lanes \o (Decimal[lanes] \o B4)
    BY <1>0, <1>8, <1>10, AtOne
  <2>4. B2 = Literal.time \o (Decimal[t_cost] \o B3)
    BY <1>0, <1>10, <1>12, AtOne
  <2> HIDE DEF ctx, V
  <2> QED BY <1>12, <1>19, <2>2, <2>3, <2>4 DEF Costs
<1>22. CASE V.next = T /\ V.value = ARGON2_VERSION_10
  <2>1. B0 = Costs(ctx)
    <3> HIDE DEF ctx, V, T
    <3> QED BY <1>0, <1>17, <1>21, <1>22, AtOne
  <2> HIDE DEF ctx
  <2> QED BY <1>18, <1>19, <1>20, <1>22, <2>1 DEF Denotes, ctx
<1>23. CASE \E n \in UInt32, B \in Seq(Char) :
            /\ V.value = n
            /\ At(str, T, Literal.version \o (Decimal[n] \o B)) /\ At(str, V.next, B)
  <2>1. PICK n \in UInt32, B \in Seq(Char) :
            /\ V.value = n
            /\ At(str, T, Literal.version \o (Decimal[n] \o B)) /\ At(str, V.next, B)
    BY <1>23
  <2>2. B = Costs(ctx) /\ B0 = Literal.version \o (Decimal[n] \o B)
    <3> HIDE DEF ctx, V, T
    <3> QED BY <1>0, <1>17, <1>21, <2>1, AtOne
  <2>3. B0 = VersionPart(ctx) \o B
    <3>1. n \in Nat
      BY UInt32Type
    <3>2. Literal.version \in Seq(Char) /\ Decimal[n] \in Seq(Char)
      BY <3>1, Literals, NumberStrings
    <3>3. Associative(Literal.version, Decimal[n], B)
      BY <3>2, Rejoined
    <3>4. VersionPart(ctx) = Literal.version \o Decimal[n]
      BY <1>19, <2>1 DEF VersionPart
    <3> HIDE DEF ctx
    <3> QED BY <2>2, <3>3, <3>4 DEF Associative
  <2>4. str = Spelling(ctx, type)
    <3> HIDE DEF ctx
    <3> QED BY <1>18, <2>2, <2>3 DEF Spelling
  <2> HIDE DEF ctx
  <2> QED BY <1>20, <2>4 DEF Denotes, ctx
<1> QED BY <1>14, <1>22, <1>23

(* The characters "$" and "," end numbers and bytes. *)
LEMMA FieldsEnd ==
  /\ \A l \in {<<"$">>, Literal.memory, Literal.time, Literal.lanes} :
       \A B \in Seq(Char) : Ends(l \o B, DigitChars)
  /\ \A B \in Seq(Char) : Ends(<<"$">> \o B, B64Chars)
  /\ Ends(<<>>, B64Chars)
<1>1. ASSUME NEW l \in Seq(Char), Len(l) >= 1, NEW B \in Seq(Char)
      PROVE  (l \o B)[1] = l[1]
  <2>1. Len(l) \in Nat /\ Len(B) \in Nat
    BY LenProperties
  <2>2. 1 \in 1 .. Len(l) + Len(B) /\ 1 <= Len(l)
    BY <1>1, <2>1, SMT
  <2>3. \A k \in 1 .. Len(l) + Len(B) : (l \o B)[k] = IF k <= Len(l) THEN l[k] ELSE B[k - Len(l)]
    BY ConcatProperties
  <2> QED BY <2>2, <2>3
<1>2. /\ <<"$">> \in Seq(Char) /\ Len(<<"$">>) >= 1 /\ <<"$">>[1] = "$"
      /\ Literal.memory \in Seq(Char) /\ Len(Literal.memory) >= 1 /\ Literal.memory[1] = "$"
      /\ Literal.time \in Seq(Char) /\ Len(Literal.time) >= 1 /\ Literal.time[1] = ","
      /\ Literal.lanes \in Seq(Char) /\ Len(Literal.lanes) >= 1 /\ Literal.lanes[1] = ","
  <2>1. /\ <<"$">>[1] = "$" /\ Literal.memory[1] = "$" /\ Literal.time[1] = ","
        /\ Literal.lanes[1] = ","
    BY DEF Literal
  <2>2. /\ <<"$">> \in Seq(Char) /\ Len(<<"$">>) = 1
        /\ Literal.memory \in Seq(Char) /\ Len(Literal.memory) = 3
        /\ Literal.time \in Seq(Char) /\ Len(Literal.time) = 3
        /\ Literal.lanes \in Seq(Char) /\ Len(Literal.lanes) = 3
    BY Literals
  <2>3. 1 >= 1 /\ 3 >= 1
    BY SMT
  <2> QED BY <2>1, <2>2, <2>3
<1>3. "$" \notin B64Chars /\ "$" \notin DigitChars /\ "," \notin DigitChars
  BY CodecAssumption DEF B64Chars, DigitChars
<1>4. ASSUME NEW B \in Seq(Char)
      PROVE  /\ Ends(<<"$">> \o B, DigitChars) /\ Ends(<<"$">> \o B, B64Chars)
             /\ Ends(Literal.memory \o B, DigitChars) /\ Ends(Literal.time \o B, DigitChars)
             /\ Ends(Literal.lanes \o B, DigitChars)
  <2>1. /\ (<<"$">> \o B)[1] = "$" /\ (Literal.memory \o B)[1] = "$"
        /\ (Literal.time \o B)[1] = "," /\ (Literal.lanes \o B)[1] = ","
    BY <1>1, <1>2
  <2> QED BY <1>3, <2>1 DEF Ends
<1> QED BY <1>4 DEF Ends

(* What is still to be read in front of each field. *)
LEMMA DecodesCosts ==
  ASSUME NEW str \in Seq(Char), NEW type \in Types, NEW d \in Nat, NEW ctx \in Readable(d),
         At(str, VersionOf(str, type).next, Costs(ctx))
  PROVE  /\ MemoryOf(str, type).value = ctx.m_cost
         /\ TimeOf(str, type).value = ctx.t_cost
         /\ LanesOf(str, type).value = ctx.lanes
         /\ SaltOf(d, str, type).data = ctx.salt
         /\ OutOf(d, str, type).data = ctx.out
         /\ OutOf(d, str, type).next = Len(str) + 1
<1>0. /\ ctx.m_cost \in UInt32 /\ ctx.t_cost \in UInt32 /\ ctx.lanes \in UInt32
      /\ ctx.salt \in Seq(Byte) /\ ctx.out \in Seq(Byte)
      /\ Len(ctx.salt) <= d /\ Len(ctx.salt) \in UInt32
      /\ Len(ctx.out) <= d /\ Len(ctx.out) \in UInt32
  BY ReadableContext
<1>1. PICK m \in UInt32 : m = ctx.m_cost
  BY <1>0
<1>2. PICK t \in UInt32 : t = ctx.t_cost
  BY <1>0
<1>3. PICK p \in UInt32 : p = ctx.lanes
  BY <1>0
<1>4. PICK salt \in Seq(Byte) : salt = ctx.salt
  BY <1>0
<1>5. PICK out \in Seq(Byte) : out = ctx.out
  BY <1>0
<1>6. PICK B5 : B5 = <<"$">> \o to_base64(out)
  OBVIOUS
<1>7. PICK B4 : B4 = <<"$">> \o (to_base64(salt) \o B5)
  OBVIOUS
<1>8. PICK B3 : B3 = Literal.lanes \o (Decimal[p] \o B4)
  OBVIOUS
<1>9. PICK B2 : B2 = Literal.time \o (Decimal[t] \o B3)
  OBVIOUS
<1>10. Costs(ctx) = Literal.memory \o (Decimal[m] \o B2)
  BY <1>1, <1>2, <1>3, <1>4, <1>5, <1>6, <1>7, <1>8, <1>9 DEF Costs, Hashed
<1>11. /\ Literal.memory \in Seq(Char) /\ Literal.time \in Seq(Char) /\ Literal.lanes \in Seq(Char)
       /\ <<"$">> \in Seq(Char) /\ to_base64(salt) \in Seq(Char) /\ to_base64(out) \in Seq(Char)
       /\ Decimal[m] \in Seq(Char) /\ Decimal[t] \in Seq(Char) /\ Decimal[p] \in Seq(Char)
  BY UInt32Type, Literals, BytesStrings, NumberStrings
<1>12. B5 \in Seq(Char)
  BY <1>6, <1>11, Joined
<1>13. B4 \in Seq(Char)
  BY <1>7, <1>11, <1>12, Joined
<1>14. Decimal[p] \o B4 \in Seq(Char) /\ B3 \in Seq(Char)
  BY <1>8, <1>11, <1>13, Joined
<1>15. Decimal[t] \o B3 \in Seq(Char) /\ B2 \in Seq(Char)
  BY <1>9, <1>11, <1>14, Joined
<1>16. to_base64(salt) \o B5 \in Seq(Char)
  BY <1>11, <1>12, Joined
<1>17. /\ Ends(B2, DigitChars) /\ Ends(B3, DigitChars) /\ Ends(B4, DigitChars)
       /\ Ends(B5, B64Chars) /\ Ends(<<>>, B64Chars)
  BY <1>6, <1>7, <1>8, <1>9, <1>11, <1>14, <1>15, <1>16, FieldsEnd
<1>18. MemoryOf(str, type).value = m /\ At(str, MemoryOf(str, type).next, B2)
  BY <1>10, <1>11, <1>15, <1>17, ReadNumberFinds DEF MemoryOf
<1>19. TimeOf(str, type).value = t /\ At(str, TimeOf(str, type).next, B3)
  BY <1>9, <1>11, <1>14, <1>17, <1>18, ReadNumberFinds DEF TimeOf
<1>20. LanesOf(str, type).value = p /\ At(str, LanesOf(str, type).next, B4)
  BY <1>8, <1>11, <1>13, <1>17, <1>19, ReadNumberFinds DEF LanesOf
<1>21. SaltOf(d, str, type).data = salt /\ At(str, SaltOf(d, str, type).next, B5)
  BY <1>0, <1>4, <1>7, <1>12, <1>17, <1>20, ReadBytesFinds DEF SaltOf
<1>22. PICK E \in Seq(Char) : E = <<>>
  BY EmptySeq
<1>23. OutOf(d, str, type).data = out /\ At(str, OutOf(d, str, type).next, E)
  <2>1. At(str, SaltOf(d, str, type).next, <<"$">> \o (to_base64(out) \o E))
    BY <1>6, <1>11, <1>21, <1>22, ConcatEmptySeq
  <2>2. Ends(E, B64Chars)
    BY <1>17, <1>22
  <2>3. Len(out) <= d /\ Len(out) \in UInt32
    BY <1>0, <1>5
  <2> QED BY <2>1, <2>2, <2>3, ReadBytesFinds DEF OutOf
<1>24. OutOf(d, str, type).next = Len(str) + 1
  BY <1>22, <1>23, AtEnd, LenProperties
<1> QED BY <1>1, <1>2, <1>3, <1>4, <1>5, <1>18, <1>19, <1>20, <1>21, <1>23, <1>24

LEMMA CostsBegin ==
  ASSUME NEW ctx \in Spellable
  PROVE  \E C \in Seq(Char) : Costs(ctx) = Literal.memory \o C
<1> DEFINE C == Decimal[ctx.m_cost] \o (Literal.time \o (Decimal[ctx.t_cost] \o
                 (Literal.lanes \o (Decimal[ctx.lanes] \o Hashed(ctx)))))
<1>1. Costs(ctx) = Literal.memory \o C
  BY DEF Costs
<1>2. C \in Seq(Char)
  <2>1. /\ ctx.m_cost \in Nat /\ ctx.t_cost \in Nat /\ ctx.lanes \in Nat
    BY DEF Spellable
  <2>2. /\ Decimal[ctx.m_cost] \in Seq(Char) /\ Decimal[ctx.t_cost] \in Seq(Char)
        /\ Decimal[ctx.lanes] \in Seq(Char) /\ Hashed(ctx) \in Seq(Char)
        /\ Literal.time \in Seq(Char) /\ Literal.lanes \in Seq(Char)
    BY <2>1, NumberStrings, HashedParts, Literals
  <2>3. Decimal[ctx.lanes] \o Hashed(ctx) \in Seq(Char)
    BY <2>2, Joined
  <2>4. Literal.lanes \o (Decimal[ctx.lanes] \o Hashed(ctx)) \in Seq(Char)
    BY <2>2, <2>3, Joined
  <2>5. Decimal[ctx.t_cost] \o (Literal.lanes \o (Decimal[ctx.lanes] \o Hashed(ctx))) \in Seq(Char)
    BY <2>2, <2>4, Joined
  <2>6. Literal.time \o (Decimal[ctx.t_cost] \o (Literal.lanes \o (Decimal[ctx.lanes] \o Hashed(ctx))))
          \in Seq(Char)
    BY <2>2, <2>5, Joined
  <2> QED BY <2>2, <2>6, Joined
<1> QED BY <1>1, <1>2

LEMMA DecodesEverySpelling ==
  ASSUME NEW str \in Seq(Char), NEW type \in Types, NEW d \in Nat, NEW ctx \in Readable(d),
         Denotes(str, ctx, type)
  PROVE  OutOf(d, str, type).next = Len(str) + 1 /\ ContextOf(d, str, type) = ctx
<1>0. /\ ctx \in Spellable /\ ctx.version \in UInt32
      /\ ctx = [version |-> ctx.version, m_cost |-> ctx.m_cost, t_cost |-> ctx.t_cost,
                lanes |-> ctx.lanes, threads |-> ctx.lanes, salt |-> ctx.salt,
                saltlen |-> Len(ctx.salt), out |-> ctx.out, outlen |-> Len(ctx.out)]
  BY ReadableContext
<1>1. /\ Prefix(type) \in Seq(Char) /\ VersionPart(ctx) \in Seq(Char) /\ Costs(ctx) \in Seq(Char)
      /\ VersionPart(ctx) \o Costs(ctx) \in Seq(Char) /\ Len(str) \in Nat /\ 1 \in Nat
  <2>1. Prefix(type) \in Seq(Char) /\ VersionPart(ctx) \in Seq(Char) /\ Costs(ctx) \in Seq(Char)
    BY <1>0, SpellingParts, CostsParts
  <2>2. Len(str) \in Nat /\ 1 \in Nat
    BY LenProperties, SMT
  <2> QED BY <2>1, <2>2, Joined
<1>2. PICK T : T = TypeEnd(str, type)
  OBVIOUS
<1>3. PICK V : V = VersionOf(str, type) /\ V = VersionField(str, T)
  BY <1>2 DEF VersionOf
<1>4. CASE str = Spelling(ctx, type)
  <2> DEFINE B == VersionPart(ctx) \o Costs(ctx)
  <2>1. At(str, 1, Prefix(type) \o B)
    BY <1>4, AtStart DEF Spelling
  <2>2. B \in Seq(Char)
    BY <1>1
  <2> HIDE DEF B
  <2>3. At(str, T, B)
    BY <1>1, <1>2, <2>1, <2>2, CCFinds DEF TypeEnd
  <2>4. PICK n \in UInt32 : n = ctx.version
    BY <1>0
  <2>5. B = Literal.version \o (Decimal[n] \o Costs(ctx))
    <3>1. n \in Nat
      BY UInt32Type
    <3>2. Literal.version \in Seq(Char) /\ Decimal[n] \in Seq(Char)
      BY <3>1, Literals, NumberStrings
    <3>3. Associative(Literal.version, Decimal[n], Costs(ctx))
      BY <1>1, <3>2, Rejoined
    <3>4. VersionPart(ctx) = Literal.version \o Decimal[n]
      BY <2>4 DEF VersionPart
    <3> QED BY <3>3, <3>4 DEF Associative, B
  <2>6. Ends(Costs(ctx), DigitChars)
    <3>1. PICK C \in Seq(Char) : Costs(ctx) = Literal.memory \o C
      BY <1>0, CostsBegin
    <3> QED BY <3>1, FieldsEnd
  <2>7. V.value = n /\ At(str, V.next, Costs(ctx))
    BY <1>1, <1>3, <2>3, <2>5, <2>6, VersionFinds
  <2>8. V.value = ctx.version
    BY <2>4, <2>7
  <2> QED BY <1>0, <1>3, <2>7, <2>8, DecodesCosts DEF ContextOf
<1>5. CASE ctx.version = ARGON2_VERSION_10 /\ str = Prefix(type) \o Costs(ctx)
  <2>1. At(str, 1, Prefix(type) \o Costs(ctx))
    BY <1>5, AtStart
  <2>2. At(str, T, Costs(ctx))
    BY <1>1, <1>2, <2>1, CCFinds DEF TypeEnd
  <2>3. PICK C \in Seq(Char) : Costs(ctx) = Literal.memory \o C
    BY <1>0, CostsBegin
  <2>4. V.next = T /\ V.value = ARGON2_VERSION_10
    BY <1>3, <2>2, <2>3, VersionSkips
  <2>5. At(str, V.next, Costs(ctx))
    BY <2>2, <2>4
  <2>6. V.value = ctx.version
    BY <1>5, <2>4
  <2> QED BY <1>0, <1>3, <2>5, <2>6, DecodesCosts DEF ContextOf
<1> QED BY <1>4, <1>5 DEF Denotes

(* No string is of two types: the letter behind "$argon2" and what follows it tell. *)
Behind(C, s, t, k) ==
  /\ s \o t \in Seq(C) /\ Len(s \o t) = Len(s) + Len(t)
  /\ (s \o t)[Len(s) + k] = t[k]

LEMMA ElementBehind ==
  ASSUME NEW C, NEW s \in Seq(C), NEW t \in Seq(C), NEW k \in 1 .. Len(t)
  PROVE  Behind(C, s, t, k)
<1> DEFINE m == Len(s)
<1>1. /\ s \o t \in Seq(C) /\ Len(s \o t) = m + Len(t) /\ Len(t) \in Nat /\ m \in Nat
      /\ \A j \in 1 .. Len(s) + Len(t) : (s \o t)[j] = IF j <= Len(s) THEN s[j] ELSE t[j - Len(s)]
  BY ConcatProperties, LenProperties
<1> HIDE DEF m
<1>2. m + k \in 1 .. m + Len(t) /\ ~ m + k <= m /\ (m + k) - m = k
  BY <1>1, SMT
<1> QED BY <1>1, <1>2 DEF m, Behind

LEMMA TypeNames ==
  /\ Len(Prefix("d")) = 8 /\ Prefix("d")[8] = "d"
  /\ Len(Prefix("i")) = 8 /\ Prefix("i")[8] = "i"
  /\ Len(Prefix("id")) = 9 /\ Prefix("id")[8] = "i" /\ Prefix("id")[9] = "d"
<1> DEFINE C == {"a", "r", "g", "o", "n", "2", "d", "i", "$"}
           head == <<"a", "r", "g", "o", "n", "2">>
<1>1. /\ head \in Seq(C) /\ <<"d">> \in Seq(C) /\ <<"i">> \in Seq(C) /\ <<"i", "d">> \in Seq(C)
      /\ <<"$">> \in Seq(C)
  OBVIOUS
<1>2. /\ Len(head) = 6 /\ Len(<<"d">>) = 1 /\ Len(<<"i">>) = 1 /\ Len(<<"i", "d">>) = 2
      /\ Len(<<"$">>) = 1
      /\ <<"d">>[1] = "d" /\ <<"i">>[1] = "i" /\ <<"i", "d">>[1] = "i" /\ <<"i", "d">>[2] = "d"
  OBVIOUS
<1>3. \A s, t \in Seq(C) : \A k \in 1 .. Len(t) : Behind(C, s, t, k)
  BY ElementBehind
<1>4. /\ passe_argon2_type2string("d") = head \o <<"d">>
      /\ passe_argon2_type2string("i") = head \o <<"i">>
      /\ passe_argon2_type2string("id") = head \o <<"i", "d">>
  BY DEF passe_argon2_type2string
<1> HIDE DEF C, head
<1>5. ASSUME NEW last \in Seq(C), NEW n \in Nat, Len(last) = n, NEW k \in 1 .. n
      PROVE  /\ Len(<<"$">> \o (head \o last)) = 7 + n
             /\ (<<"$">> \o (head \o last))[7 + k] = last[k]
  <2> DEFINE s == head \o last
             d == <<"$">>
  <2>1. s \in Seq(C) /\ Len(s) = 6 + n /\ s[6 + k] = last[k]
    <3>1. k \in 1 .. Len(last)
      BY <1>5
    <3>2. Behind(C, head, last, k)
      BY <1>1, <1>3, <1>5, <3>1
    <3> QED BY <1>2, <1>5, <3>2 DEF Behind
  <2>2. 6 + k \in 1 .. 6 + n /\ 1 + (6 + k) = 7 + k /\ 1 + (6 + n) = 7 + n
    BY <1>5, SMT
  <2>3. d \in Seq(C) /\ Len(d) = 1
    BY <1>1, <1>2
  <2> HIDE DEF s, d
  <2>4. Len(d \o s) = 1 + (6 + n) /\ (d \o s)[1 + (6 + k)] = s[6 + k]
    <3>1. 6 + k \in 1 .. Len(s)
      BY <2>1, <2>2
    <3>2. Behind(C, d, s, 6 + k)
      BY <1>3, <2>1, <2>3, <3>1
    <3> QED BY <2>1, <2>3, <3>2 DEF Behind
  <2> QED BY <2>1, <2>2, <2>4 DEF s, d
<1>6. 1 \in 1 .. 1 /\ 1 \in 1 .. 2 /\ 2 \in 1 .. 2 /\ 7 + 1 = 8 /\ 7 + 2 = 9
  BY SMT
<1>7. Len(<<"$">> \o (head \o <<"d">>)) = 8 /\ (<<"$">> \o (head \o <<"d">>))[8] = "d"
  <2> DEFINE l == <<"d">>
  <2>1. l \in Seq(C) /\ Len(l) = 1 /\ l[1] = "d"
    BY <1>1, <1>2
  <2> HIDE DEF l
  <2>2. Len(<<"$">> \o (head \o l)) = 7 + 1 /\ (<<"$">> \o (head \o l))[7 + 1] = l[1]
    BY <1>5, <1>6, <2>1
  <2> QED BY <1>6, <2>1, <2>2 DEF l
<1>8. Len(<<"$">> \o (head \o <<"i">>)) = 8 /\ (<<"$">> \o (head \o <<"i">>))[8] = "i"
  <2> DEFINE l == <<"i">>
  <2>1. l \in Seq(C) /\ Len(l) = 1 /\ l[1] = "i"
    BY <1>1, <1>2
  <2> HIDE DEF l
  <2>2. Len(<<"$">> \o (head \o l)) = 7 + 1 /\ (<<"$">> \o (head \o l))[7 + 1] = l[1]
    BY <1>5, <1>6, <2>1
  <2> QED BY <1>6, <2>1, <2>2 DEF l
<1>9. /\ Len(<<"$">> \o (head \o <<"i", "d">>)) = 9
      /\ (<<"$">> \o (head \o <<"i", "d">>))[8] = "i"
      /\ (<<"$">> \o (head \o <<"i", "d">>))[9] = "d"
  <2> DEFINE l == <<"i", "d">>
  <2>1. l \in Seq(C) /\ Len(l) = 2 /\ l[1] = "i" /\ l[2] = "d"
    BY <1>1, <1>2
  <2> HIDE DEF l
  <2>2. /\ Len(<<"$">> \o (head \o l)) = 7 + 2 /\ (<<"$">> \o (head \o l))[7 + 1] = l[1]
        /\ (<<"$">> \o (head \o l))[7 + 2] = l[2]
    BY <1>5, <1>6, <2>1
  <2> QED BY <1>6, <2>1, <2>2 DEF l
<1> QED BY <1>4, <1>7, <1>8, <1>9 DEF Prefix

LEMMA OneType ==
  ASSUME NEW str, Len(str) \in Nat, NEW t \in Types, NEW u \in Types,
         NEW B \in Seq(Char), NEW D \in Seq(Char), B # <<>>, D # <<>>, B[1] = "$", D[1] = "$",
         str = Prefix(t) \o B, str = Prefix(u) \o D
  PROVE  t = u
<1>1. ASSUME NEW a \in Types, NEW X \in Seq(Char), X # <<>>, X[1] = "$", str = Prefix(a) \o X
      PROVE  /\ a = "d" => str[8] = "d"
             /\ a = "i" => str[8] = "i" /\ str[9] = "$"
             /\ a = "id" => str[8] = "i" /\ str[9] = "d"
  <2> DEFINE n == Len(Prefix(a))
             P == Prefix(a)
  <2>1. P \in Seq(Char) /\ n \in Nat /\ Len(X) \in Nat /\ Len(X) # 0
    BY <1>1, Literals, Joined, EmptySeq DEF Prefix
  <2>2. \A j \in 1 .. n + Len(X) : str[j] = IF j <= n THEN P[j] ELSE X[j - n]
    BY <1>1, <2>1, ConcatProperties
  <2>3. ASSUME NEW j \in 1 .. n PROVE str[j] = P[j]
    <3>1. j \in 1 .. n + Len(X) /\ j <= n
      BY <2>1, SMT
    <3> QED BY <2>2, <3>1
  <2>4. str[n + 1] = X[1]
    <3>1. n + 1 \in 1 .. n + Len(X) /\ ~ n + 1 <= n /\ (n + 1) - n = 1
      BY <2>1, SMT
    <3> QED BY <2>2, <3>1
  <2>5. 8 \in 1 .. 8 /\ 8 \in 1 .. 9 /\ 9 \in 1 .. 9 /\ 8 + 1 = 9
    BY SMT
  <2> HIDE DEF n, P
  <2>6. CASE a = "d"
    <3>1. n = 8 /\ P[8] = "d"
      BY <2>6, TypeNames DEF n, P
    <3> QED BY <2>3, <2>5, <2>6, <3>1
  <2>7. CASE a = "i"
    <3>1. n = 8 /\ P[8] = "i"
      BY <2>7, TypeNames DEF n, P
    <3>2. str[8] = "i" /\ str[9] = "$"
      BY <1>1, <2>3, <2>4, <2>5, <3>1
    <3> QED BY <2>7, <3>2
  <2>8. CASE a = "id"
    <3>1. n = 9 /\ P[8] = "i" /\ P[9] = "d"
      BY <2>8, TypeNames DEF n, P
    <3>2. str[8] = "i" /\ str[9] = "d"
      BY <2>3, <2>5, <3>1
    <3> QED BY <2>8, <3>2
  <2> QED BY <2>6, <2>7, <2>8 DEF Types
<1>2. /\ t = "d" => str[8] = "d"
      /\ t = "i" => str[8] = "i" /\ str[9] = "$"
      /\ t = "id" => str[8] = "i" /\ str[9] = "d"
  BY <1>1
<1>3. /\ u = "d" => str[8] = "d"
      /\ u = "i" => str[8] = "i" /\ str[9] = "$"
      /\ u = "id" => str[8] = "i" /\ str[9] = "d"
  BY <1>1
<1> QED BY <1>2, <1>3 DEF Types

LEMMA Validated ==
  ASSUME NEW ctx, ValidateInputs(ctx) = OK, ctx.lanes \in UInt32, ctx.threads \in UInt32
  PROVE  ctx.lanes \in 1 .. MaxLanes /\ ctx.threads \in 1 .. MaxLanes
<1>1. /\ ~ ctx.lanes < ARGON2_MIN_LANES /\ ~ ctx.lanes > MaxLanes
      /\ ~ ctx.threads < ARGON2_MIN_LANES /\ ~ ctx.threads > MaxLanes
  BY DEF ValidateInputs, OK
<1>2. ctx.lanes \in Nat /\ ctx.threads \in Nat /\ MaxLanes \in Nat
  BY UInt32Type, ContextAssumption
<1> QED BY <1>1, <1>2, SMT DEF ARGON2_MIN_LANES

(* The characters that stand behind the type. *)
LEMMA BehindType ==
  ASSUME NEW str, NEW type \in Types, NEW ctx \in Spellable, Denotes(str, ctx, type)
  PROVE  \E B \in Seq(Char) : B # <<>> /\ B[1] = "$" /\ str = Prefix(type) \o B
<1>1. ASSUME NEW l \in Seq(Char), Len(l) = 3, l[1] = "$", NEW C \in Seq(Char)
      PROVE  l \o C \in Seq(Char) /\ l \o C # <<>> /\ (l \o C)[1] = "$"
  <2>1. /\ l \o C \in Seq(Char) /\ Len(l \o C) = Len(l) + Len(C) /\ Len(C) \in Nat
        /\ \A k \in 1 .. Len(l) + Len(C) : (l \o C)[k] = IF k <= Len(l) THEN l[k] ELSE C[k - Len(l)]
    BY ConcatProperties, LenProperties
  <2>2. 1 \in 1 .. Len(l) + Len(C) /\ 1 <= Len(l) /\ Len(l) + Len(C) # 0
    BY <1>1, <2>1, SMT
  <2>3. l \o C # <<>>
    BY <2>1, <2>2, EmptySeq
  <2> QED BY <1>1, <2>1, <2>2, <2>3
<1>2. /\ Literal.memory \in Seq(Char) /\ Len(Literal.memory) = 3 /\ Literal.memory[1] = "$"
      /\ Literal.version \in Seq(Char) /\ Len(Literal.version) = 3 /\ Literal.version[1] = "$"
  <2>1. Literal.memory[1] = "$" /\ Literal.version[1] = "$"
    BY DEF Literal
  <2> QED BY <2>1, Literals
<1>3. CASE str = Spelling(ctx, type)
  <2>1. ctx.version \in Nat /\ Costs(ctx) \in Seq(Char)
    BY CostsParts DEF Spellable
  <2>2. PICK n \in Nat : n = ctx.version
    BY <2>1
  <2>3. Decimal[n] \in Seq(Char)
    BY NumberStrings
  <2>4. PICK C \in Seq(Char) : C = Decimal[n] \o Costs(ctx)
    BY <2>1, <2>3, Joined
  <2>5. VersionPart(ctx) \o Costs(ctx) = Literal.version \o C
    <3>1. Associative(Literal.version, Decimal[n], Costs(ctx))
      BY <1>2, <2>1, <2>3, Rejoined
    <3> QED BY <2>2, <2>4, <3>1 DEF Associative, VersionPart
  <2>6. PICK B : B = Literal.version \o C
    OBVIOUS
  <2>7. B \in Seq(Char) /\ B # <<>> /\ B[1] = "$"
    BY <1>1, <1>2, <2>6
  <2>8. str = Prefix(type) \o B
    BY <1>3, <2>5, <2>6 DEF Spelling
  <2> QED BY <2>7, <2>8
<1>4. CASE str = Prefix(type) \o Costs(ctx)
  <2>1. PICK C \in Seq(Char) : Costs(ctx) = Literal.memory \o C
    BY CostsBegin
  <2>2. Costs(ctx) \in Seq(Char) /\ Costs(ctx) # <<>> /\ Costs(ctx)[1] = "$"
    BY <1>1, <1>2, <2>1
  <2> QED BY <1>4, <2>2
<1> QED BY <1>3, <1>4 DEF Denotes

(* passe_decode_string accepts the strings that stand for a valid context whose
   salt and output fit into the buffers, and gives that context; it accepts no
   other string (argon2/encoding.c).                                        *)
THEOREM DecodeAccepts ==
  ASSUME NEW str \in Seq(Char), NEW type \in Types, NEW d \in Nat
  PROVE  /\ passe_decode_string(d, d, str, type).ret = OK =>
              LET ctx == passe_decode_string(d, d, str, type).ctx
              IN  ctx \in Readable(d) /\ ValidateInputs(ctx) = OK /\ Denotes(str, ctx, type)
         /\ passe_decode_string(d, d, str, type).ret # OK =>
              passe_decode_string(d, d, str, type).ctx = NoContext
         /\ \A ctx \in Readable(d) :
              ValidateInputs(ctx) = OK /\ Denotes(str, ctx, type) =>
                passe_decode_string(d, d, str, type) = [ret |-> OK, ctx |-> ctx]
<1> DEFINE r == passe_decode_string(d, d, str, type)
           end == OutOf(d, str, type).next
           c == ContextOf(d, str, type)
<1>1. r = DecodedFrom(str, end, c)
  BY DecodeIs
<1> HIDE DEF r, end, c
<1>2. CASE end # NULL /\ ValidateInputs(c) = OK /\ end = Len(str) + 1
  <2>1. r = [ret |-> OK, ctx |-> c]
    BY <1>1, <1>2 DEF DecodedFrom
  <2>2. c \in Readable(d) /\ Denotes(str, c, type)
    BY <1>2, DecodesOnlySpellings DEF c, end
  <2>3. \A ctx \in Readable(d) : Denotes(str, ctx, type) => c = ctx
    BY DecodesEverySpelling DEF c
  <2> QED BY <1>2, <2>1, <2>2, <2>3 DEF r
<1>3. CASE ~ (end # NULL /\ ValidateInputs(c) = OK /\ end = Len(str) + 1)
  <2>1. r.ret # OK /\ r.ctx = NoContext
    BY <1>1, <1>3 DEF DecodedFrom, Failed, OK
  <2>2. \A ctx \in Readable(d) : ValidateInputs(ctx) = OK => ~ Denotes(str, ctx, type)
    <3> SUFFICES ASSUME NEW ctx \in Readable(d), ValidateInputs(ctx) = OK, Denotes(str, ctx, type)
                 PROVE  FALSE
      OBVIOUS
    <3>1. end = Len(str) + 1 /\ c = ctx
      BY DecodesEverySpelling DEF c, end
    <3>2. end # NULL
      <4>1. Len(str) \in Nat
        BY LenProperties
      <4> QED BY <3>1, <4>1, SMT DEF NULL
    <3> QED BY <1>3, <3>1, <3>2
  <2> QED BY <2>1, <2>2 DEF r
<1> QED BY <1>2, <1>3

(* What was made, and what has been read, where the properties look at it. *)
LEMMA WhatWasMade ==
  ASSUME MadeInv, made # NotMade
  PROVE  /\ made.ctx \in Contexts /\ made.type \in Types
         /\ made.ret = OK => /\ ValidateInputs(made.ctx) = OK
                             /\ made.dst = Spelling(made.ctx, made.type)
<1>1. PICK ctx \in Contexts, type \in Types : \E d \in Rooms(ctx, type) : made = Made(ctx, type, d)
  BY DEF MadeInv
<1>2. PICK d \in Rooms(ctx, type) : made = Made(ctx, type, d)
  BY <1>1
<1>3. /\ made.ctx = ctx /\ made.type = type /\ made.ret = passe_encode_string(d, ctx, type).ret
      /\ made.dst = passe_encode_string(d, ctx, type).dst
  BY <1>2 DEF Made
<1>4. ctx \in Spellable /\ d \in Nat
  BY AskedContext, RoomType
<1>5. made.ret = OK => ValidateInputs(ctx) = OK /\ made.dst = Spelling(ctx, type)
  BY <1>3, <1>4, EncodeIs DEF Encodes
<1> QED BY <1>3, <1>5

LEMMA WhatWasRead ==
  ASSUME EncodingInv, read # NotRead
  PROVE  /\ text \in Seq(Char) /\ read.type \in Types /\ read.room \in Nat
         /\ read.ret = passe_decode_string(read.room, read.room, text, read.type).ret
         /\ read.ctx = passe_decode_string(read.room, read.room, text, read.type).ctx
         /\ made # NotMade /\ made.ret = OK
<1>1. text # NoString /\ \E type \in Types, room \in Nat : read = Reading(text, type, room)
  BY DEF EncodingInv, ReadInv
<1>2. PICK type \in Types, room \in Nat : read = Reading(text, type, room)
  BY <1>1
<1>3. /\ read.type = type /\ read.room = room
      /\ read.ret = passe_decode_string(room, room, text, type).ret
      /\ read.ctx = passe_decode_string(room, room, text, type).ctx
  BY <1>2 DEF Reading
<1>4. text \in Seq(Char) /\ made # NotMade /\ made.ret = OK
  BY <1>1 DEF EncodingInv, TextInv
<1> QED BY <1>3, <1>4

LEMMA NoneRead == NotRead.ret # OK /\ NotRead.ctx = NoContext /\ NotMade.ctx = NoContext
BY DEF NotRead, NotMade, OK

(* What has been read is a context that passe_validate_inputs lets pass, and its
   lengths are those of its fields: none of them was cut to 32 bits or to the
   length of a buffer (argon2/encoding.c).                                  *)
THEOREM EncodingTypes == Spec => []TypeOK
<1>1. EncodingInv => TypeOK
  <2> SUFFICES ASSUME EncodingInv PROVE TypeOK
    OBVIOUS
  <2>1. made.ctx \in Contexts \union {NoContext}
    BY NoneRead, WhatWasMade DEF EncodingInv
  <2>2. read.ret # OK => read.ctx = NoContext
    <3>1. CASE read = NotRead
      BY <3>1, NoneRead
    <3>2. CASE read # NotRead
      BY <3>2, WhatWasRead, DecodeAccepts
    <3> QED BY <3>1, <3>2
  <2>3. ASSUME read.ret = OK
        PROVE  /\ read.ctx \in Fields
               /\ Len(read.ctx.salt) = read.ctx.saltlen /\ Len(read.ctx.out) = read.ctx.outlen
    <3>1. read # NotRead
      BY <2>3, NoneRead
    <3>2. PICK ctx : ctx = read.ctx
      OBVIOUS
    <3>3. PICK d \in Nat : d = read.room
      BY <3>1, WhatWasRead
    <3>4. ctx \in Readable(d) /\ ValidateInputs(ctx) = OK
      BY <2>3, <3>1, <3>2, <3>3, WhatWasRead, DecodeAccepts
    <3>5. /\ ctx.lanes \in UInt32 /\ ctx.threads \in UInt32
          /\ ctx.saltlen = Len(ctx.salt) /\ ctx.outlen = Len(ctx.out)
      BY <3>4 DEF Readable
    <3>6. ctx.lanes \in 1 .. MaxLanes /\ ctx.threads \in 1 .. MaxLanes
      BY <3>4, <3>5, Validated
    <3>7. ctx \in Fields
      BY <3>4, <3>6 DEF Readable, Fields
    <3> QED BY <3>2, <3>5, <3>7
  <2> QED BY <2>1, <2>2, <2>3 DEF TypeOK
<1> QED BY <1>1, EncodingInvariance, PTL

(* passe_decode_string gives back what passe_encode_string wrote, whole, under the
   same type and no other, exactly when the buffers have room for salt and
   output (argon2/encoding.c).                                              *)
THEOREM DecodingUndoesEncoding == Spec => []RoundTrip
<1>1. EncodingInv => RoundTrip
  <2> SUFFICES ASSUME EncodingInv, read # NotRead, text = made.dst
               PROVE  /\ read.ret = OK <=>
                           /\ read.type = made.type
                           /\ read.room >= made.ctx.saltlen /\ read.room >= made.ctx.outlen
                      /\ read.ret = OK => read.ctx = made.ctx
    BY DEF RoundTrip
  <2>1. PICK ctx \in Contexts : ctx = made.ctx
    BY WhatWasMade, WhatWasRead DEF EncodingInv
  <2>2. PICK t \in Types : t = made.type
    BY WhatWasMade, WhatWasRead DEF EncodingInv
  <2>3. PICK d \in Nat : d = read.room
    BY WhatWasRead
  <2>4. PICK u \in Types : u = read.type
    BY WhatWasRead
  <2>5. /\ text \in Seq(Char) /\ text = Spelling(ctx, t) /\ ValidateInputs(ctx) = OK
        /\ read.ret = passe_decode_string(d, d, text, u).ret
        /\ read.ctx = passe_decode_string(d, d, text, u).ctx
    BY <2>1, <2>2, <2>3, <2>4, WhatWasMade, WhatWasRead DEF EncodingInv
  <2>6. Denotes(text, ctx, t)
    BY <2>5 DEF Denotes
  <2>7. ctx.saltlen \in Nat /\ ctx.outlen \in Nat /\ ctx \in Spellable
    BY AskedContext, UInt32Type
  <2>8. ASSUME NEW e \in Nat, ctx.saltlen <= e, ctx.outlen <= e PROVE ctx \in Readable(e)
    <3>1. ctx \in Asked /\ ctx.threads = ctx.lanes
          /\ ctx.saltlen = Len(ctx.salt) /\ ctx.outlen = Len(ctx.out)
      BY ProgramAssumption
    <3>2. ARGON2_VERSION_10 \in UInt32 /\ ARGON2_VERSION_NUMBER \in UInt32
      BY ContextAssumption, SMT DEF ARGON2_VERSION_10, ARGON2_VERSION_NUMBER, UInt32, UINT32_MAX
    <3> QED BY <2>8, <3>1, <3>2 DEF Asked, Readable
  <2>9. ASSUME u = t, d >= ctx.saltlen, d >= ctx.outlen
        PROVE  read.ret = OK /\ read.ctx = ctx
    <3>1. ctx.saltlen <= d /\ ctx.outlen <= d
      BY <2>7, <2>9, SMT
    <3>2. ctx \in Readable(d)
      BY <2>8, <3>1
    <3>3. passe_decode_string(d, d, text, u) = [ret |-> OK, ctx |-> ctx]
      BY <2>5, <2>6, <2>9, <3>2, DecodeAccepts
    <3> QED BY <2>5, <3>3
  <2>10. ASSUME read.ret = OK
         PROVE  u = t /\ d >= ctx.saltlen /\ d >= ctx.outlen
    <3>1. PICK c : c = read.ctx
      OBVIOUS
    <3>2. c \in Readable(d) /\ ValidateInputs(c) = OK /\ Denotes(text, c, u)
      BY <2>5, <2>10, <3>1, DecodeAccepts
    <3>3. c \in Spellable /\ c.saltlen <= d /\ c.outlen <= d
      BY <3>2, ReadableContext
    <3>4. u = t
      <4>1. PICK B \in Seq(Char) : B # <<>> /\ B[1] = "$" /\ text = Prefix(t) \o B
        BY <2>6, <2>7, BehindType
      <4>2. PICK D \in Seq(Char) : D # <<>> /\ D[1] = "$" /\ text = Prefix(u) \o D
        BY <3>2, <3>3, BehindType
      <4>3. Len(text) \in Nat
        BY <2>5, LenProperties
      <4> QED BY <4>1, <4>2, <4>3, OneType
    <3>5. PICK e \in Nat : d <= e /\ ctx.saltlen <= e /\ ctx.outlen <= e
      <4>1. /\ d + ctx.saltlen + ctx.outlen \in Nat /\ d <= d + ctx.saltlen + ctx.outlen
            /\ ctx.saltlen <= d + ctx.saltlen + ctx.outlen
            /\ ctx.outlen <= d + ctx.saltlen + ctx.outlen
        BY <2>7, SMT
      <4> QED BY <4>1
    <3>6. ctx \in Readable(e)
      BY <2>8, <3>5
    <3>7. c \in Readable(e)
      <4>1. c.saltlen <= e /\ c.outlen <= e
        <5>1. c.saltlen \in Nat /\ c.outlen \in Nat
          BY <3>3 DEF Spellable
        <5> QED BY <3>3, <3>5, <5>1, SMT
      <4> QED BY <3>2, <4>1 DEF Readable
    <3>8. /\ passe_decode_string(e, e, text, t) = [ret |-> OK, ctx |-> ctx]
          /\ passe_decode_string(e, e, text, t) = [ret |-> OK, ctx |-> c]
      BY <2>5, <2>6, <3>2, <3>4, <3>6, <3>7, DecodeAccepts
    <3>9. c = ctx
      BY <3>8
    <3>10. d >= c.saltlen /\ d >= c.outlen
      <4>1. c.saltlen \in Nat /\ c.outlen \in Nat
        BY <3>3 DEF Spellable
      <4> QED BY <3>3, <4>1, SMT
    <3> QED BY <3>4, <3>9, <3>10
  <2> QED BY <2>1, <2>2, <2>3, <2>4, <2>9, <2>10
<1> QED BY <1>1, EncodingInvariance, PTL

LEMMA NumlenBound == \A n \in Nat : n # 0 => passe_numlen[n] \in Nat /\ passe_numlen[n] <= n
<1> DEFINE S == {n \in Nat : n # 0 => passe_numlen[n] \in Nat /\ passe_numlen[n] <= n}
<1>1. ASSUME NEW n \in Nat, \A m \in Nat : m < n => m \in S PROVE n \in S
  <2> SUFFICES ASSUME n # 0 PROVE passe_numlen[n] \in Nat /\ passe_numlen[n] <= n
    OBVIOUS
  <2>1. CASE n < Radix
    <3>1. passe_numlen[n] = 1
      BY <2>1, NumlenIs
    <3> QED BY <3>1, SMT
  <2>2. CASE ~ n < Radix
    <3> DEFINE q == n \div Radix
    <3>1. q \in Nat /\ q < n /\ q >= 1
      BY <2>2, QuotientLess
    <3> HIDE DEF q
    <3>2. q # 0
      BY <3>1, SMT
    <3>3. passe_numlen[q] \in Nat /\ passe_numlen[q] <= q
      BY <1>1, <3>1, <3>2
    <3>4. passe_numlen[n] = 1 + passe_numlen[q]
      BY <2>2, NumlenIs DEF q
    <3> QED BY <3>1, <3>3, <3>4, SMT
  <2> QED BY <2>1, <2>2
<1> HIDE DEF S
<1>2. \A n \in Nat : n \in S
  BY <1>1, StrongInductionOnSets
<1> QED BY <1>2 DEF S

LEMMA RestOf ==
  ASSUME NEW p \in Seq(Char), NEW q \in Seq(Char)
  PROVE  SubSeq(p \o q, Len(p) + 1, Len(p \o q)) = q
<1> DEFINE s == p \o q
           n == Len(p)
           m == Len(q)
           t == SubSeq(s, n + 1, n + m)
<1>1. /\ n \in Nat /\ m \in Nat /\ Len(s) = n + m
      /\ \A k \in 1 .. Len(p) + Len(q) : s[k] = IF k <= Len(p) THEN p[k] ELSE q[k - Len(p)]
  BY ConcatProperties, LenProperties
<1>2. t = [k \in 1 .. m |-> s[k + (n + 1) - 1]]
  <2> HIDE DEF s, n, m
  <2>1. t = [k \in 1 .. (n + m) - (n + 1) + 1 |-> s[k + (n + 1) - 1]]
    BY <1>1, SMT DEF SubSeq
  <2>2. (n + m) - (n + 1) + 1 = m
    BY <1>1, SMT
  <2> QED BY <2>1, <2>2
<1>3. ASSUME NEW k \in 1 .. m PROVE s[k + (n + 1) - 1] = q[k]
  <2> HIDE DEF s
  <2>1. k + (n + 1) - 1 \in 1 .. n + m /\ ~ k + (n + 1) - 1 <= n /\ (k + (n + 1) - 1) - n = k
    BY <1>1, SMT
  <2> QED BY <1>1, <2>1
<1>4. q = [k \in 1 .. m |-> q[k]]
  BY LenProperties
<1>5. t = q
  <2> HIDE DEF s, n, m, t
  <2> QED BY <1>2, <1>3, <1>4
<1> QED BY <1>1, <1>5

(* Every string that passe_decode_string accepts is the one that
   passe_encode_string would write for what was read, but for a version of 0x10
   that may be missing: no hash has two spellings (argon2/encoding.c).      *)
THEOREM DecodingIsCanonical == Spec => []Canonical
<1>1. EncodingInv => Canonical
  <2> SUFFICES ASSUME EncodingInv, read.ret = OK PROVE Canonical
    BY DEF Canonical
  <2>1. read # NotRead
    BY NoneRead
  <2>2. PICK ctx : ctx = read.ctx
    OBVIOUS
  <2>3. PICK u \in Types : u = read.type
    BY <2>1, WhatWasRead
  <2>4. PICK d \in Nat : d = read.room
    BY <2>1, WhatWasRead
  <2>5. text \in Seq(Char) /\ passe_decode_string(d, d, text, u).ret = OK
        /\ ctx = passe_decode_string(d, d, text, u).ctx
    BY <2>1, <2>2, <2>3, <2>4, WhatWasRead
  <2>6. ctx \in Readable(d) /\ ValidateInputs(ctx) = OK /\ Denotes(text, ctx, u)
    BY <2>5, DecodeAccepts
  <2>7. ctx \in Spellable
    BY <2>6, ReadableContext
  <2> DEFINE P == Prefix(u)
             V == VersionPart(ctx)
             C == Costs(ctx)
             L == Len(text)
             S == Len(Spelling(ctx, u))
  <2>8. /\ P \in Seq(Char) /\ V \in Seq(Char) /\ C \in Seq(Char) /\ Spelling(ctx, u) \in Seq(Char)
        /\ S = Len(P) + Len(V) + Len(C) /\ Len(V) = 3 + passe_numlen[ctx.version]
    BY <2>7, SpellingParts, CostsParts
  <2>9. L \in Nat /\ S \in Nat /\ Len(P) \in Nat /\ Len(C) \in Nat
    BY <2>5, <2>8, Joined
  <2>10. S < Enough
    <3>1. CASE text = Spelling(ctx, u)
      <4>1. L = S
        BY <3>1
      <4> HIDE DEF L, S
      <4> QED BY <2>9, <4>1, SMT DEF Enough, L
    <3>2. CASE ctx.version = ARGON2_VERSION_10 /\ text = P \o C
      <4>1. L = Len(P) + Len(C)
        BY <2>8, <3>2, Joined
      <4>2. passe_numlen[ctx.version] \in Nat /\ passe_numlen[ctx.version] <= 16
        <5>1. 16 \in Nat /\ 16 # 0
          BY SMT
        <5> QED BY <3>2, <5>1, NumlenBound DEF ARGON2_VERSION_10
      <4> DEFINE n == passe_numlen[ctx.version]
                 p == Len(P)
                 c == Len(C)
      <4>3. S = p + (3 + n) + c /\ L = p + c /\ n \in Nat /\ n <= 16
        BY <2>8, <4>1, <4>2
      <4>4. p \in Nat /\ c \in Nat
        BY <2>9
      <4> HIDE DEF n, p, c, L, S
      <4>5. S < 2 * L + 20
        BY <2>9, <4>3, <4>4, SMT
      <4> QED BY <4>5 DEF Enough, L
    <3> QED BY <2>6, <3>1, <3>2 DEF Denotes
  <2>11. Enough \in Nat
    <3> HIDE DEF L
    <3> QED BY <2>9, SMT DEF Enough, L
  <2>12. PICK again : again = passe_encode_string(Enough, ctx, u).dst
    OBVIOUS
  <2>13. again = Spelling(ctx, u)
    <3>1. PICK e \in Nat : e = Enough
      BY <2>11
    <3>2. Encodes(e, ctx, u)
      BY <2>7, EncodeIs
    <3> QED BY <2>6, <2>10, <2>12, <3>1, <3>2 DEF Encodes
  <2>14. SubSeq(again, Len(P \o V) + 1, Len(again)) = C
    <3>1. P \o V \in Seq(Char)
      BY <2>8, Joined
    <3>2. Associative(P, V, C)
      BY <2>8, Rejoined
    <3>3. again = (P \o V) \o C
      BY <2>13, <3>2 DEF Associative, Spelling
    <3> HIDE DEF P, V, C
    <3> QED BY <2>8, <3>1, <3>3, RestOf
  <2>15. \/ text = again
         \/ ctx.version = ARGON2_VERSION_10
            /\ text = P \o SubSeq(again, Len(P \o V) + 1, Len(again))
    BY <2>6, <2>13, <2>14 DEF Denotes
  <2> QED BY <2>2, <2>3, <2>12, <2>15 DEF Canonical
<1> QED BY <1>1, EncodingInvariance, PTL

LEMMA EnoughRoom ==
  ASSUME NEW str \in Seq(Char), NEW type \in Types, NEW d \in Nat, NEW e \in Nat,
         Len(str) <= d, Len(str) <= e, OutOf(d, str, type).next # NULL
  PROVE  /\ OutOf(e, str, type).next = OutOf(d, str, type).next
         /\ ContextOf(e, str, type) = ContextOf(d, str, type)
<1>1. LanesOf(str, type).next \in Nat /\ SaltOf(d, str, type).next \in Nat /\ Len(str) \in Nat
  BY FieldIndices, LenProperties
<1>2. SaltOf(d, str, type).next # NULL
  <2>1. PICK i \in Nat : i = SaltOf(d, str, type).next
    BY <1>1
  <2>2. ReadBytes(d, str, i).next # NULL
    BY <2>1 DEF OutOf
  <2>3. PICK src \in Seq(Byte), B \in Seq(Char) : At(str, i, <<"$">> \o (to_base64(src) \o B))
    BY <2>2, ReadBytesFound
  <2> QED BY <1>1, <2>1, <2>3, AtInside
<1>3. SaltOf(e, str, type) = SaltOf(d, str, type)
  BY <1>1, <1>2, RoomToSpare DEF SaltOf
<1>4. OutOf(e, str, type) = OutOf(d, str, type)
  <2>1. PICK i \in Nat : i = SaltOf(d, str, type).next
    BY <1>1
  <2>2. OutOf(d, str, type) = ReadBytes(d, str, i) /\ OutOf(e, str, type) = ReadBytes(e, str, i)
    BY <1>3, <2>1 DEF OutOf
  <2> QED BY <2>2, RoomToSpare
<1> QED BY <1>3, <1>4 DEF ContextOf

(* Buffers of the length of the string, which passe_argon2_verify provides, are
   never the reason why decoding fails: larger ones give the same result code
   (argon2/argon2.c, argon2/encoding.c).                                    *)
THEOREM FieldsFitTheirBuffers == Spec => []FieldsFit
<1>1. EncodingInv => FieldsFit
  <2> SUFFICES ASSUME EncodingInv, read # NotRead, read.room = max_field_len(text)
               PROVE  read.ret = passe_decode_string(Enough, Enough, text, read.type).ret
    BY DEF FieldsFit
  <2>1. PICK u \in Types : u = read.type
    BY WhatWasRead
  <2>2. PICK d \in Nat : d = read.room
    BY WhatWasRead
  <2>3. /\ text \in Seq(Char) /\ Len(text) \in Nat /\ d = Len(text)
        /\ read.ret = passe_decode_string(d, d, text, u).ret
    BY <2>1, <2>2, WhatWasRead, LenProperties DEF max_field_len
  <2>4. PICK e \in Nat : e = Enough /\ Len(text) <= e
    <3> DEFINE L == Len(text)
    <3>1. L \in Nat
      BY <2>3
    <3> HIDE DEF L
    <3>2. 2 * L + 20 \in Nat /\ L <= 2 * L + 20
      BY <3>1, SMT
    <3> QED BY <3>2 DEF Enough, L
  <2>5. Len(text) <= d
    BY <2>3, SMT
  <2>6. passe_decode_string(d, d, text, u) = passe_decode_string(e, e, text, u)
    <3>1. CASE OutOf(d, text, u).next # NULL
      <4>1. /\ OutOf(e, text, u).next = OutOf(d, text, u).next
            /\ ContextOf(e, text, u) = ContextOf(d, text, u)
        BY <2>3, <2>4, <2>5, <3>1, EnoughRoom
      <4> QED BY <4>1, DecodeIs
    <3>2. CASE OutOf(d, text, u).next = NULL
      <4>1. OutOf(e, text, u).next = NULL
        BY <2>3, <2>4, <2>5, <3>2, EnoughRoom
      <4> QED BY <3>2, <4>1, DecodeIs DEF DecodedFrom
    <3> QED BY <3>1, <3>2
  <2> QED BY <2>1, <2>3, <2>4, <2>6
<1> QED BY <1>1, EncodingInvariance, PTL

=============================================================================
