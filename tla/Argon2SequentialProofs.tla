------------------------ MODULE Argon2SequentialProofs ------------------------
(***************************************************************************)
(* The threads of fill_memory_blocks_mt compute the memory that the loops of *)
(* fill_memory_blocks_st do: for all constants, schedules and failures.      *)
(*                                                                           *)
(* The loops are a recursive function; the induction is that of Recursion.   *)
(***************************************************************************)
EXTENDS Argon2RefinementProofs, Recursion

(***************************************************************************)
(* The loops of the reference, as states one after the other.                *)
(***************************************************************************)

(* f is a computation of n steps of the loops. *)
Computes(f, h, n) ==
  f = [k \in 0 .. n |-> IF k = 0 THEN LoopStart(h) ELSE LoopStep(f[k - 1])]

LEMMA ComputesUnique ==
  ASSUME NEW h, NEW m \in Nat, NEW n \in Nat,
         NEW f, Computes(f, h, m), NEW g, Computes(g, h, n)
  PROVE  \A k \in Nat : k <= m /\ k <= n => f[k] = g[k]
<1> DEFINE S == {k \in Nat : k <= m /\ k <= n => f[k] = g[k]}
<1>1. \A k \in Nat : k <= m => f[k] = IF k = 0 THEN LoopStart(h) ELSE LoopStep(f[k - 1])
  <2>1. \A k \in Nat : k <= m => k \in 0 .. m
    BY SMT
  <2> QED BY <2>1 DEF Computes
<1>2. \A k \in Nat : k <= n => g[k] = IF k = 0 THEN LoopStart(h) ELSE LoopStep(g[k - 1])
  <2>1. \A k \in Nat : k <= n => k \in 0 .. n
    BY SMT
  <2> QED BY <2>1 DEF Computes
<1>3. 0 \in Nat /\ 0 <= m /\ 0 <= n
  BY SMT
<1>4. 0 \in S
  BY <1>1, <1>2, <1>3
<1>5. ASSUME NEW k \in Nat, k \in S PROVE k + 1 \in S
  <2>1. k + 1 \in Nat /\ (k + 1) - 1 = k /\ k + 1 # 0
        /\ (k + 1 <= m => k <= m) /\ (k + 1 <= n => k <= n)
    BY SMT
  <2> QED BY <1>1, <1>2, <1>5, <2>1
<1> HIDE DEF S
<1>6. \A k \in Nat : k \in S
  BY <1>4, <1>5, NatInductionOnSets
<1> QED BY <1>6 DEF S

LEMMA ComputesExists ==
  ASSUME NEW h
  PROVE  \A n \in Nat : \E f : Computes(f, h, n)
<1> DEFINE S == {n \in Nat : \E f : Computes(f, h, n)}
<1>1. 0 \in S
  <2> DEFINE f == [k \in 0 .. 0 |-> LoopStart(h)]
  <2>1. \A k \in 0 .. 0 : k = 0
    BY SMT
  <2>2. Computes(f, h, 0)
    BY <2>1 DEF Computes
  <2> HIDE DEF f
  <2> QED BY <2>2
<1>2. ASSUME NEW n \in Nat, n \in S PROVE n + 1 \in S
  <2>1. PICK f : Computes(f, h, n)
    BY <1>2
  <2> DEFINE g == [k \in 0 .. n + 1 |-> IF k = n + 1 THEN LoopStep(f[n]) ELSE f[k]]
  <2>2. \A k \in 0 .. n + 1 : /\ (k # n + 1 => k \in 0 .. n)
                             /\ (k # 0 => k - 1 \in 0 .. n + 1 /\ k - 1 # n + 1)
                             /\ (k = n + 1 => k # 0 /\ k - 1 = n)
    BY SMT
  <2>3. \A k \in 0 .. n : f[k] = IF k = 0 THEN LoopStart(h) ELSE LoopStep(f[k - 1])
    BY <2>1 DEF Computes
  <2>4. \A k \in 0 .. n + 1 : k # 0 => g[k - 1] = f[k - 1]
    BY <2>2
  <2>5. \A k \in 0 .. n + 1 : g[k] = IF k = 0 THEN LoopStart(h) ELSE LoopStep(g[k - 1])
    BY <2>2, <2>3, <2>4
  <2>6. g = [k \in 0 .. n + 1 |-> g[k]]
    OBVIOUS
  <2> HIDE DEF g
  <2>7. Computes(g, h, n + 1)
    BY <2>5, <2>6 DEF Computes
  <2>8. n + 1 \in Nat
    BY SMT
  <2> QED BY <2>7, <2>8
<1> HIDE DEF S
<1>3. \A n \in Nat : n \in S
  BY <1>1, <1>2, NatInductionOnSets
<1> QED BY <1>3 DEF S

(* The recursive definition of Loops has a solution, so Loops is one. *)
LEMMA LoopsExist ==
  ASSUME NEW h
  PROVE  \E f : f = [k \in Nat |-> IF k = 0 THEN LoopStart(h) ELSE LoopStep(f[k - 1])]
<1> DEFINE c(n) == CHOOSE f : Computes(f, h, n)
           f == [k \in Nat |-> c(k)[k]]
<1>1. \A n \in Nat : Computes(c(n), h, n)
  BY ComputesExists
<1>2. \A k \in Nat : k # 0 => k - 1 \in Nat /\ k - 1 <= k /\ k - 1 <= k - 1
  BY SMT
<1>3. \A k \in Nat : k \in 0 .. k
  BY SMT
<1>4. ASSUME NEW k \in Nat
      PROVE  f[k] = IF k = 0 THEN LoopStart(h) ELSE LoopStep(f[k - 1])
  <2>1. Computes(c(k), h, k)
    BY <1>1
  <2>2. c(k)[k] = IF k = 0 THEN LoopStart(h) ELSE LoopStep(c(k)[k - 1])
    <3> HIDE DEF c
    <3> QED BY <2>1, <1>3 DEF Computes
  <2>3. k # 0 => c(k)[k - 1] = c(k - 1)[k - 1]
    <3> SUFFICES ASSUME k # 0 PROVE c(k)[k - 1] = c(k - 1)[k - 1]
      OBVIOUS
    <3>1. Computes(c(k - 1), h, k - 1)
      BY <1>1, <1>2
    <3> HIDE DEF c
    <3> QED BY <1>2, <2>1, <3>1, ComputesUnique
  <2> HIDE DEF c
  <2> QED BY <1>2, <2>2, <2>3
<1>5. f = [k \in Nat |-> f[k]]
  OBVIOUS
<1> HIDE DEF f
<1>6. f = [k \in Nat |-> IF k = 0 THEN LoopStart(h) ELSE LoopStep(f[k - 1])]
  BY <1>4, <1>5
<1> QED BY <1>6

LEMMA LoopsRecurrence ==
  ASSUME NEW h
  PROVE  /\ Loops(h)[0] = LoopStart(h)
         /\ \A n \in Nat : Loops(h)[n + 1] = LoopStep(Loops(h)[n])
<1> DEFINE f == Loops(h)
<1>1. f = [k \in Nat |-> IF k = 0 THEN LoopStart(h) ELSE LoopStep(f[k - 1])]
  BY LoopsExist DEF Loops
<1>2. f[0] = LoopStart(h)
  BY <1>1
<1>3. \A n \in Nat : n + 1 \in Nat /\ n + 1 # 0 /\ (n + 1) - 1 = n
  BY SMT
<1> QED BY <1>1, <1>2, <1>3

(***************************************************************************)
(* Where the loops are after k steps.                                        *)
(***************************************************************************)

LoopPositions == [pass : Nat, slice : Slices, lane : Lanes, index : 0 .. segment_length - 1]
At0(r) == [pass |-> r, slice |-> 0, lane |-> 0, index |-> 0]

(* The number of positions before p, and those of a pass. *)
Rank(p) == ((p.pass * 4 + p.slice) * lanes + p.lane) * segment_length + p.index
PassSteps == lanes * lane_length

LEMMA LoopPosition ==
  ASSUME NEW p \in LoopPositions
  PROVE  /\ p.pass \in Nat /\ p.slice \in Nat /\ p.lane \in Nat /\ p.index \in Nat
         /\ p.slice < 4 /\ p.lane < lanes /\ p.index < segment_length
         /\ p.slice \in Slices /\ p.lane \in Lanes
         /\ p = [pass |-> p.pass, slice |-> p.slice, lane |-> p.lane, index |-> p.index]
<1>1. /\ p.pass \in Nat /\ p.slice \in Slices /\ p.lane \in Lanes
      /\ p.index \in 0 .. segment_length - 1
      /\ p = [pass |-> p.pass, slice |-> p.slice, lane |-> p.lane, index |-> p.index]
  BY DEF LoopPositions
<1>2. p.slice \in Nat /\ p.slice < 4
  BY <1>1, SMT DEF Slices, ARGON2_SYNC_POINTS
<1>3. p.lane \in Nat /\ p.lane < lanes
  BY <1>1, LaneLength, SMT DEF Lanes
<1>4. p.index \in Nat /\ p.index < segment_length
  BY <1>1, LaneLength, SMT
<1> QED BY <1>1, <1>2, <1>3, <1>4

LEMMA IsLoopPosition ==
  ASSUME NEW r \in Nat, NEW s \in Nat, s < 4, NEW l \in Nat, l < lanes,
         NEW i \in Nat, i < segment_length
  PROVE  [pass |-> r, slice |-> s, lane |-> l, index |-> i] \in LoopPositions
<1>1. s \in Slices
  BY SMT DEF Slices, ARGON2_SYNC_POINTS
<1>2. l \in Lanes
  BY LaneLength, SMT DEF Lanes
<1>3. i \in 0 .. segment_length - 1
  BY LaneLength, SMT
<1> QED BY <1>1, <1>2, <1>3 DEF LoopPositions

(* Numbers with a last digit b below n. *)
LEMMA Digit ==
  ASSUME NEW a \in Nat, NEW b \in Nat, NEW c \in Nat, NEW n \in Nat, b < n, a < c
  PROVE  a * n + b < c * n
<1>1. PICK d \in Nat : c = a + 1 + d
  <2>1. c - a - 1 \in Nat /\ c = a + 1 + (c - a - 1)
    BY SMT
  <2> QED BY <2>1
<1>2. c * n = a * n + n + d * n /\ a * n \in Nat /\ d * n \in Nat
  BY <1>1, SMT
<1> QED BY <1>2, SMT

LEMMA SameDigits ==
  ASSUME NEW a \in Nat, NEW b \in Nat, NEW c \in Nat, NEW d \in Nat, NEW n \in Nat,
         b < n, d < n, a * n + b = c * n + d
  PROVE  a = c /\ b = d
<1>1. a * n \in Nat /\ c * n \in Nat
  BY SMT
<1>2. ~ (a < c)
  <2> SUFFICES ASSUME a < c PROVE FALSE
    OBVIOUS
  <2>1. a * n + b < c * n
    BY Digit
  <2> QED BY <1>1, <2>1, SMT
<1>3. ~ (c < a)
  <2> SUFFICES ASSUME c < a PROVE FALSE
    OBVIOUS
  <2>1. c * n + d < a * n
    BY Digit
  <2> QED BY <1>1, <2>1, SMT
<1>4. a = c
  BY <1>2, <1>3, SMT
<1> QED BY <1>1, <1>4, SMT

LEMMA RankUnique ==
  ASSUME NEW p \in LoopPositions, NEW q \in LoopPositions, Rank(p) = Rank(q)
  PROVE  p = q
<1> DEFINE x(t) == t.pass * 4 + t.slice
           y(t) == x(t) * lanes + t.lane
<1>1. ASSUME NEW t \in LoopPositions PROVE x(t) \in Nat /\ y(t) \in Nat
  <2>1. x(t) \in Nat
    BY LoopPosition, SMT
  <2> HIDE DEF x
  <2>2. y(t) \in Nat
    BY <2>1, LoopPosition, LaneLength, SMT
  <2> QED BY <2>1, <2>2
<1>2. Rank(p) = y(p) * segment_length + p.index /\ Rank(q) = y(q) * segment_length + q.index
  BY DEF Rank
<1>3. /\ p.index \in Nat /\ p.index < segment_length /\ q.index \in Nat /\ q.index < segment_length
      /\ p.lane \in Nat /\ p.lane < lanes /\ q.lane \in Nat /\ q.lane < lanes
      /\ p.slice \in Nat /\ p.slice < 4 /\ q.slice \in Nat /\ q.slice < 4
      /\ p.pass \in Nat /\ q.pass \in Nat /\ 4 \in Nat
      /\ segment_length \in Nat /\ lanes \in Nat
  BY LoopPosition, LaneLength
<1>4. y(p) = y(q) /\ p.index = q.index
  <2> DEFINE a == y(p)
             b == p.index
             c == y(q)
             d == q.index
  <2>1. a \in Nat /\ c \in Nat
    BY <1>1
  <2>2. b \in Nat /\ d \in Nat /\ b < segment_length /\ d < segment_length
        /\ segment_length \in Nat
    BY <1>3
  <2>3. a * segment_length + b = c * segment_length + d
    BY <1>2
  <2> HIDE DEF a, b, c, d
  <2>4. a = c /\ b = d
    BY <2>1, <2>2, <2>3, SameDigits
  <2> QED BY <2>4 DEF a, b, c, d
<1>5. x(p) = x(q) /\ p.lane = q.lane
  <2> DEFINE a == x(p)
             c == x(q)
  <2>1. a \in Nat /\ c \in Nat
    BY <1>1
  <2>2. a * lanes + p.lane = c * lanes + q.lane
    BY <1>4
  <2> HIDE DEF a, c
  <2>3. a = c /\ p.lane = q.lane
    BY <1>3, <2>1, <2>2, SameDigits
  <2> QED BY <2>3 DEF a, c
<1>6. p.pass = q.pass /\ p.slice = q.slice
  BY <1>3, <1>5, SameDigits
<1> QED BY <1>4, <1>5, <1>6, LoopPosition

LEMMA At0Rank ==
  ASSUME NEW r \in Nat
  PROVE  At0(r) \in LoopPositions /\ Rank(At0(r)) = r * PassSteps
<1>1. At0(r) \in LoopPositions
  <2>1. 0 \in Nat /\ 0 < 4 /\ 0 < lanes /\ 0 < segment_length
    BY LaneLength, SMT
  <2> QED BY <2>1, IsLoopPosition DEF At0
<1>2. Rank(At0(r)) = ((r * 4 + 0) * lanes + 0) * segment_length + 0
  BY DEF Rank, At0
<1>3. (r * 4 + 0) * lanes + 0 = r * (4 * lanes)
  BY LaneLength, SMT
<1>4. r * (4 * lanes) * segment_length + 0 = r * (4 * lanes * segment_length)
  BY LaneLength, SMT
<1>5. 4 * lanes * segment_length = lanes * (4 * segment_length)
  BY LaneLength, SMT
<1> QED BY <1>1, <1>2, <1>3, <1>4, <1>5, LaneLength DEF PassSteps

(* A position lies before the end of its pass. *)
LEMMA RankBelow ==
  ASSUME NEW p \in LoopPositions
  PROVE  /\ Rank(p) \in Nat
         /\ p.pass * PassSteps <= Rank(p)
         /\ Rank(p) < (p.pass + 1) * PassSteps
<1> DEFINE r == p.pass
           s == p.slice
           l == p.lane
           i == p.index
           x == r * 4 + s
           y == x * lanes + l
<1>1. /\ r \in Nat /\ s \in Nat /\ s < 4 /\ l \in Nat /\ l < lanes
      /\ i \in Nat /\ i < segment_length
      /\ lanes \in Nat /\ segment_length \in Nat
  BY LoopPosition, LaneLength
<1>2. Rank(p) = y * segment_length + i
  BY DEF Rank
<1> HIDE DEF r, s, l, i
<1>3. x \in Nat /\ x < (r + 1) * 4 /\ (r + 1) * 4 \in Nat
  BY <1>1, SMT
<1>4. r * 4 <= x /\ r * 4 \in Nat
  BY <1>1, SMT
<1> HIDE DEF x
<1>5. y \in Nat /\ y < (r + 1) * 4 * lanes /\ (r + 1) * 4 * lanes \in Nat
  <2>1. y \in Nat /\ (r + 1) * 4 * lanes \in Nat
    BY <1>1, <1>3, SMT
  <2>2. y < (r + 1) * 4 * lanes
    BY <1>1, <1>3, Digit
  <2> QED BY <2>1, <2>2
<1>6. r * 4 * lanes <= y /\ r * 4 * lanes \in Nat
  <2>1. PICK d \in Nat : x = r * 4 + d
    <3>1. x - r * 4 \in Nat /\ x = r * 4 + (x - r * 4)
      BY <1>3, <1>4, SMT
    <3> QED BY <3>1
  <2>2. x * lanes = r * 4 * lanes + d * lanes /\ d * lanes \in Nat /\ r * 4 * lanes \in Nat
    BY <1>1, <1>4, <2>1, SMT
  <2> QED BY <1>1, <2>2, SMT
<1> HIDE DEF y
<1>7. y * segment_length + i < (r + 1) * 4 * lanes * segment_length
  BY <1>1, <1>5, Digit
<1>8. r * 4 * lanes * segment_length <= y * segment_length + i
  <2>1. PICK d \in Nat : y = r * 4 * lanes + d
    <3>1. y - r * 4 * lanes \in Nat /\ y = r * 4 * lanes + (y - r * 4 * lanes)
      BY <1>5, <1>6, SMT
    <3> QED BY <3>1
  <2>2. y * segment_length = r * 4 * lanes * segment_length + d * segment_length
        /\ d * segment_length \in Nat /\ r * 4 * lanes * segment_length \in Nat
    BY <1>1, <1>6, <2>1, SMT
  <2> QED BY <1>1, <2>2, SMT
<1>9. \A n \in Nat : n * PassSteps = n * 4 * lanes * segment_length
  <2> SUFFICES ASSUME NEW n \in Nat PROVE n * PassSteps = n * 4 * lanes * segment_length
    OBVIOUS
  <2>1. n * 4 * lanes = n * (4 * lanes)
    BY <1>1, SMT
  <2>2. n * (4 * lanes) * segment_length = n * (4 * lanes * segment_length)
    BY <1>1, SMT
  <2>3. 4 * lanes * segment_length = lanes * (4 * segment_length)
    BY <1>1, SMT
  <2> QED BY <2>1, <2>2, <2>3, LaneLength DEF PassSteps
<1>10. r + 1 \in Nat /\ y * segment_length + i \in Nat
  BY <1>1, <1>5, SMT
<1>11. Rank(p) \in Nat /\ r * PassSteps <= Rank(p) /\ Rank(p) < (r + 1) * PassSteps
  BY <1>1, <1>2, <1>7, <1>8, <1>9, <1>10
<1> QED BY <1>11 DEF r

LEMMA NextRank ==
  ASSUME NEW p \in LoopPositions
  PROVE  LET q == NextPosition(p)
         IN  /\ q \in LoopPositions /\ Rank(q) = Rank(p) + 1
             /\ q.pass = p.pass \/ q = At0(p.pass + 1)
<1> DEFINE r == p.pass
           s == p.slice
           l == p.lane
           i == p.index
           q == NextPosition(p)
<1>1. /\ r \in Nat /\ s \in Nat /\ s < 4 /\ l \in Nat /\ l < lanes
      /\ i \in Nat /\ i < segment_length
      /\ lanes \in Nat /\ segment_length \in Nat /\ lanes >= 1 /\ segment_length >= 2
      /\ p = [pass |-> r, slice |-> s, lane |-> l, index |-> i]
  BY LoopPosition, LaneLength
<1>2. Rank(p) = ((r * 4 + s) * lanes + l) * segment_length + i
  BY DEF Rank
<1>3. q = IF i + 1 < segment_length THEN [pass |-> r, slice |-> s, lane |-> l, index |-> i + 1]
          ELSE IF l + 1 < lanes THEN [pass |-> r, slice |-> s, lane |-> l + 1, index |-> 0]
          ELSE IF s + 1 < 4 THEN [pass |-> r, slice |-> s + 1, lane |-> 0, index |-> 0]
          ELSE At0(r + 1)
  BY DEF NextPosition, At0, ARGON2_SYNC_POINTS
<1> HIDE DEF r, s, l, i, q
<1> DEFINE x == r * 4 + s
<1>4. x \in Nat
  BY <1>1, SMT
<1>5. CASE i + 1 < segment_length
  <2>1. q = [pass |-> r, slice |-> s, lane |-> l, index |-> i + 1] /\ i + 1 \in Nat
    BY <1>1, <1>3, <1>5, SMT
  <2>2. q \in LoopPositions
    BY <1>1, <1>5, <2>1, IsLoopPosition
  <2>3. Rank(q) = (x * lanes + l) * segment_length + (i + 1)
    BY <2>1 DEF Rank
  <2> HIDE DEF x
  <2>4. (x * lanes + l) * segment_length \in Nat
    BY <1>1, <1>4, SMT
  <2>5. Rank(q) = Rank(p) + 1
    BY <1>1, <1>2, <2>3, <2>4, SMT DEF x
  <2> QED BY <2>1, <2>2, <2>5 DEF q, r
<1>6. CASE ~ (i + 1 < segment_length) /\ l + 1 < lanes
  <2>1. q = [pass |-> r, slice |-> s, lane |-> l + 1, index |-> 0] /\ l + 1 \in Nat
        /\ 0 \in Nat /\ 0 < segment_length
    BY <1>1, <1>3, <1>6, SMT
  <2>2. q \in LoopPositions
    BY <1>1, <1>6, <2>1, IsLoopPosition
  <2>3. Rank(q) = (x * lanes + (l + 1)) * segment_length + 0
    BY <2>1 DEF Rank
  <2> DEFINE y == x * lanes + l
  <2>4. y \in Nat /\ x * lanes + (l + 1) = y + 1
    BY <1>1, <1>4, SMT
  <2>5. Rank(p) = y * segment_length + i
    BY <1>2
  <2> HIDE DEF x, y
  <2>6. (y + 1) * segment_length = y * segment_length + segment_length /\ y * segment_length \in Nat
    BY <1>1, <2>4, SMT
  <2>7. Rank(q) = Rank(p) + 1
    BY <1>1, <1>6, <2>3, <2>4, <2>5, <2>6, SMT
  <2> QED BY <2>1, <2>2, <2>7 DEF q, r
<1>7. CASE ~ (i + 1 < segment_length) /\ ~ (l + 1 < lanes) /\ s + 1 < 4
  <2>1. q = [pass |-> r, slice |-> s + 1, lane |-> 0, index |-> 0] /\ s + 1 \in Nat
        /\ 0 \in Nat /\ 0 < segment_length /\ 0 < lanes
    BY <1>1, <1>3, <1>7, SMT
  <2>2. q \in LoopPositions
    BY <1>1, <1>7, <2>1, IsLoopPosition
  <2>3. Rank(q) = ((r * 4 + (s + 1)) * lanes + 0) * segment_length + 0
    BY <2>1 DEF Rank
  <2>4. r * 4 + (s + 1) = x + 1
    BY <1>1, SMT
  <2> HIDE DEF x
  <2>5. (x + 1) * lanes + 0 = x * lanes + l + 1 /\ x * lanes + l \in Nat
    BY <1>1, <1>4, <1>7, SMT
  <2>6. Rank(p) = (x * lanes + l) * segment_length + i
    BY <1>2 DEF x
  <2> DEFINE y == x * lanes + l
  <2>7. Rank(p) = y * segment_length + i /\ Rank(q) = (y + 1) * segment_length + 0 /\ y \in Nat
    BY <2>3, <2>4, <2>5, <2>6
  <2> HIDE DEF y
  <2>8. (y + 1) * segment_length = y * segment_length + segment_length /\ y * segment_length \in Nat
    BY <1>1, <2>7, SMT
  <2>9. Rank(q) = Rank(p) + 1
    BY <1>1, <1>7, <2>7, <2>8, SMT
  <2> QED BY <2>1, <2>2, <2>9 DEF q, r
<1>8. CASE ~ (i + 1 < segment_length) /\ ~ (l + 1 < lanes) /\ ~ (s + 1 < 4)
  <2>1. q = At0(r + 1) /\ r + 1 \in Nat /\ s = 3
    BY <1>1, <1>3, <1>8, SMT
  <2>2. q \in LoopPositions
    BY <2>1, At0Rank
  <2>3. Rank(q) = (((r + 1) * 4 + 0) * lanes + 0) * segment_length + 0
    BY <2>1 DEF Rank, At0
  <2>4. (r + 1) * 4 + 0 = x + 1
    BY <1>1, <2>1, SMT
  <2> HIDE DEF x
  <2>5. (x + 1) * lanes + 0 = x * lanes + l + 1 /\ x * lanes + l \in Nat
    BY <1>1, <1>4, <1>8, SMT
  <2>6. Rank(p) = (x * lanes + l) * segment_length + i
    BY <1>2 DEF x
  <2> DEFINE y == x * lanes + l
  <2>7. Rank(p) = y * segment_length + i /\ Rank(q) = (y + 1) * segment_length + 0 /\ y \in Nat
    BY <2>3, <2>4, <2>5, <2>6
  <2> HIDE DEF y
  <2>8. (y + 1) * segment_length = y * segment_length + segment_length /\ y * segment_length \in Nat
    BY <1>1, <2>7, SMT
  <2>9. Rank(q) = Rank(p) + 1
    BY <1>1, <1>8, <2>7, <2>8, SMT
  <2> QED BY <2>1, <2>2, <2>9 DEF q, r
<1> QED BY <1>5, <1>6, <1>7, <1>8

(* After k steps the loops are at the position whose rank is k. *)
LEMMA PositionAfter ==
  ASSUME NEW h
  PROVE  \A k \in Nat : LET p == Loops(h)[k].pos IN p \in LoopPositions /\ Rank(p) = k
<1> DEFINE S == {k \in Nat : Loops(h)[k].pos \in LoopPositions /\ Rank(Loops(h)[k].pos) = k}
<1>1. 0 \in S
  <2>1. Loops(h)[0].pos = At0(0)
    <3>1. Loops(h)[0] = LoopStart(h)
      BY LoopsRecurrence
    <3> QED BY <3>1 DEF LoopStart, At0
  <2>2. 0 \in Nat /\ 0 * PassSteps = 0
    BY LaneLength, SMT DEF PassSteps
  <2> QED BY <2>1, <2>2, At0Rank
<1>2. ASSUME NEW k \in Nat, k \in S PROVE k + 1 \in S
  <2>1. Loops(h)[k + 1].pos = NextPosition(Loops(h)[k].pos)
    <3>1. Loops(h)[k + 1] = LoopStep(Loops(h)[k])
      BY LoopsRecurrence
    <3> QED BY <3>1 DEF LoopStep
  <2>2. k + 1 \in Nat
    BY SMT
  <2> QED BY <1>2, <2>1, <2>2, NextRank
<1> HIDE DEF S
<1>3. \A k \in Nat : k \in S
  BY <1>1, <1>2, NatInductionOnSets
<1> QED BY <1>3 DEF S

(***************************************************************************)
(* What the loops have done to memory after k steps.                         *)
(***************************************************************************)

LoopMemory(h, k) == Loops(h)[k].memory
LoopPos(h, k) == Loops(h)[k].pos

LEMMA LoopState ==
  ASSUME NEW h, NEW k \in Nat
  PROVE  /\ LoopPos(h, k) \in LoopPositions /\ Rank(LoopPos(h, k)) = k
         /\ LoopPos(h, k + 1) = NextPosition(LoopPos(h, k))
         /\ LoopMemory(h, k + 1)
              = IF LoopPos(h, k).index < StartingIndex(LoopPos(h, k).pass, LoopPos(h, k).slice)
                THEN LoopMemory(h, k) ELSE FillAt(LoopMemory(h, k), LoopPos(h, k))
         /\ LoopMemory(h, 0) = FirstMemory(h) /\ LoopPos(h, 0) = At0(0)
<1>1. LoopPos(h, k) \in LoopPositions /\ Rank(LoopPos(h, k)) = k
  BY PositionAfter DEF LoopPos
<1>2. Loops(h)[k + 1] = LoopStep(Loops(h)[k]) /\ Loops(h)[0] = LoopStart(h)
  BY LoopsRecurrence
<1>3. LoopMemory(h, 0) = FirstMemory(h) /\ LoopPos(h, 0) = At0(0)
  BY <1>2 DEF LoopMemory, LoopPos, LoopStart, At0
<1>4. LoopPos(h, k + 1) = NextPosition(LoopPos(h, k))
  BY <1>2 DEF LoopPos, LoopStep
<1>5. LoopMemory(h, k + 1)
        = IF LoopPos(h, k).index < StartingIndex(LoopPos(h, k).pass, LoopPos(h, k).slice)
          THEN LoopMemory(h, k) ELSE FillAt(LoopMemory(h, k), LoopPos(h, k))
  BY <1>2 DEF LoopMemory, LoopPos, LoopStep
<1> QED BY <1>1, <1>3, <1>4, <1>5

(* The blocks of this pass that are computed when the loops are at p. *)
LoopIndex(p) ==
  [l \in Lanes |-> IF l < p.lane THEN segment_length ELSE IF l = p.lane THEN p.index ELSE 0]
Done(p, l, j) == j < Curr(p.slice, LoopIndex(p)[l])

LEMMA LoopIndexRange ==
  ASSUME NEW p \in LoopPositions, NEW l \in Lanes
  PROVE  LoopIndex(p)[l] \in Nat /\ LoopIndex(p)[l] <= segment_length
<1>1. p.index \in Nat /\ p.index <= segment_length
      /\ segment_length \in Nat /\ 0 \in Nat /\ 0 <= segment_length
      /\ segment_length <= segment_length
  BY LoopPosition, LaneLength, SMT
<1> QED BY <1>1 DEF LoopIndex

LEMMA DoneStep ==
  ASSUME NEW p \in LoopPositions, NextPosition(p).pass = p.pass,
         NEW m \in Lanes, NEW j \in Offsets
  PROVE  Done(NextPosition(p), m, j) <=>
           Done(p, m, j) \/ (m = p.lane /\ j = Curr(p.slice, p.index))
<1> DEFINE r == p.pass
           s == p.slice
           l == p.lane
           i == p.index
           q == NextPosition(p)
<1>1. /\ r \in Nat /\ s \in Nat /\ s < 4 /\ l \in Nat /\ l < lanes
      /\ i \in Nat /\ i < segment_length
      /\ lanes \in Nat /\ segment_length \in Nat /\ lanes >= 1 /\ segment_length >= 2
  BY LoopPosition, LaneLength
<1>2. m \in Nat /\ m < lanes /\ j \in Nat
  BY LaneLength, SMT DEF Lanes, Offsets
<1>3. q = IF i + 1 < segment_length THEN [pass |-> r, slice |-> s, lane |-> l, index |-> i + 1]
          ELSE IF l + 1 < lanes THEN [pass |-> r, slice |-> s, lane |-> l + 1, index |-> 0]
          ELSE IF s + 1 < 4 THEN [pass |-> r, slice |-> s + 1, lane |-> 0, index |-> 0]
          ELSE [pass |-> r + 1, slice |-> 0, lane |-> 0, index |-> 0]
  BY DEF NextPosition, ARGON2_SYNC_POINTS
<1>4. \A t : Done(t, m, j) <=>
        j < t.slice * segment_length
            + (IF m < t.lane THEN segment_length ELSE IF m = t.lane THEN t.index ELSE 0)
  BY DEF Done, LoopIndex, Curr
<1>5. q.pass = r /\ Curr(s, i) = s * segment_length + i
  BY DEF Curr
<1>6. Done(p, m, j) <=>
        j < s * segment_length + (IF m < l THEN segment_length ELSE IF m = l THEN i ELSE 0)
  BY <1>4
<1> SUFFICES Done(q, m, j) <=> Done(p, m, j) \/ (m = l /\ j = s * segment_length + i)
  BY <1>5
<1> HIDE DEF r, s, l, i, q
<1> DEFINE b == s * segment_length
<1>7. b \in Nat /\ (s + 1) * segment_length = b + segment_length
  BY <1>1, SMT
<1>8. CASE i + 1 < segment_length
  <2>1. q = [pass |-> r, slice |-> s, lane |-> l, index |-> i + 1]
    BY <1>3, <1>8
  <2>2. Done(q, m, j) <=>
          j < b + (IF m < l THEN segment_length ELSE IF m = l THEN i + 1 ELSE 0)
    BY <1>4, <2>1
  <2> HIDE DEF b
  <2> QED BY <1>1, <1>2, <1>6, <1>7, <1>8, <2>2, SMT DEF b
<1>9. CASE ~ (i + 1 < segment_length) /\ l + 1 < lanes
  <2>1. q = [pass |-> r, slice |-> s, lane |-> l + 1, index |-> 0]
    BY <1>3, <1>9
  <2>2. Done(q, m, j) <=>
          j < b + (IF m < l + 1 THEN segment_length ELSE IF m = l + 1 THEN 0 ELSE 0)
    BY <1>4, <2>1
  <2>3. i = segment_length - 1
    BY <1>1, <1>9, SMT
  <2> HIDE DEF b
  <2> QED BY <1>1, <1>2, <1>6, <1>7, <2>2, <2>3, SMT DEF b
<1>10. CASE ~ (i + 1 < segment_length) /\ ~ (l + 1 < lanes) /\ s + 1 < 4
  <2>1. q = [pass |-> r, slice |-> s + 1, lane |-> 0, index |-> 0]
    BY <1>3, <1>10
  <2>2. Done(q, m, j) <=>
          j < (s + 1) * segment_length
              + (IF m < 0 THEN segment_length ELSE IF m = 0 THEN 0 ELSE 0)
    BY <1>4, <2>1
  <2>3. i = segment_length - 1 /\ l = lanes - 1
    BY <1>1, <1>10, SMT
  <2>4. Done(q, m, j) <=> j < b + segment_length
    BY <1>1, <1>2, <1>7, <2>2, SMT
  <2> HIDE DEF b
  <2> QED BY <1>1, <1>2, <1>6, <1>7, <2>3, <2>4, SMT DEF b
<1>11. CASE ~ (i + 1 < segment_length) /\ ~ (l + 1 < lanes) /\ ~ (s + 1 < 4)
  <2>1. q.pass = r + 1
    BY <1>3, <1>11
  <2> QED BY <1>1, <1>5, <2>1, SMT
<1> QED BY <1>8, <1>9, <1>10, <1>11

(* The blocks that have been computed hold blocks. *)
LoopTyped(mem, p) ==
  /\ mem \in [Lanes -> [Offsets -> Block \union {Garbage}]]
  /\ \A l \in Lanes, j \in Offsets :
       p.pass > 0 \/ j < 2 \/ Done(p, l, j) => mem[l][j] \in Block

LEMMA LoopCurr ==
  ASSUME NEW p \in LoopPositions
  PROVE  LET curr == Curr(p.slice, p.index)
         IN  /\ curr \in Nat /\ curr < lane_length /\ curr \in Offsets
             /\ curr = Curr(p.slice, 0) + p.index /\ Curr(p.slice, 0) \in Nat
             /\ PrevOf(curr) \in Offsets
             /\ PrevOf(curr) = IF curr = 0 THEN lane_length - 1 ELSE curr - 1
             /\ LoopIndex(p)[p.lane] = p.index
<1> DEFINE curr == Curr(p.slice, p.index)
<1>1. p.slice \in Slices /\ p.index \in 0 .. segment_length /\ p.index < segment_length
      /\ p.lane \in Lanes /\ 0 \in 0 .. segment_length
  BY LoopPosition, LaneLength, SMT
<1>2. curr \in Nat /\ curr < lane_length /\ curr = Curr(p.slice, 0) + p.index
      /\ Curr(p.slice, 0) \in Nat
  BY <1>1, CurrInLane
<1> HIDE DEF curr
<1>3. PrevOf(curr) = IF curr = 0 THEN lane_length - 1 ELSE curr - 1
  BY <1>2, PrevInRing
<1>4. PrevOf(curr) \in Offsets /\ curr \in Offsets
  BY <1>2, <1>3, LaneLength, SMT DEF Offsets
<1>5. p.lane \in Nat
  BY LoopPosition
<1>6. LoopIndex(p)[p.lane] = p.index
  <2>1. ~ (p.lane < p.lane)
    BY <1>5, SMT
  <2> QED BY <1>1, <2>1 DEF LoopIndex
<1> QED BY <1>2, <1>3, <1>4, <1>6 DEF curr

(* A step of the loops computes one block, from blocks that are computed. *)
LEMMA LoopFill ==
  ASSUME NEW p \in LoopPositions, p.pass < passes,
         p.index >= StartingIndex(p.pass, p.slice), NEW mem, LoopTyped(mem, p)
  PROVE  LET curr == Curr(p.slice, p.index)
             new == FillAt(mem, p)
         IN  /\ new \in [Lanes -> [Offsets -> Block \union {Garbage}]]
             /\ new[p.lane][curr] \in Block
             /\ \A l \in Lanes, j \in Offsets :
                  ~ (l = p.lane /\ j = curr) => new[l][j] = mem[l][j]
<1> DEFINE curr == Curr(p.slice, p.index)
           before == PrevOf(curr)
           r == Reference(mem, p, before)
           b == NewBlock(mem, p, before, r)
<1>1. /\ curr \in Nat /\ curr < lane_length /\ curr \in Offsets
      /\ curr = Curr(p.slice, 0) + p.index /\ Curr(p.slice, 0) \in Nat
      /\ before \in Offsets /\ before = IF curr = 0 THEN lane_length - 1 ELSE curr - 1
      /\ LoopIndex(p)[p.lane] = p.index
  BY LoopCurr
<1>2. /\ p.pass \in Nat /\ p.slice \in Nat /\ p.index \in Nat
      /\ p.slice < 4 /\ p.index < segment_length
      /\ p.slice \in Slices /\ p.lane \in Lanes
  BY LoopPosition
<1>3. p \in Positions
  <2>1. p.pass \in 0 .. passes - 1 /\ p.index \in 0 .. segment_length
    BY <1>2, LaneLength, SMT
  <2> QED BY <1>2, <2>1, LoopPosition DEF Positions
<1>4. mem \in [Lanes -> [Offsets -> Block \union {Garbage}]]
  BY DEF LoopTyped
<1>5. /\ r \in [lane : Lanes, offset : Offsets]
      /\ IF r.lane = p.lane
         THEN p.pass = 0 => r.offset < curr
         ELSE p.pass = 0 => r.offset < Curr(p.slice, 0)
  <2> HIDE DEF before
  <2> QED BY <1>1, <1>2, <1>3, <1>4, ReferenceLegal
<1>6. mem[r.lane][r.offset] \in Block
  <2> HIDE DEF r
  <2>1. r.lane \in Lanes /\ r.offset \in Offsets
    BY <1>5
  <2>2. CASE p.pass > 0
    BY <2>1, <2>2 DEF LoopTyped
  <2>3. CASE p.pass = 0
    <3>1. r.lane = p.lane => Done(p, r.lane, r.offset)
      BY <1>1, <1>5, <2>3 DEF Done
    <3>2. r.lane # p.lane => r.offset < Curr(p.slice, 0)
      BY <1>5, <2>3
    <3>3. \A n \in Nat : r.offset < Curr(p.slice, 0) => r.offset < Curr(p.slice, n)
      <4>1. r.offset \in Nat
        BY <2>1, LaneLength, SMT DEF Offsets
      <4>2. p.slice * segment_length \in Nat
        BY <1>2, LaneLength, SMT
      <4> QED BY <4>1, <4>2, SMT DEF Curr
    <3>4. r.lane # p.lane => Done(p, r.lane, r.offset)
      BY <2>1, <3>2, <3>3, LoopIndexRange DEF Done
    <3> QED BY <2>1, <3>1, <3>4 DEF LoopTyped
  <2> QED BY <1>2, <2>2, <2>3, SMT
<1>7. mem[p.lane][before] \in Block
  <2>1. CASE p.pass > 0
    BY <1>1, <1>2, <2>1 DEF LoopTyped
  <2>2. CASE p.pass = 0
    <3>1. curr # 0
      <4>1. CASE p.slice = 0
        BY <1>1, <1>2, <2>2, <4>1, SMT DEF StartingIndex
      <4>2. CASE p.slice # 0
        <5>1. p.slice * segment_length >= segment_length
          <6>1. p.slice \in {1, 2, 3}
            BY <1>2, <4>2, SMT
          <6> QED BY <6>1, LaneLength, SMT
        <5>2. Curr(p.slice, 0) = p.slice * segment_length + 0
          BY DEF Curr
        <5> QED BY <1>1, <1>2, <5>1, <5>2, LaneLength, SMT
      <4> QED BY <4>1, <4>2
    <3> HIDE DEF curr, before
    <3>2. before < curr
      BY <1>1, <3>1, SMT
    <3>3. Done(p, p.lane, before)
      BY <1>1, <3>2 DEF Done, curr
    <3> QED BY <1>1, <1>2, <3>3 DEF LoopTyped
  <2> QED BY <1>2, <2>1, <2>2, SMT
<1>8. b \in Block
  <2> DEFINE g == Compress(mem[p.lane][before], mem[r.lane][r.offset])
  <2>1. g \in Block
    BY <1>6, <1>7, BlockAssumption
  <2>2. p.pass # 0 => mem[p.lane][curr] \in Block
    <3>1. p.pass # 0 => p.pass > 0
      BY <1>2, SMT
    <3> QED BY <1>1, <1>2, <3>1 DEF LoopTyped
  <2>3. b = IF WithXor(p.pass) THEN Xor(g, mem[p.lane][curr]) ELSE g
    BY DEF NewBlock
  <2> HIDE DEF b, g, curr
  <2> QED BY <2>1, <2>2, <2>3, BlockAssumption DEF WithXor
<1>9. FillAt(mem, p) = [mem EXCEPT ![p.lane][curr] = b]
  BY DEF FillAt
<1> HIDE DEF b, r, before, curr
<1>10. /\ FillAt(mem, p) \in [Lanes -> [Offsets -> Block \union {Garbage}]]
       /\ FillAt(mem, p)[p.lane][curr] \in Block
       /\ \A l \in Lanes, j \in Offsets :
            ~ (l = p.lane /\ j = curr) => FillAt(mem, p)[l][j] = mem[l][j]
  BY <1>1, <1>2, <1>4, <1>8, <1>9
<1> QED BY <1>10 DEF curr

(* At the last position of a pass all blocks but one are computed. *)
LEMMA LastOfPass ==
  ASSUME NEW p \in LoopPositions, NextPosition(p).pass # p.pass,
         NEW m \in Lanes, NEW j \in Offsets
  PROVE  Done(p, m, j) \/ (m = p.lane /\ j = Curr(p.slice, p.index))
<1>1. /\ p.slice \in Nat /\ p.slice < 4 /\ p.lane \in Nat /\ p.lane < lanes
      /\ p.index \in Nat /\ p.index < segment_length
      /\ lanes \in Nat /\ segment_length \in Nat /\ segment_length >= 2
  BY LoopPosition, LaneLength
<1>2. ~ (p.index + 1 < segment_length) /\ ~ (p.lane + 1 < lanes) /\ ~ (p.slice + 1 < 4)
  BY DEF NextPosition, ARGON2_SYNC_POINTS
<1>3. p.index = segment_length - 1 /\ p.lane = lanes - 1 /\ p.slice = 3
  BY <1>1, <1>2, SMT
<1>4. m \in Nat /\ m < lanes /\ j \in Nat /\ j < 4 * segment_length
  BY LaneLength, SMT DEF Lanes, Offsets
<1>5. Done(p, m, j) <=>
        j < 3 * segment_length
            + (IF m < p.lane THEN segment_length ELSE IF m = p.lane THEN p.index ELSE 0)
  BY <1>3 DEF Done, LoopIndex, Curr
<1>6. Curr(p.slice, p.index) = 3 * segment_length + p.index
  BY <1>3 DEF Curr
<1>7. m < p.lane \/ m = p.lane
  BY <1>3, <1>4, <1>1, SMT
<1> QED BY <1>1, <1>3, <1>4, <1>5, <1>6, <1>7, SMT

LEMMA LoopEnd ==
  ASSUME NEW h, NEW k \in Nat, NEW r \in Nat,
         k < r * PassSteps, LoopPos(h, k).pass >= r
  PROVE  FALSE
<1> DEFINE p == LoopPos(h, k)
<1>1. p \in LoopPositions /\ Rank(p) = k
  BY LoopState
<1> HIDE DEF p
<1>2. p.pass * PassSteps <= k /\ p.pass \in Nat
  BY <1>1, RankBelow, LoopPosition
<1>3. p.pass >= r
  BY DEF p
<1>4. PassSteps \in Nat
  BY LaneLength, SMT DEF PassSteps
<1>5. PICK d \in Nat : p.pass = r + d
  <2>1. p.pass - r \in Nat /\ p.pass = r + (p.pass - r)
    BY <1>2, <1>3, SMT
  <2> QED BY <2>1
<1>6. (r + d) * PassSteps = r * PassSteps + d * PassSteps
      /\ r * PassSteps \in Nat /\ d * PassSteps \in Nat
  BY <1>4, SMT
<1> QED BY <1>2, <1>5, <1>6, SMT

(* Before step r * PassSteps the loops are in an earlier pass. *)
LEMMA BeforePass ==
  ASSUME NEW h, NEW k \in Nat, NEW r \in Nat, k < r * PassSteps
  PROVE  LoopPos(h, k).pass < r
<1>1. LoopPos(h, k).pass \in Nat
  BY LoopState, LoopPosition
<1> QED BY <1>1, LoopEnd, SMT

(* The last step of a pass leads to its end. *)
LEMMA AtPassEnd ==
  ASSUME NEW h, NEW k \in Nat, LoopPos(h, k + 1).pass # LoopPos(h, k).pass
  PROVE  k + 1 = (LoopPos(h, k).pass + 1) * PassSteps
         /\ LoopPos(h, k + 1).pass = LoopPos(h, k).pass + 1
<1> DEFINE p == LoopPos(h, k)
           q == LoopPos(h, k + 1)
<1>1. p \in LoopPositions /\ Rank(p) = k /\ q = NextPosition(p)
  BY LoopState
<1>2. p.pass \in Nat /\ p.pass + 1 \in Nat
  BY <1>1, LoopPosition, SMT
<1>3. Rank(q) = k + 1 /\ q = At0(p.pass + 1)
  BY <1>1, NextRank
<1> QED BY <1>2, <1>3, At0Rank DEF At0

LEMMA LoopsTyped ==
  ASSUME NEW h \in Seed
  PROVE  \A k \in Nat : k <= passes * PassSteps => LoopTyped(LoopMemory(h, k), LoopPos(h, k))
<1> DEFINE S == {k \in Nat : k <= passes * PassSteps =>
                               LoopTyped(LoopMemory(h, k), LoopPos(h, k))}
<1>1. 0 \in S
  <2>1. LoopMemory(h, 0) = FirstMemory(h) /\ LoopPos(h, 0) = At0(0)
    BY LoopState
  <2>2. ASSUME NEW l \in Lanes, NEW j \in Offsets
        PROVE  FirstMemory(h)[l][j] = IF j < 2 THEN FirstBlock(h, l, j) ELSE Garbage
    BY DEF FirstMemory
  <2>3. ASSUME NEW l \in Lanes, NEW j \in Offsets, j < 2
        PROVE  FirstBlock(h, l, j) \in Block
    <3>1. j \in {0, 1}
      BY <2>3, LaneLength, SMT DEF Offsets
    <3> QED BY <3>1, BlockAssumption
  <2>4. FirstMemory(h) \in [Lanes -> [Offsets -> Block \union {Garbage}]]
    BY <2>3 DEF FirstMemory
  <2>5. ASSUME NEW l \in Lanes, NEW j \in Offsets PROVE ~ Done(At0(0), l, j)
    <3>1. LoopIndex(At0(0))[l] = IF l < 0 THEN segment_length ELSE IF l = 0 THEN 0 ELSE 0
      BY DEF LoopIndex, At0
    <3>2. ~ (l < 0) /\ j \in Nat
      BY LaneLength, SMT DEF Lanes, Offsets
    <3>3. Curr(0, 0) = 0
      BY LaneLength, SMT DEF Curr
    <3> QED BY <3>1, <3>2, <3>3, SMT DEF Done, At0
  <2>6. LoopTyped(FirstMemory(h), At0(0))
    <3>1. ~ (At0(0).pass > 0)
      BY SMT DEF At0
    <3> QED BY <2>2, <2>3, <2>4, <2>5, <3>1 DEF LoopTyped
  <2>7. 0 \in Nat
    BY SMT
  <2> QED BY <2>1, <2>6, <2>7
<1>2. ASSUME NEW k \in Nat, k \in S PROVE k + 1 \in S
  <2> DEFINE p == LoopPos(h, k)
             q == LoopPos(h, k + 1)
             mem == LoopMemory(h, k)
             new == LoopMemory(h, k + 1)
  <2> SUFFICES ASSUME k + 1 <= passes * PassSteps PROVE LoopTyped(new, q)
    BY SMT
  <2>1. k < passes * PassSteps /\ k <= passes * PassSteps
    BY LaneLength, SMT DEF PassSteps
  <2>2. LoopTyped(mem, p)
    BY <1>2, <2>1
  <2>3. p \in LoopPositions /\ q = NextPosition(p) /\ p.pass \in Nat
        /\ p.lane \in Lanes /\ p.index \in Nat
    BY LoopState, LoopPosition
  <2>4. p.pass < passes
    BY <2>1, BeforePass, LaneLength
  <2>5. new = IF p.index < StartingIndex(p.pass, p.slice) THEN mem ELSE FillAt(mem, p)
    BY LoopState
  <2> DEFINE curr == Curr(p.slice, p.index)
  <2>6. curr \in Nat /\ curr \in Offsets
    BY <2>3, LoopCurr
  <2> HIDE DEF p, q, mem, new
  <2>7. /\ new \in [Lanes -> [Offsets -> Block \union {Garbage}]]
        /\ new[p.lane][curr] \in Block
        /\ \A l \in Lanes, j \in Offsets :
             ~ (l = p.lane /\ j = curr) => new[l][j] = mem[l][j]
    <3>1. CASE p.index < StartingIndex(p.pass, p.slice)
      <4>1. new = mem
        BY <2>5, <3>1
      <4>2. curr < 2
        <5>1. p.slice = 0 /\ p.index < 2
          BY <2>3, <3>1, SMT DEF StartingIndex
        <5> QED BY <2>3, <5>1, LaneLength, SMT DEF Curr
      <4> QED BY <2>2, <2>3, <2>6, <4>1, <4>2 DEF LoopTyped
    <3>2. CASE ~ (p.index < StartingIndex(p.pass, p.slice))
      <4>1. p.index >= StartingIndex(p.pass, p.slice)
        BY <2>3, <3>2, SMT DEF StartingIndex
      <4>2. new = FillAt(mem, p)
        BY <2>5, <3>2
      <4> QED BY <2>2, <2>3, <2>4, <4>1, <4>2, LoopFill
    <3> QED BY <3>1, <3>2
  <2>8. ASSUME NEW l \in Lanes, NEW j \in Offsets, q.pass > 0 \/ j < 2 \/ Done(q, l, j)
        PROVE  p.pass > 0 \/ j < 2 \/ Done(p, l, j) \/ (l = p.lane /\ j = curr)
               \/ (p.pass = 0 /\ q.pass > 0)
    <3>1. CASE q.pass > 0
      BY <2>3, <3>1, SMT
    <3>2. CASE Done(q, l, j) /\ q.pass = p.pass
      BY <2>3, <3>2, DoneStep
    <3>3. CASE q.pass # p.pass
      <4>1. q.pass = p.pass + 1
        BY <3>3, AtPassEnd DEF p, q
      <4> QED BY <2>3, <4>1, SMT
    <3> QED BY <2>8, <3>1, <3>2, <3>3
  <2>9. ASSUME p.pass = 0, q.pass > 0, NEW l \in Lanes, NEW j \in Offsets
        PROVE  Done(p, l, j) \/ (l = p.lane /\ j = curr)
    <3>1. q.pass # p.pass
      BY <2>3, <2>9, SMT
    <3> QED BY <2>3, <3>1, LastOfPass
  <2> QED BY <2>2, <2>7, <2>8, <2>9 DEF LoopTyped
<1> HIDE DEF S
<1>3. \A k \in Nat : k \in S
  BY <1>1, <1>2, NatInductionOnSets
<1> QED BY <1>3 DEF S

(***************************************************************************)
(* The memories after each pass solve the equations.                         *)
(***************************************************************************)

LEMMA PassMemory ==
  ASSUME NEW h, NEW r \in 0 .. passes
  PROVE  /\ PassMemories(h)[r] = LoopMemory(h, r * PassSteps)
         /\ r \in Nat /\ r * PassSteps \in Nat /\ r * PassSteps <= passes * PassSteps
<1>1. r \in Nat /\ PassSteps \in Nat /\ r <= passes
  BY LaneLength, SMT DEF PassSteps
<1>2. r * PassSteps \in Nat
  BY <1>1, SMT
<1>3. r * PassSteps <= passes * PassSteps
  <2>1. PICK d \in Nat : passes = r + d
    <3>1. passes - r \in Nat /\ passes = r + (passes - r)
      BY <1>1, LaneLength, SMT
    <3> QED BY <3>1
  <2>2. (r + d) * PassSteps = r * PassSteps + d * PassSteps /\ d * PassSteps \in Nat
    BY <1>1, SMT
  <2> QED BY <1>2, <2>1, <2>2, SMT
<1>4. PassMemories(h)[r] = LoopMemory(h, r * PassSteps)
  BY DEF PassMemories, LoopMemory, PassSteps
<1> QED BY <1>1, <1>2, <1>3, <1>4

(* A step of the loops writes at most the block at its position. *)
LEMMA LoopChanges ==
  ASSUME NEW h \in Seed, NEW k \in Nat, k < passes * PassSteps
  PROVE  LET p == LoopPos(h, k)
         IN  /\ p \in LoopPositions /\ p.pass < passes
             /\ LoopTyped(LoopMemory(h, k), p)
             /\ \A l \in Lanes, j \in Offsets :
                  ~ (l = p.lane /\ j = Curr(p.slice, p.index)) =>
                    LoopMemory(h, k + 1)[l][j] = LoopMemory(h, k)[l][j]
<1> DEFINE p == LoopPos(h, k)
           mem == LoopMemory(h, k)
           new == LoopMemory(h, k + 1)
<1>1. k <= passes * PassSteps
  BY LaneLength, SMT DEF PassSteps
<1>2. p \in LoopPositions /\ p.index \in Nat
  BY LoopState, LoopPosition
<1>3. p.pass < passes
  BY BeforePass, LaneLength
<1>4. LoopTyped(mem, p)
  BY <1>1, LoopsTyped
<1>5. new = IF p.index < StartingIndex(p.pass, p.slice) THEN mem ELSE FillAt(mem, p)
  BY LoopState
<1> HIDE DEF p, mem, new
<1>6. p.index < StartingIndex(p.pass, p.slice) \/ p.index >= StartingIndex(p.pass, p.slice)
  BY <1>2, SMT DEF StartingIndex
<1>7. \A l \in Lanes, j \in Offsets :
        ~ (l = p.lane /\ j = Curr(p.slice, p.index)) => new[l][j] = mem[l][j]
  <2>1. CASE p.index < StartingIndex(p.pass, p.slice)
    BY <1>5, <2>1
  <2>2. CASE ~ (p.index < StartingIndex(p.pass, p.slice))
    BY <1>2, <1>3, <1>4, <1>5, <1>6, <2>2, LoopFill
  <2> QED BY <2>1, <2>2
<1> QED BY <1>2, <1>3, <1>4, <1>7 DEF p, mem, new

(* A block that this pass has not computed yet is as the last pass left it. *)
LEMMA NotDoneYet ==
  ASSUME NEW h \in Seed
  PROVE  \A k \in Nat : k <= passes * PassSteps =>
           \A l \in Lanes, j \in Offsets :
             ~ Done(LoopPos(h, k), l, j) =>
               LoopMemory(h, k)[l][j] = PassMemories(h)[LoopPos(h, k).pass][l][j]
<1> DEFINE G(k) == k <= passes * PassSteps =>
             \A l \in Lanes, j \in Offsets :
               ~ Done(LoopPos(h, k), l, j) =>
                 LoopMemory(h, k)[l][j] = PassMemories(h)[LoopPos(h, k).pass][l][j]
           S == {k \in Nat : G(k)}
<1>1. 0 \in S
  <2>1. LoopPos(h, 0).pass = 0
    BY LoopState DEF At0
  <2>2. 0 \in 0 .. passes /\ 0 * PassSteps = 0 /\ 0 \in Nat
    BY LaneLength, SMT DEF PassSteps
  <2>3. PassMemories(h)[0] = LoopMemory(h, 0)
    BY <2>2, PassMemory
  <2> QED BY <2>1, <2>2, <2>3
<1>2. ASSUME NEW k \in Nat, k \in S PROVE k + 1 \in S
  <2> DEFINE p == LoopPos(h, k)
             q == LoopPos(h, k + 1)
  <2> SUFFICES ASSUME k + 1 <= passes * PassSteps, NEW l \in Lanes, NEW j \in Offsets,
                      ~ Done(q, l, j)
               PROVE  LoopMemory(h, k + 1)[l][j] = PassMemories(h)[q.pass][l][j]
    BY SMT
  <2>1. k < passes * PassSteps /\ k <= passes * PassSteps
    BY LaneLength, SMT DEF PassSteps
  <2>2. p \in LoopPositions /\ q = NextPosition(p) /\ p.pass \in Nat /\ p.pass < passes
    BY <2>1, LoopState, LoopPosition, LoopChanges
  <2>3. CASE q.pass = p.pass
    <3>1. ~ Done(p, l, j) /\ ~ (l = p.lane /\ j = Curr(p.slice, p.index))
      <4> HIDE DEF p, q
      <4> QED BY <2>2, <2>3, DoneStep
    <3>2. LoopMemory(h, k + 1)[l][j] = LoopMemory(h, k)[l][j]
      BY <2>1, <3>1, LoopChanges
    <3>3. LoopMemory(h, k)[l][j] = PassMemories(h)[p.pass][l][j]
      BY <1>2, <2>1, <3>1
    <3> QED BY <2>3, <3>2, <3>3
  <2>4. CASE q.pass # p.pass
    <3>1. k + 1 = (p.pass + 1) * PassSteps /\ q.pass = p.pass + 1
      BY <2>4, AtPassEnd
    <3>2. p.pass + 1 \in 0 .. passes
      BY <2>2, LaneLength, SMT
    <3>3. PassMemories(h)[p.pass + 1] = LoopMemory(h, k + 1)
      BY <3>1, <3>2, PassMemory
    <3> QED BY <3>1, <3>3
  <2> QED BY <2>3, <2>4
<1> HIDE DEF S
<1>3. \A k \in Nat : k \in S
  BY <1>1, <1>2, NatInductionOnSets
<1> QED BY <1>3 DEF S

(* A block that this pass has computed is as this pass will leave it. *)
LEMMA DoneForGood ==
  ASSUME NEW h \in Seed
  PROVE  \A k \in Nat : LoopPos(h, k).pass < passes =>
           \A l \in Lanes, j \in Offsets :
             Done(LoopPos(h, k), l, j) =>
               LoopMemory(h, k)[l][j] = PassMemories(h)[LoopPos(h, k).pass + 1][l][j]
<1> DEFINE G(k) == \A l \in Lanes, j \in Offsets :
             Done(LoopPos(h, k), l, j) =>
               LoopMemory(h, k)[l][j] = PassMemories(h)[LoopPos(h, k).pass + 1][l][j]
           S == {n \in Nat : \A k \in Nat :
                   LoopPos(h, k).pass < passes
                   /\ k + n = (LoopPos(h, k).pass + 1) * PassSteps => G(k)}
<1>1. \A k \in Nat : /\ LoopPos(h, k).pass \in Nat
                     /\ (LoopPos(h, k).pass + 1) * PassSteps \in Nat
                     /\ k < (LoopPos(h, k).pass + 1) * PassSteps
  <2> SUFFICES ASSUME NEW k \in Nat
               PROVE  /\ LoopPos(h, k).pass \in Nat
                      /\ (LoopPos(h, k).pass + 1) * PassSteps \in Nat
                      /\ k < (LoopPos(h, k).pass + 1) * PassSteps
    OBVIOUS
  <2> DEFINE p == LoopPos(h, k)
  <2>1. p \in LoopPositions /\ Rank(p) = k
    BY LoopState
  <2> HIDE DEF p
  <2>2. p.pass \in Nat /\ k < (p.pass + 1) * PassSteps
    BY <2>1, RankBelow, LoopPosition
  <2>3. (p.pass + 1) * PassSteps \in Nat
    BY <2>2, LaneLength, SMT DEF PassSteps
  <2> QED BY <2>2, <2>3 DEF p
<1>2. 0 \in S
  <2>1. \A k \in Nat : k + 0 # (LoopPos(h, k).pass + 1) * PassSteps
    BY <1>1, SMT
  <2>2. 0 \in Nat
    BY SMT
  <2> HIDE DEF G
  <2> QED BY <2>1, <2>2
<1>3. ASSUME NEW n \in Nat, n \in S PROVE n + 1 \in S
  <2>1. n + 1 \in Nat
    BY SMT
  <2> SUFFICES ASSUME NEW k \in Nat, LoopPos(h, k).pass < passes,
                      k + (n + 1) = (LoopPos(h, k).pass + 1) * PassSteps,
                      NEW l \in Lanes, NEW j \in Offsets, Done(LoopPos(h, k), l, j)
               PROVE  LoopMemory(h, k)[l][j] = PassMemories(h)[LoopPos(h, k).pass + 1][l][j]
    BY <2>1
  <2> DEFINE p == LoopPos(h, k)
             q == LoopPos(h, k + 1)
  <2>2. p \in LoopPositions /\ q = NextPosition(p) /\ p.pass \in Nat /\ k + 1 \in Nat
        /\ p.index \in Nat
    BY LoopState, LoopPosition, SMT
  <2>3. p.pass + 1 \in 0 .. passes
    BY <2>2, LaneLength, SMT
  <2>4. k < passes * PassSteps
    <3>1. k < (p.pass + 1) * PassSteps
      BY <1>1
    <3>2. (p.pass + 1) * PassSteps \in Nat /\ (p.pass + 1) * PassSteps <= passes * PassSteps
      BY <2>3, PassMemory
    <3>3. passes * PassSteps \in Nat
      BY LaneLength, SMT DEF PassSteps
    <3> HIDE DEF p
    <3> QED BY <3>1, <3>2, <3>3, SMT
  <2>5. ~ (l = p.lane /\ j = Curr(p.slice, p.index))
    <3> HIDE DEF p, q
    <3>1. LoopIndex(p)[p.lane] = p.index /\ Curr(p.slice, p.index) \in Nat
      BY <2>2, LoopCurr
    <3>2. ~ (Curr(p.slice, p.index) < Curr(p.slice, p.index))
      BY <3>1, SMT
    <3>3. Done(p, l, j)
      BY DEF p
    <3> QED BY <3>1, <3>2, <3>3 DEF Done
  <2>6. LoopMemory(h, k + 1)[l][j] = LoopMemory(h, k)[l][j]
    BY <2>4, <2>5, LoopChanges
  <2>7. CASE q.pass = p.pass
    <3>1. Done(q, l, j)
      <4>1. Done(p, l, j)
        OBVIOUS
      <4> HIDE DEF p, q
      <4> QED BY <2>2, <2>7, <4>1, DoneStep
    <3>2. (k + 1) + n = (q.pass + 1) * PassSteps /\ q.pass < passes
      <4>1. (k + 1) + n = k + (n + 1)
        BY SMT
      <4> QED BY <2>7, <4>1
    <3>3. G(k + 1)
      BY <1>3, <2>2, <3>2
    <3> QED BY <2>6, <2>7, <3>1, <3>3
  <2>8. CASE q.pass # p.pass
    <3>1. k + 1 = (p.pass + 1) * PassSteps
      BY <2>8, AtPassEnd
    <3>2. PassMemories(h)[p.pass + 1] = LoopMemory(h, k + 1)
      BY <2>3, <3>1, PassMemory
    <3> QED BY <2>6, <3>2
  <2> QED BY <2>7, <2>8
<1> HIDE DEF S
<1>4. \A n \in Nat : n \in S
  BY <1>2, <1>3, NatInductionOnSets
<1>5. ASSUME NEW k \in Nat, LoopPos(h, k).pass < passes PROVE G(k)
  <2> DEFINE e == (LoopPos(h, k).pass + 1) * PassSteps
  <2>1. e - k \in Nat /\ k + (e - k) = e
    <3>1. e \in Nat /\ k < e
      BY <1>1
    <3> HIDE DEF e
    <3> QED BY <3>1, SMT
  <2>2. e - k \in S
    BY <1>4, <2>1
  <2> HIDE DEF G
  <2> QED BY <1>5, <2>1, <2>2 DEF S
<1> QED BY <1>5

(* The blocks that come from the initial hash stay in the first pass. *)
LEMMA FirstBlocksStay ==
  ASSUME NEW h \in Seed
  PROVE  \A k \in Nat : k <= 1 * PassSteps =>
           \A l \in Lanes, j \in {0, 1} : LoopMemory(h, k)[l][j] = FirstMemory(h)[l][j]
<1> DEFINE G(k) == k <= 1 * PassSteps =>
             \A l \in Lanes, j \in {0, 1} : LoopMemory(h, k)[l][j] = FirstMemory(h)[l][j]
           S == {k \in Nat : G(k)}
<1>1. 0 \in S
  <2>1. 0 \in Nat
    BY SMT
  <2>2. LoopMemory(h, 0) = FirstMemory(h)
    BY <2>1, LoopState
  <2> QED BY <2>1, <2>2
<1>2. ASSUME NEW k \in Nat, k \in S PROVE k + 1 \in S
  <2> DEFINE p == LoopPos(h, k)
             curr == Curr(p.slice, p.index)
  <2> SUFFICES ASSUME k + 1 <= 1 * PassSteps, NEW l \in Lanes, NEW j \in {0, 1}
               PROVE  LoopMemory(h, k + 1)[l][j] = FirstMemory(h)[l][j]
    BY SMT
  <2>1. PassSteps \in Nat /\ k < 1 * PassSteps /\ k <= 1 * PassSteps
    BY LaneLength, SMT DEF PassSteps
  <2>2. LoopMemory(h, k)[l][j] = FirstMemory(h)[l][j]
    BY <1>2, <2>1
  <2>3. k < passes * PassSteps
    <3>1. 1 \in 0 .. passes
      BY LaneLength, SMT
    <3>2. 1 * PassSteps <= passes * PassSteps /\ passes * PassSteps \in Nat
      <4>1. passes * PassSteps \in Nat
        BY <2>1, LaneLength, SMT
      <4> QED BY <3>1, <4>1, PassMemory
    <3> QED BY <2>1, <3>2, SMT
  <2>4. p \in LoopPositions /\ p.pass \in Nat /\ p.slice \in Nat /\ p.index \in Nat
        /\ p.lane \in Lanes
    BY LoopState, LoopPosition
  <2>5. p.pass = 0
    <3>1. p.pass < 1
      BY <2>1, BeforePass
    <3> QED BY <2>4, <3>1, SMT
  <2>6. j \in Offsets
    BY LaneLength, SMT DEF Offsets
  <2>7. CASE p.index < StartingIndex(p.pass, p.slice)
    <3>1. LoopMemory(h, k + 1) = LoopMemory(h, k)
      BY <2>7, LoopState
    <3> QED BY <2>2, <3>1
  <2>8. CASE ~ (p.index < StartingIndex(p.pass, p.slice))
    <3>1. j # curr
      <4>1. CASE p.slice = 0
        <5>1. ~ (p.index < 2)
          BY <2>5, <2>8, <4>1 DEF StartingIndex
        <5> HIDE DEF p
        <5> QED BY <2>4, <4>1, <5>1, LaneLength, SMT DEF Curr
      <4>2. CASE p.slice # 0
        <5> HIDE DEF p
        <5>1. PICK d \in Nat : p.slice = d + 1
          <6>1. p.slice - 1 \in Nat /\ p.slice = (p.slice - 1) + 1
            BY <2>4, <4>2, SMT
          <6> QED BY <6>1
        <5>2. (d + 1) * segment_length = d * segment_length + segment_length
              /\ d * segment_length \in Nat
          BY LaneLength, SMT
        <5> QED BY <2>4, <5>1, <5>2, LaneLength, SMT DEF Curr
      <4> QED BY <4>1, <4>2
    <3>2. LoopMemory(h, k + 1)[l][j] = LoopMemory(h, k)[l][j]
      BY <2>3, <2>6, <3>1, LoopChanges
    <3> QED BY <2>2, <3>2
  <2> QED BY <2>7, <2>8
<1> HIDE DEF S
<1>3. \A k \in Nat : k \in S
  BY <1>1, <1>2, NatInductionOnSets
<1> QED BY <1>3 DEF S

(* What a segment computes does not depend on how far the other lanes are in
   the same slice.                                                          *)
LEMMA ScheduleFree ==
  ASSUME NEW v, NEW p \in Positions, p.index < segment_length,
         p.index >= StartingIndex(p.pass, p.slice),
         NEW index, \A m \in Lanes : index[m] \in Nat /\ index[m] <= segment_length,
         index[p.lane] = p.index,
         NEW mem \in [Lanes -> [Offsets -> Block \union {Garbage}]],
         mem = Progress(v, p.pass, p.slice, index)
  PROVE  LET curr == Curr(p.slice, p.index)
             before == PrevOf(curr)
         IN  FillAt(Seen(v, p), p)[p.lane][curr]
               = NewBlock(mem, p, before, Reference(mem, p, before))
<1> DEFINE curr == Curr(p.slice, p.index)
           before == PrevOf(curr)
           seen == Seen(v, p)
           r == Reference(mem, p, before)
<1>1. p.lane \in Lanes /\ p.slice \in Slices /\ p.slice \in Nat
  BY SMT DEF Positions, Slices, ARGON2_SYNC_POINTS
<1>2. curr \in Offsets /\ before \in Offsets
  <2>1. curr \in Nat /\ curr < lane_length
    BY <1>1, CurrInLane DEF Positions
  <2>2. before = IF curr = 0 THEN lane_length - 1 ELSE curr - 1
    BY <2>1, LaneLength, SMT DEF PrevOf
  <2> HIDE DEF curr, before
  <2> QED BY <2>1, <2>2, LaneLength, SMT DEF Offsets
<1>3. /\ r.lane \in Lanes /\ r.offset \in Offsets
      /\ r.lane # p.lane => \A i \in 0 .. segment_length - 1 : r.offset # Curr(p.slice, i)
  BY <1>2, ReferenceLegal
<1>4. mem[p.lane] = seen[p.lane]
  BY <1>1 DEF Progress, Seen
<1>5. mem[r.lane][r.offset] = seen[r.lane][r.offset]
  <2>1. CASE r.lane = p.lane
    <3> HIDE DEF r, seen
    <3> QED BY <1>4, <2>1
  <2>2. CASE r.lane # p.lane
    <3>1. r.offset < Curr(p.slice, index[r.lane]) <=> r.offset < Curr(p.slice, 0)
      <4> DEFINE o == r.offset
                 n == index[r.lane]
                 slice0 == p.slice * segment_length
      <4>1. n \in Nat /\ n <= segment_length /\ o \in Nat
        BY <1>3, LaneLength, SMT DEF Offsets
      <4>2. slice0 \in Nat /\ \A i : Curr(p.slice, i) = slice0 + i
        BY <1>1, LaneLength, SMT DEF Curr
      <4>3. \A i \in 0 .. segment_length - 1 : o # Curr(p.slice, i)
        BY <1>3, <2>2
      <4> HIDE DEF o, n, slice0
      <4>4. ASSUME o < slice0 + n, ~ (o < slice0) PROVE FALSE
        <5> DEFINE i == o - slice0
        <5>1. i \in 0 .. segment_length - 1 /\ slice0 + i = o
          BY <4>1, <4>2, <4>4, LaneLength, SMT
        <5> HIDE DEF i
        <5> QED BY <4>2, <4>3, <5>1
      <4>5. o < slice0 => o < slice0 + n
        BY <4>1, <4>2, SMT
      <4>6. slice0 + 0 = slice0
        BY <4>2, SMT
      <4> QED BY <4>2, <4>4, <4>5, <4>6 DEF o, n
    <3>2. mem[r.lane][r.offset]
            = v[IF r.offset < Curr(p.slice, index[r.lane]) THEN p.pass + 1 ELSE p.pass]
               [r.lane][r.offset]
      BY <1>3 DEF Progress
    <3>3. seen[r.lane][r.offset]
            = v[IF r.offset < Curr(p.slice, 0) THEN p.pass + 1 ELSE p.pass][r.lane][r.offset]
      BY <1>3, <2>2 DEF Progress, Seen
    <3> HIDE DEF r, seen
    <3> QED BY <3>1, <3>2, <3>3
  <2> QED BY <2>1, <2>2
<1>6. Reference(seen, p, before) = r
  <2>1. PseudoRand(seen, p, before) = PseudoRand(mem, p, before)
    BY <1>4 DEF PseudoRand
  <2> HIDE DEF seen, before
  <2> QED BY <2>1 DEF Reference, r
<1>7. seen \in [Lanes -> [Offsets -> {seen[m][j] : m \in Lanes, j \in Offsets}]]
  <2>1. seen = [m \in Lanes |-> [j \in Offsets |-> seen[m][j]]]
    BY DEF Seen, Progress
  <2> HIDE DEF seen
  <2> QED BY <2>1
<1>8. FillAt(seen, p)[p.lane][curr] = NewBlock(seen, p, before, r)
  <2> HIDE DEF seen, r
  <2> QED BY <1>1, <1>2, <1>6, <1>7 DEF FillAt
<1>9. NewBlock(seen, p, before, r) = NewBlock(mem, p, before, r)
  <2> HIDE DEF seen, r
  <2> QED BY <1>4, <1>5 DEF NewBlock
<1> QED BY <1>8, <1>9

(* The block that the loops compute at p is in memory at the end of its pass. *)
LEMMA LoopWrites ==
  ASSUME NEW h \in Seed, NEW p \in LoopPositions, p.pass < passes,
         p.index >= StartingIndex(p.pass, p.slice)
  PROVE  LET mem == LoopMemory(h, Rank(p))
             curr == Curr(p.slice, p.index)
         IN  /\ mem \in [Lanes -> [Offsets -> Block \union {Garbage}]]
             /\ mem = Progress(PassMemories(h), p.pass, p.slice, LoopIndex(p))
             /\ PassMemories(h)[p.pass + 1][p.lane][curr] = FillAt(mem, p)[p.lane][curr]
<1> DEFINE k == Rank(p)
           mem == LoopMemory(h, k)
           curr == Curr(p.slice, p.index)
           v == PassMemories(h)
<1>1. k \in Nat /\ p.pass \in Nat /\ p.lane \in Lanes /\ curr \in Offsets /\ curr \in Nat
      /\ p.index \in Nat
  BY RankBelow, LoopPosition, LoopCurr
<1>2. LoopPos(h, k) = p
  <2> HIDE DEF k
  <2>1. LoopPos(h, k) \in LoopPositions /\ Rank(LoopPos(h, k)) = k
    BY <1>1, LoopState
  <2> QED BY <2>1, RankUnique DEF k
<1>3. p.pass + 1 \in 0 .. passes
  BY <1>1, LaneLength, SMT
<1>4. k < passes * PassSteps /\ k <= passes * PassSteps
  <2>1. k < (p.pass + 1) * PassSteps
    BY RankBelow
  <2>2. (p.pass + 1) * PassSteps \in Nat /\ (p.pass + 1) * PassSteps <= passes * PassSteps
    BY <1>3, PassMemory
  <2>3. passes * PassSteps \in Nat
    BY LaneLength, SMT DEF PassSteps
  <2> HIDE DEF k
  <2> QED BY <1>1, <2>1, <2>2, <2>3, SMT
<1>5. mem \in [Lanes -> [Offsets -> Block \union {Garbage}]]
  <2> HIDE DEF k
  <2> QED BY <1>1, <1>4, LoopsTyped DEF LoopTyped
<1>6. mem = Progress(v, p.pass, p.slice, LoopIndex(p))
  <2>1. ASSUME NEW l \in Lanes, NEW j \in Offsets
        PROVE  mem[l][j] = v[IF Done(p, l, j) THEN p.pass + 1 ELSE p.pass][l][j]
    <3> HIDE DEF k, v
    <3>1. CASE Done(p, l, j)
      BY <1>1, <1>2, <3>1, DoneForGood DEF v
    <3>2. CASE ~ Done(p, l, j)
      BY <1>1, <1>2, <1>4, <3>2, NotDoneYet DEF v
    <3> QED BY <3>1, <3>2
  <2>2. mem = [l \in Lanes |-> [j \in Offsets |-> mem[l][j]]]
    BY <1>5
  <2> HIDE DEF mem, v
  <2> QED BY <2>1, <2>2 DEF Progress, Done
<1>7. LoopMemory(h, k + 1) = FillAt(mem, p) /\ LoopPos(h, k + 1) = NextPosition(p)
      /\ k + 1 \in Nat
  <2>1. ~ (p.index < StartingIndex(p.pass, p.slice))
    BY <1>1, SMT DEF StartingIndex
  <2>2. k + 1 \in Nat
    BY <1>1, SMT
  <2> HIDE DEF k
  <2> QED BY <1>1, <1>2, <2>1, <2>2, LoopState
<1>8. v[p.pass + 1][p.lane][curr] = LoopMemory(h, k + 1)[p.lane][curr]
  <2> DEFINE q == NextPosition(p)
  <2>1. CASE q.pass = p.pass
    <3>1. Done(q, p.lane, curr)
      BY <1>1, <2>1, DoneStep
    <3> HIDE DEF k, q, v, curr
    <3> QED BY <1>1, <1>7, <2>1, <3>1, DoneForGood DEF q, v
  <2>2. CASE q.pass # p.pass
    <3>1. k + 1 = (p.pass + 1) * PassSteps
      <4> HIDE DEF k, q
      <4> QED BY <1>1, <1>2, <1>7, <2>2, AtPassEnd DEF q
    <3>2. v[p.pass + 1] = LoopMemory(h, (p.pass + 1) * PassSteps)
      BY <1>3, PassMemory
    <3> HIDE DEF k, v
    <3> QED BY <3>1, <3>2
  <2> QED BY <2>1, <2>2
<1> HIDE DEF k
<1> QED BY <1>5, <1>6, <1>7, <1>8 DEF k

(* The loops of fill_memory_blocks_st solve the equations. *)
THEOREM SequentialSolves ==
  ASSUME NEW h \in Seed
  PROVE  Solves(PassMemories(h), h)
<1> DEFINE v == PassMemories(h)
<1>1. ASSUME NEW r \in 0 .. passes
      PROVE  v[r] \in [Lanes -> [Offsets -> Block \union {Garbage}]]
  <2>1. /\ v[r] = LoopMemory(h, r * PassSteps)
        /\ r * PassSteps \in Nat /\ r * PassSteps <= passes * PassSteps
    BY PassMemory
  <2> QED BY <2>1, LoopsTyped DEF LoopTyped
<1>2. 0 \in 0 .. passes /\ 1 \in 0 .. passes
  BY LaneLength, SMT
<1>3. v[0] = FirstMemory(h)
  <2>1. v[0] = LoopMemory(h, 0 * PassSteps)
    BY <1>2, PassMemory
  <2>2. 0 * PassSteps = 0 /\ 0 \in Nat
    BY LaneLength, SMT DEF PassSteps
  <2>3. LoopMemory(h, 0) = FirstMemory(h)
    BY <2>2, LoopState
  <2> QED BY <2>1, <2>2, <2>3
<1>4. \A l \in Lanes, j \in {0, 1} : v[1][l][j] = v[0][l][j]
  <2>1. v[1] = LoopMemory(h, 1 * PassSteps) /\ 1 * PassSteps \in Nat
    BY <1>2, PassMemory
  <2>2. 1 * PassSteps <= 1 * PassSteps
    BY <2>1, SMT
  <2> QED BY <1>3, <2>1, <2>2, FirstBlocksStay
<1>5. ASSUME NEW p \in [pass : 0 .. passes - 1, slice : Slices, lane : Lanes,
                        index : 0 .. segment_length - 1],
             p.index >= StartingIndex(p.pass, p.slice)
      PROVE  v[p.pass + 1][p.lane][Curr(p.slice, p.index)]
               = FillAt(Seen(v, p), p)[p.lane][Curr(p.slice, p.index)]
  <2> DEFINE mem == LoopMemory(h, Rank(p))
             curr == Curr(p.slice, p.index)
  <2>1. p \in LoopPositions /\ p \in Positions /\ p.pass < passes
        /\ p.index < segment_length
    <3>1. \A r \in 0 .. passes - 1 : r \in Nat /\ r < passes
      BY LaneLength, SMT
    <3>2. \A i \in 0 .. segment_length - 1 : i \in 0 .. segment_length /\ i < segment_length
      BY LaneLength, SMT
    <3> QED BY <3>1, <3>2 DEF LoopPositions, Positions
  <2>2. /\ mem \in [Lanes -> [Offsets -> Block \union {Garbage}]]
        /\ mem = Progress(v, p.pass, p.slice, LoopIndex(p))
        /\ v[p.pass + 1][p.lane][curr] = FillAt(mem, p)[p.lane][curr]
    BY <1>5, <2>1, LoopWrites
  <2>3. \A l \in Lanes : LoopIndex(p)[l] \in Nat /\ LoopIndex(p)[l] <= segment_length
    BY <2>1, LoopIndexRange
  <2>4. LoopIndex(p)[p.lane] = p.index /\ curr \in Offsets /\ p.lane \in Lanes
    BY <2>1, LoopCurr, LoopPosition
  <2> HIDE DEF mem, v
  <2>5. FillAt(Seen(v, p), p)[p.lane][curr]
          = NewBlock(mem, p, PrevOf(curr), Reference(mem, p, PrevOf(curr)))
    BY <1>5, <2>1, <2>2, <2>3, <2>4, ScheduleFree
  <2>6. FillAt(mem, p)[p.lane][curr]
          = NewBlock(mem, p, PrevOf(curr), Reference(mem, p, PrevOf(curr)))
    BY <2>2, <2>4 DEF FillAt
  <2> QED BY <2>2, <2>5, <2>6
<1> HIDE DEF v
<1> QED BY <1>1, <1>3, <1>4, <1>5 DEF Solves, v

(***************************************************************************)
(* The result: a solution of the equations of Argon2Sequential is what       *)
(* every schedule computes.                                                  *)
(***************************************************************************)

(* The lanes between the end of a slice and the beginning of the next. *)
LEMMA IndexRange ==
  ASSUME IInv, NEW l \in Lanes
  PROVE  Index[l] \in Nat /\ Index[l] <= segment_length
<1>1. pos[l].index \in Nat /\ pos[l].index <= segment_length
  <2>1. pos[l].index \in 0 .. segment_length
    BY DEF IInv, TypeOK, Positions
  <2> QED BY <2>1, LaneLength, SMT
<1>2. StartingIndex(pass, slice) \in Nat /\ StartingIndex(pass, slice) <= segment_length
  BY LaneLength, SMT DEF StartingIndex
<1> QED BY <1>1, <1>2 DEF Index

(* The memory is made of the blocks that v says, as far as they are computed. *)
Follows(v) ==
  /\ pc \in {"fail", "returned"} => pass = passes
  /\ memory = IF pass = passes THEN v[passes] ELSE Progress(v, pass, slice, Index)

SolvedInv == \A v : Solves(v, seed) => (rc = "ARGON2_OK" => Follows(v))

LEMMA InitSolved == Init => SolvedInv
<1> SUFFICES ASSUME Init, NEW v, Solves(v, seed) PROVE Follows(v)
  BY DEF SolvedInv
<1>1. pass = 0 /\ slice = 0 /\ pass # passes /\ pc \notin {"fail", "returned"}
  BY LaneLength, SMT DEF Init
<1>2. \A l \in Lanes : Curr(slice, Index[l]) = 2
  <2>1. \A l \in Lanes : Index[l] = 2
    BY <1>1 DEF Init, Index, StartingIndex
  <2> QED BY <1>1, <2>1, LaneLength, SMT DEF Curr
<1>3. \A l \in Lanes, j \in Offsets :
        v[IF j < 2 THEN 0 + 1 ELSE 0][l][j] = memory[l][j]
  <2> SUFFICES ASSUME NEW l \in Lanes, NEW j \in Offsets
               PROVE  v[IF j < 2 THEN 0 + 1 ELSE 0][l][j] = memory[l][j]
    OBVIOUS
  <2>1. memory = v[0] /\ 0 + 1 = 1
    BY DEF Init, Solves
  <2>2. j < 2 => j \in {0, 1}
    BY LaneLength, SMT DEF Offsets
  <2> QED BY <2>1, <2>2 DEF Solves
<1>4. memory = [l \in Lanes |-> [j \in Offsets |-> memory[l][j]]]
  BY DEF Init, FirstMemory
<1> QED BY <1>1, <1>2, <1>3, <1>4 DEF Follows, Progress

(* A block that a worker writes has the contents that v says. *)
LEMMA FillBlockSolved ==
  ASSUME IInv, RInv, NEW l \in Lanes, FillBlock(l), NEW v, Solves(v, seed), Follows(v)
  PROVE  Follows(v)'
<1> DEFINE p == pos[l]
           curr == Curr(p.slice, p.index)
           r == Reference(memory, p, PrevOf(curr))
<1>1. /\ thread[l] = "fill"
      /\ UNCHANGED <<seed, pc, pass, slice>>
  BY DEF FillBlock, main
<1>2. /\ p.pass = pass /\ p.slice = slice /\ p.lane = l
      /\ p.index < segment_length /\ p.index >= StartingIndex(pass, slice)
      /\ Index[l] = p.index
  BY <1>1 DEF IInv, WorkerInv, Index
<1>3. /\ p \in [pass : 0 .. passes - 1, slice : Slices, lane : Lanes,
                index : 0 .. segment_length - 1]
      /\ pass < passes /\ pass \in Nat /\ slice \in Slices
  <2>1. p \in Positions /\ slice \in Slices
    BY DEF IInv, TypeOK
  <2>2. p.pass \in 0 .. passes - 1 /\ p.index \in 0 .. segment_length
    BY <2>1 DEF Positions
  <2>3. p.index \in 0 .. segment_length - 1 /\ pass < passes /\ pass \in Nat
    BY <1>2, <2>2, LaneLength, SMT
  <2> QED BY <2>1, <2>3 DEF Positions
<1>4. curr \in Offsets
  BY <1>2, <1>3, CurrInLane, LaneLength, SMT DEF Offsets
<1>5. memory = Progress(v, pass, slice, Index)
  <2>1. pass # passes
    BY <1>3, LaneLength, SMT
  <2> QED BY <2>1 DEF Follows
<1>6. memory' = FillAt(memory, p) /\ ref[l] = r
  BY <1>1, NextBlock
<1>7. Index' = [Index EXCEPT ![l] = p.index + 1]
  BY <1>1, <1>2, NextBlock
<1>8. v[pass + 1][l][curr] = NewBlock(memory, p, PrevOf(curr), r)
  <2>1. v[pass + 1][l][curr] = FillAt(Seen(v, p), p)[l][curr]
    BY <1>2, <1>3 DEF Solves
  <2>2. \A m \in Lanes : Index[m] \in Nat /\ Index[m] <= segment_length
    BY IndexRange
  <2>3. p \in Positions /\ memory \in [Lanes -> [Offsets -> Block \union {Garbage}]]
    BY DEF IInv, TypeOK
  <2> HIDE DEF p
  <2> QED BY <1>2, <1>5, <2>1, <2>2, <2>3, ScheduleFree
<1>9. memory' = Progress(v, pass, slice, Index')
  <2>1. memory' = [memory EXCEPT ![l][curr] = v[pass + 1][l][curr]]
    <3> HIDE DEF r
    <3> QED BY <1>2, <1>6, <1>8 DEF FillAt, r
  <2>2. \A j \in Offsets :
          j < Curr(slice, p.index + 1) <=> j < Curr(slice, p.index) \/ j = curr
    <3>1. slice * segment_length \in Nat /\ p.index \in Nat
      BY <1>3, LaneLength, SMT DEF Slices, ARGON2_SYNC_POINTS
    <3> QED BY <1>2, <3>1, LaneLength, SMT DEF Offsets, Curr
  <2>3. ASSUME NEW m \in Lanes, NEW j \in Offsets
        PROVE  memory'[m][j] = Progress(v, pass, slice, Index')[m][j]
    <3>1. CASE m # l
      <4>1. Index'[m] = Index[m]
        BY <1>7, <3>1 DEF Index
      <4>2. memory'[m] = memory[m]
        BY <1>5, <2>1, <3>1 DEF Progress
      <4> QED BY <1>5, <4>1, <4>2 DEF Progress
    <3>2. CASE m = l
      <4>1. Index'[l] = p.index + 1
        BY <1>7 DEF Index
      <4>2. memory'[l][j] = IF j = curr THEN v[pass + 1][l][curr] ELSE memory[l][j]
        BY <1>5, <1>4, <2>1 DEF Progress
      <4>3. memory[l][j] = v[IF j < Curr(slice, p.index) THEN pass + 1 ELSE pass][l][j]
        BY <1>2, <1>5 DEF Progress
      <4> QED BY <2>2, <3>2, <4>1, <4>2, <4>3 DEF Progress
    <3> QED BY <3>1, <3>2
  <2>4. memory' = [m \in Lanes |-> [j \in Offsets |-> memory'[m][j]]]
    BY <1>5, <2>1 DEF Progress
  <2> QED BY <2>3, <2>4 DEF Progress
<1> QED BY <1>1, <1>3, <1>9, LaneLength, SMT DEF Follows, Progress

(* The end of a slice, seen from v, is the beginning of the next. *)
LEMMA EndSliceSolved ==
  ASSUME IInv, NEW next \in {"lane", "call"}, EndSlice(next), pc \in Filling,
         UNCHANGED work, \A l \in Lanes : thread[l] \notin Live /\ Launched(l),
         NEW v, Solves(v, seed), Follows(v)
  PROVE  Follows(v)'
<1>1. \A l \in Lanes : /\ Index[l] = segment_length
                       /\ Index'[l] = StartingIndex(pass', slice')
  BY AtBarrier
<1>2. slice \in {0, 1, 2, 3} /\ pass < passes /\ pass \in Nat /\ pass # passes
  BY LaneLength, SMT DEF IInv, TypeOK, ControlInv, Slices, ARGON2_SYNC_POINTS
<1>3. memory' = Progress(v, pass, slice, Index)
  BY <1>2 DEF Follows, work
<1>4. pc' \in {"fail", "returned"} => pass' = passes
  BY DEF EndSlice
<1>5. CASE slice # 3
  <2>1. pass' = pass /\ slice' = slice + 1
    BY <1>2, <1>5, SMT DEF EndSlice, ARGON2_SYNC_POINTS
  <2>2. \A l \in Lanes : Curr(slice, Index[l]) = Curr(slice', Index'[l])
    <3>1. StartingIndex(pass', slice') = 0
      BY <1>2, <2>1, SMT DEF StartingIndex
    <3>2. slice * segment_length + segment_length = (slice + 1) * segment_length + 0
      BY <1>2, LaneLength, SMT
    <3> QED BY <1>1, <2>1, <3>1, <3>2 DEF Curr
  <2>3. Progress(v, pass, slice, Index) = Progress(v, pass', slice', Index')
    BY <2>1, <2>2 DEF Progress
  <2> QED BY <1>2, <1>3, <1>4, <2>1, <2>3 DEF Follows
<1>6. CASE slice = 3
  <2>1. pass' = pass + 1 /\ slice' = 0 /\ pass + 1 \in 0 .. passes /\ pass + 1 \in Nat
        /\ pass + 1 # 0
    BY <1>2, <1>6, LaneLength, SMT DEF EndSlice, ARGON2_SYNC_POINTS
  <2>2. v[pass + 1] = [l \in Lanes |-> [j \in Offsets |-> v[pass + 1][l][j]]]
    BY <2>1 DEF Solves
  <2>3. \A l \in Lanes, j \in Offsets : j < Curr(slice, Index[l])
    <3>1. lane_length = 3 * segment_length + segment_length
      BY LaneLength, SMT DEF lane_length, ARGON2_SYNC_POINTS
    <3>2. \A j \in Offsets : j < lane_length
      BY LaneLength, SMT DEF Offsets
    <3> QED BY <1>1, <1>6, <3>1, <3>2 DEF Curr
  <2>4. Progress(v, pass, slice, Index) = v[pass + 1]
    BY <2>2, <2>3 DEF Progress
  <2>5. Progress(v, pass', slice', Index') = v[pass + 1]
    <3>1. \A l \in Lanes : Curr(slice', Index'[l]) = 0
      <4>1. 0 * segment_length + 0 = 0
        BY LaneLength, SMT
      <4> QED BY <1>1, <2>1, <4>1 DEF Curr, StartingIndex
    <3>2. \A j \in Offsets : ~ (j < 0)
      BY LaneLength, SMT DEF Offsets
    <3> QED BY <2>1, <2>2, <3>1, <3>2 DEF Progress
  <2> QED BY <1>3, <1>4, <2>1, <2>4, <2>5 DEF Follows
<1> QED BY <1>5, <1>6

(* A step that neither computes a block nor ends a slice. *)
LEMMA QuietSolved ==
  ASSUME NEW v, Follows(v), UNCHANGED <<memory, pass, slice>>, Index' = Index,
         pc' \in {"fail", "returned"} => pc \in {"fail", "returned"}
  PROVE  Follows(v)'
BY DEF Follows, Progress

LEMMA NextSolved == IInv /\ RInv /\ SolvedInv /\ [Next]_vars => SolvedInv'
<1> SUFFICES ASSUME IInv, RInv, SolvedInv, [Next]_vars,
                    NEW v, Solves(v, seed)', rc' = "ARGON2_OK"
             PROVE  Follows(v)'
  BY DEF SolvedInv
<1>1. UNCHANGED seed /\ UNCHANGED rc /\ ~ FailedJoin
  <2>1. UNCHANGED seed
    BY DEF Next, Main, Terminated, vars, CallocThread, CallocThrData, Calloc, JoinForRoom,
           Join, FailedJoin, CreateThread, CleanupJoin, CleanupDone, JoinRest, CallSegment,
           SegmentReturns, Return, Worker, ThreadStart, ChooseReference, FillBlock, ThreadExit
  <2>2. rc' = rc \/ rc' # "ARGON2_OK"
    BY DEF Next, Main, Terminated, vars, main, CallocThread, CallocThrData, Calloc, JoinForRoom,
           Join, FailedJoin, CreateThread, CleanupJoin, CleanupDone, JoinRest, CallSegment,
           SegmentReturns, Return, Worker, ThreadStart, ChooseReference, FillBlock, ThreadExit
  <2>3. ~ FailedJoin
    BY DEF FailedJoin
  <2> QED BY <2>1, <2>2, <2>3
<1>2. Solves(v, seed) /\ Follows(v)
  BY <1>1 DEF SolvedInv, Solves
<1>3. ASSUME UNCHANGED work, UNCHANGED <<pass, slice>>,
             pc' \in {"fail", "returned"} => pc \in {"fail", "returned"}
      PROVE  Follows(v)'
  <2>1. Index' = Index
    BY <1>3 DEF Index, work
  <2> QED BY <1>2, <1>3, <2>1, QuietSolved DEF work
<1>4. lane \in Lanes
  BY DEF IInv, TypeOK
<1>5. CASE CallocThread \/ CallocThrData
  BY <1>1, <1>3, <1>5 DEF CallocThread, CallocThrData, Calloc
<1>6. CASE JoinForRoom \/ CleanupJoin
  BY <1>1, <1>3, <1>6 DEF JoinForRoom, CleanupJoin, Join
<1>7. CASE CreateThread
  BY <1>3, <1>7 DEF CreateThread
<1>8. CASE Return
  BY <1>3, <1>8 DEF Return
<1>9. CASE JoinRest
  <2>1. CASE EndSlice("lane") /\ pc \in Filling /\ UNCHANGED work /\ ~ (lane + 1 < lanes)
    <3>1. pc = "join_rest" /\ thread[lane] \notin Live
      BY <1>1, <1>9 DEF JoinRest, Join
    <3>2. \A l \in Lanes : l = lane \/ l < lane
      BY <1>4, <2>1, LaneLength, SMT DEF Lanes
    <3>3. \A l \in Lanes : thread[l] \notin Live /\ Launched(l)
      BY <3>1, <3>2 DEF IInv, BarrierInv, Passed, Launched
    <3> QED BY <1>2, <2>1, <3>3, EndSliceSolved
  <2>2. \/ EndSlice("lane") /\ pc \in Filling /\ UNCHANGED work /\ ~ (lane + 1 < lanes)
        \/ /\ UNCHANGED work /\ UNCHANGED <<pass, slice>>
           /\ pc' \in {"fail", "returned"} => pc \in {"fail", "returned"}
    BY <1>1, <1>9 DEF JoinRest, Join, Filling
  <2> QED BY <1>3, <2>1, <2>2
<1>10. CASE CallSegment
  <2> DEFINE p == [pass |-> pass, slice |-> slice, lane |-> lane]
  <2>1. EnterSegment(lane, p) /\ p.pass = pass /\ p.slice = slice /\ p.lane = lane
    BY <1>10 DEF CallSegment
  <2>2. UNCHANGED <<memory, pass, slice>> /\ pc = "call" /\ pc' = "segment"
    BY <1>10 DEF CallSegment
  <2>3. Waiting(lane)
    BY <1>4, <2>2, LaneLength, SMT DEF Waiting, Lanes
  <2> HIDE DEF p
  <2>4. Index' = Index
    BY <1>4, <2>1, <2>2, <2>3, EnterKeepsIndex
  <2> QED BY <1>2, <2>2, <2>4, QuietSolved
<1>11. CASE SegmentReturns
  <2>1. /\ pc = "segment" /\ UNCHANGED work /\ thread[lane] = "exited"
        /\ \/ pc' = "call" /\ UNCHANGED <<pass, slice>>
           \/ ~ (lane + 1 < lanes) /\ EndSlice("call")
    BY <1>11 DEF SegmentReturns
  <2>2. CASE ~ (lane + 1 < lanes) /\ EndSlice("call")
    <3>1. \A l \in Lanes : (l = lane \/ l < lane) /\ l <= lane
      BY <1>4, <2>2, LaneLength, SMT DEF Lanes
    <3>2. \A l \in Lanes : thread[l] \notin Live /\ Launched(l)
      BY <2>1, <3>1 DEF IInv, BarrierInv, Passed, Launched, Live
    <3>3. pc \in Filling
      BY <2>1 DEF Filling
    <3> QED BY <1>2, <2>1, <2>2, <3>2, <3>3, EndSliceSolved
  <2> QED BY <1>3, <2>1, <2>2
<1>12. ASSUME NEW l \in Lanes, Worker(l) PROVE Follows(v)'
  <2>1. CASE ThreadStart(l)
    <3> DEFINE p == thr_data[l]
    <3>1. /\ thread[l] = "created" /\ EnterSegment(l, p)
          /\ UNCHANGED <<memory, pc, pass, slice>>
      BY <2>1 DEF ThreadStart, main
    <3>2. p = [pass |-> pass, slice |-> slice, lane |-> l]
      BY <3>1 DEF IInv, WorkerInv
    <3>3. p.pass = pass /\ p.slice = slice /\ p.lane = l
      BY <3>2
    <3> HIDE DEF p
    <3>4. Index' = Index
      BY <3>1, <3>3, EnterKeepsIndex
    <3> QED BY <1>2, <3>1, <3>4, QuietSolved
  <2>2. CASE ChooseReference(l) \/ ThreadExit(l)
    <3>1. UNCHANGED <<memory, pos, pc, pass, slice>>
      BY <2>2 DEF ChooseReference, ThreadExit, main, work
    <3>2. Index' = Index
      BY <3>1 DEF Index
    <3> QED BY <1>2, <3>1, <3>2, QuietSolved
  <2>3. CASE FillBlock(l)
    BY <1>2, <2>3, FillBlockSolved
  <2> QED BY <1>12, <2>1, <2>2, <2>3 DEF Worker
<1>13. CASE UNCHANGED vars
  BY <1>3, <1>13 DEF vars, main
<1>14. CASE CleanupDone
  BY <1>1, <1>14 DEF CleanupDone, RInv, ResultInv
<1> QED BY <1>5, <1>6, <1>7, <1>8, <1>9, <1>10, <1>11, <1>12, <1>13, <1>14
        DEF Next, Main, Terminated

(* Whatever the schedule, and whatever fails on the way: if the call returns
   ARGON2_OK, the memory is the last one of any solution of the equations,
   which say nothing of threads.                                            *)
THEOREM ScheduleIndependence == Spec => []SolvedInv
<1>1. Init => SolvedInv
  BY InitSolved
<1>2. IInv /\ RInv /\ SolvedInv /\ [Next]_vars => SolvedInv'
  BY NextSolved
<1> QED BY <1>1, <1>2, Invariance, JoinsInvariance, PTL DEF Spec

(* If fill_memory_blocks_mt returns ARGON2_OK, the memory that its threads have
   computed is the one that the loops of fill_memory_blocks_st compute: for
   any number of lanes, threads and passes and any order of the threads.    *)
THEOREM SameAsSequential == Spec => []Deterministic
<1>1. IInv /\ SolvedInv => Deterministic
  <2> SUFFICES ASSUME IInv, SolvedInv, pc \in {"fail", "returned"}, rc = "ARGON2_OK"
               PROVE  memory = PassMemories(seed)[passes]
    BY DEF Deterministic, Sequential
  <2>1. Solves(PassMemories(seed), seed)
    BY SequentialSolves DEF IInv, TypeOK
  <2>2. Follows(PassMemories(seed))
    BY <2>1 DEF SolvedInv
  <2> QED BY <2>2 DEF Follows
<1> QED BY <1>1, Invariance, ScheduleIndependence, PTL

=============================================================================
