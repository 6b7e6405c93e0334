------------------------- MODULE Argon2FillProofs -------------------------
(***************************************************************************)
(* What passe_index_alpha guarantees for every word size, segment length and *)
(* pseudo-random value.  From that, the threads of passe_fill_memory_blocks  *)
(* never race, and never read a block that has not been computed: for any    *)
(* number of lanes, threads and passes, and any Argon2 type.                 *)
(***************************************************************************)
EXTENDS Argon2Fill, TLAPS

(***************************************************************************)
(* The choice of a reference (Argon2Index).                                  *)
(***************************************************************************)

(* A remainder is the number itself below the modulus. *)
LEMMA SmallMod ==
  ASSUME NEW n \in Nat, NEW m \in Nat, n < m
  PROVE  n % m = n
BY SMT

(* A quotient of a product is below the factor that was not divided. *)
LEMMA ScaledBelow ==
  ASSUME NEW a \in Nat, NEW x \in Nat, NEW w \in Nat, x < w, a > 0
  PROVE  (a * x) \div w \in 0 .. a - 1
<1> DEFINE q == (a * x) \div w
           r == (a * x) % w
<1>1. q \in Int /\ r \in 0 .. w - 1 /\ a * x = w * q + r
  BY SMT
<1>2. a * x < a * w /\ a * x >= 0
  BY SMT
<1> HIDE DEF q, r
<1>3. w * q <= a * x /\ w * q + w > a * x
  BY <1>1, SMT
<1>4. q < a
  <2> SUFFICES ASSUME q >= a PROVE FALSE BY <1>1, SMT
  <2>1. w * q >= w * a BY <1>1, SMT
  <2> QED BY <2>1, <1>2, <1>3, <1>1, SMT
<1>5. q >= 0
  <2> SUFFICES ASSUME q <= -1 PROVE FALSE BY <1>1, SMT
  <2>1. w * q <= w * (-1) BY <1>1, SMT
  <2> QED BY <2>1, <1>2, <1>3, <1>1, SMT
<1> QED BY <1>1, <1>4, <1>5, SMT DEF q

(* The position of passe_fill_segment when it asks for a reference, in pass q
   and slice s.                                                             *)
SegmentPosition(q, s, index) ==
  /\ q \in Nat
  /\ s \in Slices
  /\ index \in StartingIndex(q, s) .. segment_length - 1

(* The area without the wrap-around: it is never empty, so the uint32_t
   subtractions of 1 never wrap.                                            *)
LEMMA AreaSize ==
  ASSUME NEW q, NEW s, NEW index, SegmentPosition(q, s, index),
         NEW same_lane
  PROVE  LET finished == IF q = 0 THEN s * segment_length
                                     ELSE lane_length - segment_length
             area == ReferenceAreaSize(q, s, index, same_lane)
         IN  /\ area = IF same_lane = 1 \/ (q = 0 /\ s = 0)
                       THEN finished + index - 1
                       ELSE finished + (IF index = 0 THEN -1 ELSE 0)
             /\ area \in 1 .. lane_length - 1
<1> DEFINE finished == IF q = 0 THEN s * segment_length
                                   ELSE lane_length - segment_length
           exact == IF same_lane = 1 \/ (q = 0 /\ s = 0)
                    THEN finished + index - 1
                    ELSE finished + (IF index = 0 THEN -1 ELSE 0)
<1>1. s \in {0, 1, 2, 3}
  BY SMT DEF SegmentPosition, Slices, ARGON2_SYNC_POINTS
<1>2. exact \in 1 .. lane_length - 1
  BY <1>1, SegmentAssumption, SMT
     DEF SegmentPosition, StartingIndex, lane_length, ARGON2_SYNC_POINTS
<1>3. ReferenceAreaSize(q, s, index, same_lane) = exact % Word
  BY DEF ReferenceAreaSize, U32
<1> HIDE DEF exact
<1>4. lane_length \in Nat
  BY SegmentAssumption, SMT DEF lane_length, ARGON2_SYNC_POINTS
<1>5. exact % Word = exact
  BY <1>2, <1>4, SmallMod, SegmentAssumption, SMT
<1> QED BY <1>2, <1>3, <1>5 DEF exact

(* The relative position stays inside the area, whatever the random word. *)
LEMMA RelativeInArea ==
  ASSUME NEW area \in 1 .. lane_length - 1, NEW rand \in 0 .. Word - 1
  PROVE  RelativePosition(area, rand) \in 0 .. area - 1
<1>1. lane_length \in Nat /\ area \in Nat /\ area > 0 /\ area < Word /\ rand \in Nat
  BY SegmentAssumption, SMT DEF lane_length, ARGON2_SYNC_POINTS
<1> DEFINE x == (rand * rand) \div Word
<1>2. x \in Nat /\ x < Word
  <2>1. CASE rand = 0
    BY <2>1, SegmentAssumption, <1>1, SMT
  <2>2. CASE rand > 0
    <3>1. x \in 0 .. rand - 1
      BY <2>2, <1>1, ScaledBelow, SegmentAssumption, SMT
    <3> QED BY <3>1, <1>1, SegmentAssumption, SMT
  <2> QED BY <2>1, <2>2, <1>1, SMT
<1> HIDE DEF x
<1>3. (area * x) \div Word \in 0 .. area - 1
  BY <1>1, <1>2, ScaledBelow, SegmentAssumption, SMT
<1>4. U32(area - 1) = area - 1
  BY <1>1, SmallMod, SegmentAssumption, SMT DEF U32
<1>5. RelativePosition(area, rand) = (area - 1) - ((area * x) \div Word)
  BY <1>4 DEF RelativePosition, x
<1> QED BY <1>1, <1>3, <1>5, SMT

(* What passe_index_alpha computes, with the ring unrolled. *)
LEMMA IndexUnrolled ==
  ASSUME NEW q, NEW s, NEW index, SegmentPosition(q, s, index),
         NEW same_lane, NEW rand \in 0 .. Word - 1
  PROVE  \E rel \in 0 .. ReferenceAreaSize(q, s, index, same_lane) - 1 :
            LET n == StartPosition(q, s) + rel
            IN  index_alpha(q, s, index, rand, same_lane)
                  = IF n < lane_length THEN n ELSE n - lane_length
<1> DEFINE area == ReferenceAreaSize(q, s, index, same_lane)
           rel == RelativePosition(area, rand)
           start == StartPosition(q, s)
<1>1. area \in 1 .. lane_length - 1
  BY AreaSize
<1>2. rel \in 0 .. area - 1
  BY <1>1, RelativeInArea
<1>3. s \in {0, 1, 2, 3}
  BY SMT DEF SegmentPosition, Slices, ARGON2_SYNC_POINTS
<1>4. lane_length \in Nat /\ start \in 0 .. lane_length - 1
  BY <1>3, SegmentAssumption, SMT
     DEF StartPosition, lane_length, ARGON2_SYNC_POINTS
<1>5. index_alpha(q, s, index, rand, same_lane) = (start + rel) % lane_length
  BY DEF index_alpha
<1> DEFINE n == start + rel
<1> HIDE DEF area, rel, start
<1>6. n \in Nat /\ n < 2 * lane_length
  BY <1>1, <1>2, <1>4, SMT
<1> HIDE DEF n
<1>7. n % lane_length = IF n < lane_length THEN n ELSE n - lane_length
  BY <1>4, <1>6, SMT
<1> QED BY <1>2, <1>5, <1>7 DEF area, start, n

(* A reference is a block of its lane; in its own lane it is neither the block
   being computed nor the one before it, and in the first pass it has been
   computed already (argon2/core.c, passe_index_alpha).                     *)
THEOREM OwnLaneReference ==
  ASSUME NEW q, NEW s, NEW index, SegmentPosition(q, s, index),
         NEW rand \in 0 .. Word - 1, NEW same_lane, same_lane = 1
  PROVE  LET a == index_alpha(q, s, index, rand, same_lane)
             curr == Curr(s, index)
         IN  /\ a \in 0 .. lane_length - 1
             /\ a # curr
             /\ a # (IF curr = 0 THEN lane_length - 1 ELSE curr - 1)
             /\ q = 0 => a < curr - 1
<1>1. s \in {0, 1, 2, 3}
  BY SMT DEF SegmentPosition, Slices, ARGON2_SYNC_POINTS
<1>2. PICK rel \in 0 .. ReferenceAreaSize(q, s, index, same_lane) - 1 :
            LET n == StartPosition(q, s) + rel
            IN  index_alpha(q, s, index, rand, same_lane)
                  = IF n < lane_length THEN n ELSE n - lane_length
  BY IndexUnrolled
<1>3. ReferenceAreaSize(q, s, index, same_lane)
        = (IF q = 0 THEN s * segment_length ELSE lane_length - segment_length)
          + index - 1
  BY AreaSize
<1> QED BY <1>1, <1>2, <1>3, SegmentAssumption, SMT
     DEF SegmentPosition, StartingIndex, Curr, StartPosition, lane_length, ARGON2_SYNC_POINTS

(* A reference into another lane avoids the whole segment that the other
   lane's thread is filling meanwhile, and in the first pass it lies in a
   segment that is finished (argon2/core.c, passe_index_alpha).             *)
THEOREM OtherLaneReference ==
  ASSUME NEW q, NEW s, NEW index, SegmentPosition(q, s, index),
         NEW rand \in 0 .. Word - 1, NEW same_lane, same_lane # 1,
         ~ (q = 0 /\ s = 0)
  PROVE  LET a == index_alpha(q, s, index, rand, same_lane)
         IN  /\ a \in 0 .. lane_length - 1
             /\ \A i \in 0 .. segment_length - 1 : a # Curr(s, i)
             /\ q = 0 => a < Curr(s, 0)
<1>1. s \in {0, 1, 2, 3}
  BY SMT DEF SegmentPosition, Slices, ARGON2_SYNC_POINTS
<1>2. PICK rel \in 0 .. ReferenceAreaSize(q, s, index, same_lane) - 1 :
            LET n == StartPosition(q, s) + rel
            IN  index_alpha(q, s, index, rand, same_lane)
                  = IF n < lane_length THEN n ELSE n - lane_length
  BY IndexUnrolled
<1>3. ReferenceAreaSize(q, s, index, same_lane)
        = (IF q = 0 THEN s * segment_length ELSE lane_length - segment_length)
          + (IF index = 0 THEN -1 ELSE 0)
  BY AreaSize
<1> QED BY <1>1, <1>2, <1>3, SegmentAssumption, SMT
     DEF SegmentPosition, StartingIndex, Curr, StartPosition, lane_length, ARGON2_SYNC_POINTS

(***************************************************************************)
(* Facts about the constants and the operators of Argon2Segment.             *)
(***************************************************************************)

LEMMA LaneLength ==
  /\ lane_length = 4 * segment_length
  /\ segment_length \in Nat /\ segment_length >= 2
  /\ lane_length \in Nat /\ lane_length >= 8
  /\ lanes \in Nat /\ lanes >= 1
  /\ passes \in Nat /\ passes >= 1
  /\ threads \in 1 .. lanes
BY SegmentAssumption, SizesAssumption, ThreadsAssumption, SMT
   DEF lane_length, ARGON2_SYNC_POINTS

LEMMA CurrInLane ==
  ASSUME NEW slice_ \in Slices, NEW i \in 0 .. segment_length
  PROVE  /\ Curr(slice_, i) \in Nat
         /\ Curr(slice_, i) <= lane_length
         /\ i < segment_length => Curr(slice_, i) < lane_length
         /\ Curr(slice_, i) = Curr(slice_, 0) + i
<1>1. slice_ \in {0, 1, 2, 3}
  BY SMT DEF Slices, ARGON2_SYNC_POINTS
<1> QED BY <1>1, LaneLength, SMT DEF Curr

(* The rotation of prev_offset gives the previous block of the ring. *)
LEMMA Rotation ==
  ASSUME NEW c \in Nat, c < lane_length, NEW p \in Nat,
         p = c - 1 \/ (c = 0 /\ p = lane_length - 1) \/ (c = 1 /\ p = lane_length)
  PROVE  RotatedPrev(c, p) = IF c = 0 THEN lane_length - 1 ELSE c - 1
<1>1. c % lane_length = c
  BY LaneLength, SmallMod
<1> QED BY <1>1, LaneLength, SMT DEF RotatedPrev

LEMMA Start ==
  ASSUME NEW r \in Nat, NEW s \in Slices
  PROVE  LET i == StartingIndex(r, s)
             c == Curr(s, i)
             p == InitialPrev(c)
         IN  /\ i \in 0 .. segment_length
             /\ i <= 2
             /\ p \in 0 .. lane_length
             /\ p = c - 1 \/ (c = 0 /\ p = lane_length - 1)
<1> DEFINE i == StartingIndex(r, s)
           c == Curr(s, i)
<1>1. s \in {0, 1, 2, 3}
  BY SMT DEF Slices, ARGON2_SYNC_POINTS
<1>2. i \in 0 .. segment_length /\ i <= 2
  BY LaneLength, SMT DEF StartingIndex
<1>3. c \in Nat /\ c < lane_length
  BY <1>1, LaneLength, SMT DEF StartingIndex, Curr
<1>4. c % lane_length = c
  BY <1>3, LaneLength, SmallMod
<1>5. InitialPrev(c) = IF c = 0 THEN lane_length - 1 ELSE c - 1
  BY <1>3, <1>4, LaneLength, SMT DEF InitialPrev
<1> HIDE DEF i, c
<1>6. InitialPrev(c) \in 0 .. lane_length
  BY <1>3, <1>5, LaneLength, SMT
<1> QED BY <1>2, <1>5, <1>6, <1>3, SMT DEF i, c

(* The reference that ChooseReference takes, at a position p of the loop. *)
LEMMA ReferenceLegal ==
  ASSUME NEW mem \in [Lanes -> [Offsets -> Block \union {Garbage}]],
         NEW p \in Positions, NEW before \in Offsets,
         p.index >= StartingIndex(p.pass, p.slice), p.index < segment_length
  PROVE  LET r == Reference(mem, p, before)
             curr == Curr(p.slice, p.index)
         IN  /\ r \in [lane : Lanes, offset : Offsets]
             /\ IF r.lane = p.lane
                THEN /\ r.offset # curr /\ (p.pass = 0 => r.offset < curr)
                     /\ r.offset # (IF curr = 0 THEN lane_length - 1 ELSE curr - 1)
                ELSE /\ \A i \in 0 .. segment_length - 1 : r.offset # Curr(p.slice, i)
                     /\ p.pass = 0 => r.offset < Curr(p.slice, 0)
<1> DEFINE rand == PseudoRand(mem, p, before)
           l == RefLane(p, rand)
           same == IF l = p.lane THEN 1 ELSE 0
           a == index_alpha(p.pass, p.slice, p.index, rand.lo, same)
<1>1. /\ p.pass \in 0 .. passes - 1 /\ p.slice \in Slices /\ p.lane \in Lanes
      /\ p.index \in 0 .. segment_length - 1
  BY LaneLength, SMT DEF Positions
<1>2. mem[p.lane][before] \in Block \union {Garbage}
  BY <1>1
<1>3. rand \in RandomWord
  BY <1>1, <1>2, RandomAssumption DEF PseudoRand
<1>4. rand.lo \in 0 .. Word - 1 /\ rand.hi \in Nat
  BY <1>3, SegmentAssumption, SMT DEF RandomWord
<1> HIDE DEF rand
<1>5. l \in Lanes
  <2>1. rand.hi % lanes \in 0 .. lanes - 1
    BY <1>4, LaneLength, SMT
  <2> QED BY <2>1, <1>1 DEF RefLane, Lanes
<1>6. p.pass = 0 /\ p.slice = 0 => l = p.lane
  BY DEF RefLane
<1>7. SegmentPosition(p.pass, p.slice, p.index)
  BY <1>1, LaneLength, SMT DEF SegmentPosition, StartingIndex
<1>8. Reference(mem, p, before) = [lane |-> l, offset |-> a]
  BY DEF Reference, rand
<1> HIDE DEF l
<1>9. Curr(p.slice, p.index) \in Nat
  BY <1>1, CurrInLane, LaneLength, SMT
<1>10. CASE l = p.lane
  <2>1. same = 1 BY <1>10
  <2> HIDE DEF same
  <2>2. /\ a \in 0 .. lane_length - 1
        /\ a # Curr(p.slice, p.index)
        /\ a # (IF Curr(p.slice, p.index) = 0 THEN lane_length - 1
                ELSE Curr(p.slice, p.index) - 1)
        /\ p.pass = 0 => a < Curr(p.slice, p.index) - 1
    BY <1>4, <1>7, <2>1, OwnLaneReference
  <2> HIDE DEF a
  <2>3. a \in Nat /\ (p.pass = 0 => a < Curr(p.slice, p.index))
    BY <2>2, <1>9, LaneLength, SMT
  <2> QED BY <1>5, <1>8, <1>10, <2>2, <2>3 DEF Offsets
<1>11. CASE l # p.lane
  <2>1. same # 1 BY <1>11
  <2> HIDE DEF same
  <2>2. /\ a \in 0 .. lane_length - 1
        /\ \A i \in 0 .. segment_length - 1 : a # Curr(p.slice, i)
        /\ p.pass = 0 => a < Curr(p.slice, 0)
    BY <1>4, <1>6, <1>7, <1>11, <2>1, OtherLaneReference
  <2> HIDE DEF a
  <2> QED BY <1>5, <1>8, <1>11, <2>2 DEF Offsets
<1> QED BY <1>10, <1>11

(***************************************************************************)
(* The inductive invariant.                                                  *)
(***************************************************************************)

LEMMA InitInv == Init => IInv
<1> SUFFICES ASSUME Init PROVE IInv OBVIOUS
<1>1. StartingIndex(0, 0) = 2 /\ 0 \in Slices
  BY SMT DEF StartingIndex, Slices, ARGON2_SYNC_POINTS
<1>2. \A l \in Lanes : l \in Nat /\ l < lanes
  BY LaneLength, SMT DEF Lanes
<1>3. memory \in [Lanes -> [Offsets -> Block \union {Garbage}]]
  <2>1. \A j \in Offsets : j < 2 => j \in {0, 1}
    BY LaneLength, SMT DEF Offsets
  <2> QED BY <2>1, BlockAssumption, SMT DEF Init, FirstMemory
<1>4. TypeOK
  BY <1>1, <1>3, LaneLength, SMT
     DEF Init, TypeOK, Positions, Lanes, Offsets, Joinable, Live
<1>5. ControlInv
  BY LaneLength, SMT DEF Init, ControlInv, Filling
<1>6. BarrierInv
  BY <1>2, LaneLength, SMT DEF Init, BarrierInv, Passed, Launched, Live
<1>7. WorkerInv /\ PrevInv /\ ReferenceInv
  BY SMT DEF Init, WorkerInv, PrevInv, ReferenceInv
<1>8. ComputedInv
  <2> SUFFICES ASSUME NEW l \in Lanes, NEW j \in Offsets,
                      \/ pass > 0
                      \/ j < 2
                      \/ j < Curr(slice, 0)
                      \/ j < Curr(slice, pos[l].index)
               PROVE  memory[l][j] \in Block
    BY DEF ComputedInv
  <2>1. j \in {0, 1}
    BY <1>1, LaneLength, SMT DEF Init, Curr, Offsets
  <2> QED BY <2>1, BlockAssumption, SMT DEF Init, FirstMemory
<1> QED BY <1>4, <1>5, <1>6, <1>7, <1>8 DEF IInv

(* A step of the calling thread within a slice: it starts no worker, and it
   may join one that has exited.                                            *)
LEMMA MainStep ==
  ASSUME IInv, TypeOK', ControlInv',
         UNCHANGED <<pass, slice, work>>,
         \A l \in Lanes : \/ thread'[l] = thread[l]
                          \/ thread[l] = "exited" /\ thread'[l] = "joined",
         \A l \in Lanes : thread[l] = "created" => thr_data'[l] = thr_data[l],
         \A l \in Lanes : Passed(l)' => Passed(l) \/ thread'[l] \notin Live,
         \A l \in Lanes : Launched(l)' => Launched(l)
  PROVE  IInv'
<1>1. \A l \in Lanes : /\ thread'[l] \in Live <=> thread[l] \in Live
                       /\ thread'[l] \in Live => thread'[l] = thread[l]
  BY DEF Live
<1>2. BarrierInv'
  BY <1>1 DEF IInv, BarrierInv, work
<1>3. WorkerInv'
  BY <1>1 DEF IInv, WorkerInv, work, Live
<1>4. PrevInv' /\ ReferenceInv'
  BY <1>1 DEF IInv, PrevInv, ReferenceInv, work, Live
<1>5. ComputedInv'
  BY DEF IInv, ComputedInv, work
<1> QED BY <1>2, <1>3, <1>4, <1>5 DEF IInv

(* The end of a slice: every lane has had its segment filled. *)
LEMMA EndSliceStep ==
  ASSUME IInv, TypeOK', NEW next \in {"lane", "call"}, EndSlice(next),
         pc \in Filling, next = "call" => threads = 1,
         UNCHANGED work,
         \A l \in Lanes : thread[l] \notin Live /\ thread'[l] \notin Live,
         \A l \in Lanes : Launched(l)
  PROVE  IInv'
<1>1. pass \in 0 .. passes - 1 /\ slice \in {0, 1, 2, 3}
  BY LaneLength, SMT DEF IInv, TypeOK, ControlInv, Slices, ARGON2_SYNC_POINTS
<1>2. /\ slice' = IF slice = 3 THEN 0 ELSE slice + 1
      /\ pass' = IF slice = 3 THEN pass + 1 ELSE pass
      /\ pc' = IF pass' = passes THEN "fail" ELSE next
      /\ lane' = 0
  BY <1>1, SMT DEF EndSlice, ARGON2_SYNC_POINTS
<1>3. \A l \in Lanes : /\ pos[l].pass = pass /\ pos[l].slice = slice
                       /\ pos[l].index = segment_length
  BY DEF IInv, BarrierInv
<1>4. ControlInv'
  BY <1>1, <1>2, LaneLength, SMT DEF ControlInv, Filling, TypeOK
<1>5. BarrierInv'
  BY <1>2, LaneLength, SMT DEF BarrierInv, Launched, Lanes
<1>6. WorkerInv'
  BY DEF IInv, WorkerInv, Live, work
<1>7. PrevInv' /\ ReferenceInv'
  BY DEF PrevInv, ReferenceInv, Live
<1>8. ComputedInv'
  <2> SUFFICES ASSUME NEW l \in Lanes, NEW j \in Offsets,
                      \/ pass' > 0
                      \/ j < 2
                      \/ j < Curr(slice', 0)
                      \/ /\ pos'[l].pass = pass' /\ pos'[l].slice = slice'
                         /\ j < Curr(slice', pos'[l].index)
               PROVE  memory'[l][j] \in Block
    BY DEF ComputedInv
  <2>1. memory'[l][j] = memory[l][j] /\ pos'[l] = pos[l]
    BY DEF work
  <2>2. j < lane_length /\ j \in Nat
    BY LaneLength, SMT DEF Offsets
  <2>3. pass > 0 \/ j < 2 \/ j < Curr(slice, segment_length)
    BY <1>1, <1>2, <1>3, <2>1, <2>2, LaneLength, SMT DEF Curr
  <2> QED BY <1>3, <2>1, <2>3 DEF IInv, ComputedInv
<1> QED BY <1>4, <1>5, <1>6, <1>7, <1>8 DEF IInv

LEMMA CallocStep == IInv /\ (CallocThread \/ CallocThrData) => IInv'
<1> SUFFICES ASSUME IInv, CallocThread \/ CallocThrData PROVE IInv'
  OBVIOUS
<1>1. TypeOK' /\ ControlInv'
  BY LaneLength, SMT DEF IInv, TypeOK, ControlInv, Filling, CallocThread,
         CallocThrData, Calloc, work
<1>2. \A l \in Lanes : Passed(l)' => Passed(l)
  BY SMT DEF Passed, CallocThread, CallocThrData, Calloc
<1>3. \A l \in Lanes : ~ Launched(l)'
  BY LaneLength, SMT DEF Launched, CallocThread, CallocThrData, Calloc, IInv, ControlInv, Lanes
<1>4. UNCHANGED <<pass, slice, thread, work, thr_data>>
  BY DEF CallocThread, CallocThrData, Calloc
<1> QED BY <1>1, <1>2, <1>3, <1>4, MainStep

(* Leaving the loops with an error, and returning. *)
LEMMA LeaveStep ==
  ASSUME IInv, FailedJoin \/ CleanupDone \/ Return
  PROVE  IInv'
<1>1. TypeOK' /\ ControlInv'
  BY LaneLength, SMT DEF IInv, TypeOK, ControlInv, Filling, FailedJoin, CleanupDone, Return, work
<1>2. \A l \in Lanes : ~ Passed(l)' /\ ~ Launched(l)'
  BY SMT DEF Passed, Launched, FailedJoin, CleanupDone, Return
<1>3. UNCHANGED <<pass, slice, thread, work, thr_data>>
  BY DEF FailedJoin, CleanupDone, Return
<1> QED BY <1>1, <1>2, <1>3, MainStep

LEMMA CleanupJoinStep ==
  ASSUME IInv, CleanupJoin
  PROVE  IInv'
<1> DEFINE then == ll' = ll + 1 /\ UNCHANGED <<pc, pass, slice, lane, rc>>
<1>0. pc = "cleanup" /\ ll \in Lanes /\ ll \in Nat /\ ll + 1 \in 0 .. lanes
  BY LaneLength, SMT DEF CleanupJoin, IInv, TypeOK, Lanes
<1>1. /\ UNCHANGED <<seed, pass, slice, lane, rc, thr_data, work>>
      /\ pc' \in {"cleanup", "undefined"}
      /\ ll' \in 0 .. lanes
      /\ \A l \in Lanes :
           \/ thread'[l] = thread[l]
           \/ thread[l] = "exited" /\ thread'[l] = "joined"
      /\ thread' \in [Lanes -> Joinable \union {"none", "joined"}]
  <2>1. CASE Join(ll, then)
    BY <1>0, <2>1, SMT DEF Join, IInv, TypeOK
  <2>2. CASE ll' = ll + 1 /\ UNCHANGED <<seed, pc, pass, slice, lane, rc, thr_data, thread, work>>
    BY <1>0, <2>2 DEF IInv, TypeOK
  <2> QED BY <2>1, <2>2 DEF CleanupJoin
<1>2. TypeOK' /\ ControlInv'
  BY <1>0, <1>1, LaneLength, SMT DEF IInv, TypeOK, ControlInv, Filling, work
<1>3. \A l \in Lanes : ~ Passed(l)' /\ ~ Launched(l)'
  BY <1>1, SMT DEF Passed, Launched
<1> QED BY <1>1, <1>2, <1>3, MainStep

LEMMA JoinForRoomStep ==
  ASSUME IInv, JoinForRoom
  PROVE  IInv'
<1>1. CASE FailedJoin
  BY <1>1, LeaveStep
<1>2. CASE Join(lane - threads, pc' = "create" /\ UNCHANGED <<pass, slice, lane, ll, rc>>)
  <2>1. lane - threads \in Lanes /\ lane \in Nat
    BY LaneLength, SMT DEF JoinForRoom, IInv, TypeOK, Lanes
  <2>2. /\ UNCHANGED <<seed, pass, slice, lane, ll, rc, thr_data, work>>
        /\ pc' \in {"create", "undefined"}
        /\ pc = "lane" /\ lane >= threads
        /\ \A l \in Lanes : \/ thread'[l] = thread[l]
                            \/ thread[l] = "exited" /\ thread'[l] = "joined"
        /\ thread' \in [Lanes -> Joinable \union {"none", "joined"}]
        /\ thread'[lane - threads] \notin Live
    BY <1>2, <2>1, SMT DEF JoinForRoom, Join, IInv, TypeOK, Live
  <2>3. TypeOK' /\ ControlInv'
    BY <2>2, LaneLength, SMT DEF IInv, TypeOK, ControlInv, Filling, work
  <2>4. \A l \in Lanes : Passed(l)' => Passed(l) \/ l = lane - threads
    BY <2>1, <2>2, LaneLength, SMT DEF Passed, Lanes
  <2>5. \A l \in Lanes : Launched(l)' => Launched(l)
    BY <2>2, SMT DEF Launched
  <2> QED BY <2>2, <2>3, <2>4, <2>5, MainStep
<1> QED BY <1>1, <1>2 DEF JoinForRoom

LEMMA JoinRestStep ==
  ASSUME IInv, JoinRest
  PROVE  IInv'
<1> DEFINE then == IF lane + 1 < lanes
                   THEN lane' = lane + 1 /\ UNCHANGED <<pc, pass, slice, ll, rc>>
                   ELSE EndSlice("lane") /\ UNCHANGED <<ll, rc>>
<1>1. CASE FailedJoin
  BY <1>1, LeaveStep
<1>2. CASE Join(lane, then)
  <2>1. lane \in Lanes /\ lane \in Nat /\ pc = "join_rest" /\ lane >= lanes - threads
    BY LaneLength, SMT DEF JoinRest, IInv, TypeOK, Lanes, ControlInv
  <2>2. /\ UNCHANGED <<seed, thr_data, work>>
        /\ \A l \in Lanes : \/ thread'[l] = thread[l]
                            \/ thread[l] = "exited" /\ thread'[l] = "joined"
        /\ thread' \in [Lanes -> Joinable \union {"none", "joined"}]
        /\ thread[lane] \notin Live /\ thread'[lane] \notin Live
    BY <1>2, <2>1, SMT DEF Join, IInv, TypeOK, Live
  <2>3. CASE pc' = "undefined" /\ UNCHANGED <<pass, slice, lane, ll, rc>>
    <3>1. ControlInv'
      BY <2>3, SMT DEF ControlInv, Filling
    <3>2. TypeOK'
      BY <2>2, <2>3, SMT DEF IInv, TypeOK, work
    <3>3. \A l \in Lanes : ~ Passed(l)' /\ ~ Launched(l)'
      BY <2>3, SMT DEF Passed, Launched
    <3> QED BY <2>2, <2>3, <3>1, <3>2, <3>3, MainStep
  <2>4. CASE lane + 1 < lanes /\ lane' = lane + 1 /\ UNCHANGED <<pc, pass, slice, ll, rc>>
    <3>1. lane' \in Lanes
      BY <2>1, <2>4, LaneLength, SMT DEF Lanes
    <3>2. TypeOK'
      BY <2>2, <2>4, <3>1, SMT DEF IInv, TypeOK, work
    <3>3. ControlInv'
      BY <2>1, <2>4, LaneLength, SMT DEF IInv, ControlInv, Filling
    <3>4. \A l \in Lanes : Passed(l)' => Passed(l) \/ l = lane
      BY <2>1, <2>4, SMT DEF Passed, Lanes
    <3>5. \A l \in Lanes : Launched(l)' => Launched(l)
      BY <2>1, <2>4, SMT DEF Launched
    <3> QED BY <2>2, <2>4, <3>2, <3>3, <3>4, <3>5, MainStep
  <2>5. CASE ~ (lane + 1 < lanes) /\ EndSlice("lane") /\ UNCHANGED <<ll, rc>>
    <3>1. \A l \in Lanes : l # lane => Passed(l)
      BY <2>1, <2>5, LaneLength, SMT DEF Passed, Lanes
    <3>2. \A l \in Lanes : thread[l] \notin Live /\ thread'[l] \notin Live
      BY <2>2, <3>1 DEF IInv, BarrierInv, Live
    <3>3. \A l \in Lanes : Launched(l)
      BY <2>1 DEF Launched
    <3>4. pc \in Filling
      BY <2>1 DEF Filling
    <3>5. TypeOK'
      <4>1. pass < passes /\ pass \in Nat
        BY <3>4, LaneLength, SMT DEF IInv, ControlInv, TypeOK
      <4>2. /\ slice' \in Slices /\ pass' \in 0 .. passes /\ lane' \in Lanes
            /\ pc' \in {"fail", "lane"}
        BY <4>1, <2>5, LaneLength, SMT
           DEF IInv, TypeOK, EndSlice, Lanes, Slices, ARGON2_SYNC_POINTS
      <4> QED BY <4>2, <2>2, <2>5, SMT DEF IInv, TypeOK, work
    <3> QED BY <2>2, <2>5, <3>2, <3>3, <3>4, <3>5, EndSliceStep
  <2> QED BY <1>2, <2>3, <2>4, <2>5, SMT DEF Join
<1> QED BY <1>1, <1>2 DEF JoinRest

(* A segment is handed to the thread of the current lane. *)
LEMMA CreateThreadStep ==
  ASSUME IInv, CreateThread
  PROVE  IInv'
<1> DEFINE arg == [pass |-> pass, slice |-> slice, lane |-> lane]
<1>1. /\ pc \in {"lane", "create"} /\ pass \in 0 .. passes - 1 /\ slice \in Slices
      /\ lane \in Lanes /\ lane \in Nat /\ lane < lanes
      /\ pc = "create" => lane >= threads
      /\ pc = "lane" => lane < threads
  <2>1. /\ pc = "create" \/ (pc = "lane" /\ lane < threads)
        /\ slice \in Slices /\ pass \in 0 .. passes /\ lane \in Lanes
    BY DEF CreateThread, AtCreate, IInv, TypeOK
  <2>2. pc \in {"lane", "create"} /\ pc \in Filling
    BY <2>1 DEF Filling
  <2>3. pass < passes /\ (pc = "create" => lane >= threads)
    BY <2>2 DEF IInv, ControlInv
  <2>4. pc = "lane" => lane < threads
    BY <2>1
  <2>5. lane \in Nat /\ lane < lanes /\ pass \in 0 .. passes - 1
    BY <2>1, <2>3, LaneLength, SMT DEF Lanes
  <2> QED BY <2>1, <2>2, <2>3, <2>4, <2>5
<1>2. /\ UNCHANGED <<seed, pass, slice, work>>
      /\ thr_data' = [thr_data EXCEPT ![lane] = arg]
      /\ thr_data' \in [Lanes -> [pass : 0 .. passes - 1, slice : Slices, lane : Lanes]]
  BY <1>1 DEF CreateThread, IInv, TypeOK
<1>3. thread[lane] \notin Live
  BY <1>1, LaneLength, SMT DEF IInv, BarrierInv, Passed
<1>4. CASE pc' = "cleanup" /\ ll' = 0 /\ UNCHANGED <<thread, lane, rc>>
  <2>1. ControlInv'
    BY <1>1, <1>2, <1>4, LaneLength, SMT DEF ControlInv, Filling
  <2>2. TypeOK'
    BY <1>2, <1>4, LaneLength, SMT DEF IInv, TypeOK, work
  <2>3. \A l \in Lanes : ~ Passed(l)' /\ ~ Launched(l)'
    BY <1>4, SMT DEF Passed, Launched
  <2>4. \A l \in Lanes : thread[l] = "created" => thr_data'[l] = thr_data[l]
    BY <1>2, <1>3 DEF Live, IInv, TypeOK
  <2> QED BY <1>2, <1>4, <2>1, <2>2, <2>3, <2>4, MainStep
<1>5. CASE /\ thread' = [thread EXCEPT ![lane] = "created"]
           /\ IF lane + 1 < lanes
              THEN pc' = "lane" /\ lane' = lane + 1
              ELSE pc' = "join_rest" /\ lane' = lanes - threads
           /\ UNCHANGED <<ll, rc>>
  <2>1. lane' \in Lanes /\ pc' \in {"lane", "join_rest"}
    BY <1>1, <1>5, LaneLength, SMT DEF Lanes
  <2>2. TypeOK'
    BY <1>2, <1>5, <2>1, SMT DEF IInv, TypeOK, work, Joinable, Live
  <2>3. ControlInv'
    BY <1>1, <1>2, <1>5, LaneLength, SMT DEF ControlInv, Filling
  <2>4. thread'[lane] = "created" /\ \A l \in Lanes : l # lane => thread'[l] = thread[l]
    BY <1>1, <1>5 DEF IInv, TypeOK
  <2>5. \A l \in Lanes : Passed(l)' => Passed(l) /\ l # lane
    BY <1>1, <1>5, LaneLength, SMT DEF Passed, Lanes
  <2>6. \A l \in Lanes : Launched(l)' => Launched(l) \/ l = lane
    BY <1>1, <1>5, LaneLength, SMT DEF Launched, Lanes
  <2>7. BarrierInv'
    BY <1>2, <2>4, <2>5, <2>6 DEF IInv, BarrierInv, work, Live
  <2>8. WorkerInv'
    <3>1. thr_data'[lane] = arg /\ \A l \in Lanes : l # lane => thr_data'[l] = thr_data[l]
      BY <1>1, <1>2 DEF IInv, TypeOK
    <3>2. pass < passes
      BY <1>1, LaneLength, SMT
    <3> QED BY <1>2, <2>4, <3>1, <3>2 DEF IInv, WorkerInv, work
  <2>9. PrevInv' /\ ReferenceInv'
    BY <1>2, <2>4 DEF IInv, PrevInv, ReferenceInv, work
  <2>10. ComputedInv'
    BY <1>2 DEF IInv, ComputedInv, work
  <2> QED BY <2>2, <2>3, <2>7, <2>8, <2>9, <2>10 DEF IInv
<1> QED BY <1>4, <1>5 DEF CreateThread

(* A worker enters passe_fill_segment for its lane's segment of this slice. *)
LEMMA EnterStep ==
  ASSUME IInv, NEW l \in Lanes, NEW p, p.pass = pass, p.slice = slice, p.lane = l,
         EnterSegment(l, p), pass \in 0 .. passes - 1,
         UNCHANGED <<seed, memory, ref, pass, slice, lane, ll, rc, thr_data>>,
         pc' = pc \/ (pc = "call" /\ pc' = "segment" /\ lane = l),
         \A m \in Lanes : Passed(m)' => Passed(m) /\ m # l,
         \A m \in Lanes : Launched(m)' => Launched(m) \/ m = l
  PROVE  IInv'
<1> DEFINE i == StartingIndex(pass, slice)
           q == InitialPrev(Curr(slice, i))
<1>1. pass \in Nat /\ slice \in Slices
  BY LaneLength, SMT DEF IInv, TypeOK
<1>2. /\ i \in 0 .. segment_length /\ i <= 2
      /\ q \in 0 .. lane_length
      /\ q = Curr(slice, i) - 1 \/ (Curr(slice, i) = 0 /\ q = lane_length - 1)
  BY <1>1, Start
<1>3. /\ thread' = [thread EXCEPT ![l] = "address"]
      /\ pos' = [pos EXCEPT ![l] = [pass |-> pass, slice |-> slice, lane |-> l, index |-> i]]
      /\ prev' = [prev EXCEPT ![l] = q]
  BY DEF EnterSegment
<1>4. /\ thread'[l] = "address"
      /\ pos'[l] = [pass |-> pass, slice |-> slice, lane |-> l, index |-> i]
      /\ prev'[l] = q
      /\ \A m \in Lanes : m # l =>
            thread'[m] = thread[m] /\ pos'[m] = pos[m] /\ prev'[m] = prev[m]
  BY <1>3 DEF IInv, TypeOK
<1> HIDE DEF q
<1>5. TypeOK'
  BY <1>1, <1>2, <1>3, SMT DEF IInv, TypeOK, Positions, Joinable, Live
<1>6. ControlInv'
  BY SMT DEF IInv, ControlInv, Filling
<1>7. BarrierInv'
  BY <1>4 DEF IInv, BarrierInv, Live
<1>8. WorkerInv'
  <2>1. i >= StartingIndex(pass, slice)
    BY <1>2, SMT
  <2> QED BY <1>4, <2>1 DEF IInv, WorkerInv
<1>9. PrevInv'
  BY <1>2, <1>4 DEF IInv, PrevInv
<1>10. ReferenceInv'
  BY <1>4 DEF IInv, ReferenceInv
<1>11. ComputedInv'
  <2> SUFFICES ASSUME NEW m \in Lanes, NEW j \in Offsets,
                      \/ pass > 0
                      \/ j < 2
                      \/ j < Curr(slice, 0)
                      \/ /\ pos'[m].pass = pass /\ pos'[m].slice = slice
                         /\ j < Curr(slice, pos'[m].index)
               PROVE  memory[m][j] \in Block
    BY DEF ComputedInv
  <2>1. CASE m # l
    BY <1>4, <2>1 DEF IInv, ComputedInv
  <2>2. CASE m = l
    <3>1. pos'[m].index = i
      BY <1>4, <2>2
    <3>2. pass > 0 \/ j < 2 \/ j < Curr(slice, 0)
      <4>1. slice \in {0, 1, 2, 3}
        BY <1>1, SMT DEF Slices, ARGON2_SYNC_POINTS
      <4> QED BY <4>1, <1>1, <3>1, LaneLength, SMT DEF StartingIndex, Curr
    <3> QED BY <3>2 DEF IInv, ComputedInv
  <2> QED BY <2>1, <2>2
<1> QED BY <1>5, <1>6, <1>7, <1>8, <1>9, <1>10, <1>11 DEF IInv

LEMMA CallSegmentStep ==
  ASSUME IInv, CallSegment
  PROVE  IInv'
<1>1. /\ pc = "call" /\ pc' = "segment" /\ lane \in Lanes /\ lane \in Nat
      /\ pass \in 0 .. passes - 1
  BY LaneLength, SMT DEF CallSegment, IInv, TypeOK, ControlInv, Filling, Lanes
<1>2. UNCHANGED <<seed, memory, ref, pass, slice, lane, ll, rc, thr_data>>
  BY DEF CallSegment
<1>3. \A m \in Lanes : Passed(m)' => Passed(m) /\ m # lane
  BY <1>1, <1>2, SMT DEF Passed
<1>4. \A m \in Lanes : Launched(m)' => Launched(m) \/ m = lane
  BY <1>1, <1>2, SMT DEF Launched, Lanes
<1>5. EnterSegment(lane, [pass |-> pass, slice |-> slice, lane |-> lane])
  BY DEF CallSegment
<1> DEFINE p == [pass |-> pass, slice |-> slice, lane |-> lane]
<1>6. p.pass = pass /\ p.slice = slice /\ p.lane = lane
  OBVIOUS
<1> HIDE DEF p
<1> QED BY <1>1, <1>2, <1>3, <1>4, <1>5, <1>6, EnterStep DEF p

LEMMA SegmentReturnsStep ==
  ASSUME IInv, SegmentReturns
  PROVE  IInv'
<1>1. /\ pc = "segment" /\ lane \in Lanes /\ lane \in Nat /\ pc \in Filling
      /\ threads = 1 /\ pass \in 0 .. passes - 1 /\ slice \in Slices
  BY LaneLength, SMT DEF SegmentReturns, IInv, TypeOK, ControlInv, Filling, Lanes
<1>2. /\ UNCHANGED <<seed, work, ll, rc, thr_data>>
      /\ thread' = [thread EXCEPT ![lane] = "joined"]
      /\ thread[lane] = "exited"
  BY DEF SegmentReturns
<1>3. /\ thread'[lane] = "joined"
      /\ \A l \in Lanes : l # lane => thread'[l] = thread[l]
      /\ thread' \in [Lanes -> Joinable \union {"none", "joined"}]
  BY <1>1, <1>2 DEF IInv, TypeOK
<1>4. CASE lane + 1 < lanes /\ pc' = "call" /\ lane' = lane + 1 /\ UNCHANGED <<pass, slice>>
  <2>1. TypeOK'
    <3>1. lane' \in Lanes
      BY <1>1, <1>4, LaneLength, SMT DEF Lanes
    <3> QED BY <1>2, <1>3, <1>4, <3>1, SMT DEF IInv, TypeOK, work
  <2>2. ControlInv'
    BY <1>1, <1>2, <1>4, LaneLength, SMT DEF ControlInv, Filling
  <2>3. \A l \in Lanes : Passed(l)' => Passed(l) \/ thread'[l] \notin Live
    BY <1>1, <1>3 DEF Passed, Live
  <2>4. \A l \in Lanes : Launched(l)' => Launched(l)
    BY <1>1, <1>4, SMT DEF Launched, Lanes
  <2> QED BY <1>2, <1>3, <1>4, <2>1, <2>2, <2>3, <2>4, MainStep
<1>5. CASE ~ (lane + 1 < lanes) /\ EndSlice("call")
  <2>1. \A l \in Lanes : thread[l] \notin Live /\ thread'[l] \notin Live
    BY <1>1, <1>2, <1>3 DEF IInv, BarrierInv, Passed, Live
  <2>2. \A l \in Lanes : Launched(l)
    BY <1>1, <1>5, LaneLength, SMT DEF Launched, Lanes
  <2>3. TypeOK'
    <3>1. /\ slice' \in Slices /\ pass' \in 0 .. passes /\ lane' \in Lanes
          /\ pc' \in {"fail", "call"}
      BY <1>1, <1>5, LaneLength, SMT DEF EndSlice, Lanes, Slices, ARGON2_SYNC_POINTS
    <3> QED BY <1>2, <1>3, <3>1, SMT DEF IInv, TypeOK, work
  <2> QED BY <1>1, <1>2, <1>5, <2>1, <2>2, <2>3, EndSliceStep
<1> QED BY <1>4, <1>5 DEF SegmentReturns

(***************************************************************************)
(* The workers' steps: the calling thread does not move.                     *)
(***************************************************************************)

LEMMA ThreadStartStep ==
  ASSUME NEW l \in Lanes, IInv, ThreadStart(l)
  PROVE  IInv'
<1>1. /\ UNCHANGED <<seed, memory, ref, pc, pass, slice, lane, ll, rc, thr_data>>
      /\ thread[l] = "created" /\ EnterSegment(l, thr_data[l])
  BY DEF ThreadStart, main
<1>2. /\ thr_data[l] = [pass |-> pass, slice |-> slice, lane |-> l]
      /\ pass \in 0 .. passes - 1
  <2>1. thr_data[l] = [pass |-> pass, slice |-> slice, lane |-> l] /\ pass < passes
    BY <1>1 DEF IInv, WorkerInv
  <2> QED BY <2>1, LaneLength, SMT DEF IInv, TypeOK
<1>3. ~ Passed(l)
  BY <1>1 DEF IInv, BarrierInv, Live
<1>4. \A m \in Lanes : Passed(m)' => Passed(m) /\ m # l
  BY <1>1, <1>3 DEF Passed
<1>5. \A m \in Lanes : Launched(m)' => Launched(m) \/ m = l
  BY <1>1 DEF Launched
<1> DEFINE p == thr_data[l]
<1>6. p.pass = pass /\ p.slice = slice /\ p.lane = l
  BY <1>2
<1> HIDE DEF p
<1> QED BY <1>1, <1>2, <1>4, <1>5, <1>6, EnterStep DEF p

LEMMA ChooseReferenceStep ==
  ASSUME NEW l \in Lanes, IInv, ChooseReference(l)
  PROVE  IInv'
<1> DEFINE curr == Curr(pos[l].slice, pos[l].index)
           before == RotatedPrev(curr, prev[l])
           r == Reference(memory, pos[l], before)
<1>1. /\ UNCHANGED <<seed, memory, pos, pc, pass, slice, lane, ll, rc, thr_data>>
      /\ thread[l] = "address" /\ pos[l].index < segment_length
      /\ thread' = [thread EXCEPT ![l] = "fill"]
      /\ prev' = [prev EXCEPT ![l] = before]
      /\ ref' = [ref EXCEPT ![l] = r]
  BY DEF ChooseReference, main
<1>2. /\ pos[l] \in Positions /\ pos[l].index \in 0 .. segment_length - 1
      /\ pos[l].pass = pass /\ pos[l].slice = slice /\ pos[l].lane = l
      /\ pos[l].index >= StartingIndex(pos[l].pass, pos[l].slice)
      /\ prev[l] \in Nat /\ slice \in Slices
  <2>1. pos[l] \in Positions /\ prev[l] \in Nat /\ slice \in Slices
    BY LaneLength, SMT DEF IInv, TypeOK
  <2>2. pos[l].index \in 0 .. segment_length - 1
    BY <1>1, <2>1, LaneLength, SMT DEF Positions
  <2>3. /\ pos[l].pass = pass /\ pos[l].slice = slice /\ pos[l].lane = l
        /\ pos[l].index >= StartingIndex(pass, slice)
    BY <1>1 DEF IInv, WorkerInv
  <2> QED BY <2>1, <2>2, <2>3
<1>3. curr \in Nat /\ curr < lane_length
  BY <1>2, CurrInLane, LaneLength, SMT
<1>4. before = IF curr = 0 THEN lane_length - 1 ELSE curr - 1
  <2>1. \/ prev[l] = curr - 1
        \/ curr = 0 /\ prev[l] = lane_length - 1
        \/ curr = 1 /\ prev[l] = lane_length
    BY <1>1 DEF IInv, PrevInv
  <2> HIDE DEF curr
  <2> QED BY <1>2, <1>3, <2>1, Rotation
<1>5. before \in Offsets /\ before \in 0 .. lane_length
  BY <1>3, <1>4, LaneLength, SMT DEF Offsets
<1> HIDE DEF before
<1>6. /\ r \in [lane : Lanes, offset : Offsets]
      /\ IF r.lane = l
         THEN /\ r.offset # curr /\ (pass = 0 => r.offset < curr)
              /\ r.offset # (IF curr = 0 THEN lane_length - 1 ELSE curr - 1)
         ELSE /\ \A i \in 0 .. segment_length - 1 : r.offset # Curr(slice, i)
              /\ pass = 0 => r.offset < Curr(slice, 0)
  <2>1. memory \in [Lanes -> [Offsets -> Block \union {Garbage}]]
    BY DEF IInv, TypeOK
  <2>2. pos[l].index < segment_length
    BY <1>1
  <2>3. /\ r \in [lane : Lanes, offset : Offsets]
        /\ IF r.lane = pos[l].lane
           THEN /\ r.offset # curr /\ (pos[l].pass = 0 => r.offset < curr)
                /\ r.offset # (IF curr = 0 THEN lane_length - 1 ELSE curr - 1)
           ELSE /\ \A i \in 0 .. segment_length - 1 : r.offset # Curr(pos[l].slice, i)
                /\ pos[l].pass = 0 => r.offset < Curr(pos[l].slice, 0)
    BY <1>2, <1>5, <2>1, <2>2, ReferenceLegal
  <2> HIDE DEF r, curr
  <2> QED BY <1>2, <2>3
<1> HIDE DEF r, curr
<1>7. /\ thread'[l] = "fill" /\ prev'[l] = before /\ ref'[l] = r
      /\ \A m \in Lanes : m # l =>
            thread'[m] = thread[m] /\ prev'[m] = prev[m] /\ ref'[m] = ref[m]
  BY <1>1 DEF IInv, TypeOK
<1>8. TypeOK'
  BY <1>1, <1>5, <1>6, SMT DEF IInv, TypeOK, Joinable, Live
<1>9. ControlInv'
  BY <1>1 DEF IInv, ControlInv
<1>10. BarrierInv'
  BY <1>1, <1>7 DEF IInv, BarrierInv, Live, Passed, Launched
<1>11. WorkerInv'
  BY <1>1, <1>7 DEF IInv, WorkerInv
<1>12. PrevInv'
  BY <1>1, <1>4, <1>7 DEF IInv, PrevInv, curr
<1>13. ReferenceInv'
  BY <1>1, <1>6, <1>7 DEF IInv, ReferenceInv, curr
<1>14. ComputedInv'
  BY <1>1 DEF IInv, ComputedInv
<1> QED BY <1>8, <1>9, <1>10, <1>11, <1>12, <1>13, <1>14 DEF IInv

LEMMA ThreadExitStep ==
  ASSUME NEW l \in Lanes, IInv, ThreadExit(l)
  PROVE  IInv'
<1>1. /\ UNCHANGED <<seed, memory, pos, prev, ref, pc, pass, slice, lane, ll, rc, thr_data>>
      /\ thread[l] = "address" /\ pos[l].index >= segment_length
      /\ thread' = [thread EXCEPT ![l] = "exited"]
  BY DEF ThreadExit, main, work
<1>2. thread'[l] = "exited" /\ \A m \in Lanes : m # l => thread'[m] = thread[m]
  BY <1>1 DEF IInv, TypeOK
<1>3. pos[l].pass = pass /\ pos[l].slice = slice /\ pos[l].index = segment_length
  <2>1. pos[l].index \in 0 .. segment_length
    BY DEF IInv, TypeOK, Positions
  <2>2. pos[l].index = segment_length
    BY <1>1, <2>1, LaneLength, SMT
  <2> QED BY <1>1, <2>2 DEF IInv, WorkerInv
<1>4. TypeOK'
  BY <1>1, SMT DEF IInv, TypeOK, Joinable, Live
<1>5. ControlInv'
  BY <1>1 DEF IInv, ControlInv
<1>6. BarrierInv'
  BY <1>1, <1>2, <1>3 DEF IInv, BarrierInv, Live, Passed, Launched
<1>7. WorkerInv'
  BY <1>1, <1>2 DEF IInv, WorkerInv
<1>8. PrevInv' /\ ReferenceInv'
  BY <1>1, <1>2 DEF IInv, PrevInv, ReferenceInv
<1>9. ComputedInv'
  BY <1>1 DEF IInv, ComputedInv
<1> QED BY <1>4, <1>5, <1>6, <1>7, <1>8, <1>9 DEF IInv

(* A block that a worker is about to read has been computed. *)
LEMMA ReadComputed ==
  ASSUME NEW l \in Lanes, IInv, thread[l] = "fill"
  PROVE  /\ prev[l] \in Offsets /\ memory[l][prev[l]] \in Block
         /\ ref[l].lane \in Lanes /\ ref[l].offset \in Offsets
         /\ memory[ref[l].lane][ref[l].offset] \in Block
<1> DEFINE curr == Curr(slice, pos[l].index)
<1>1. /\ pos[l].index \in 0 .. segment_length - 1
      /\ pos[l].pass = pass /\ pos[l].slice = slice
      /\ pos[l].index >= StartingIndex(pass, slice)
      /\ slice \in {0, 1, 2, 3} /\ slice \in Slices /\ pass \in Nat
  <2>1. pos[l].index \in 0 .. segment_length /\ slice \in Slices /\ pass \in Nat
    BY LaneLength, SMT DEF IInv, TypeOK, Positions
  <2>2. /\ pos[l].pass = pass /\ pos[l].slice = slice
        /\ pos[l].index >= StartingIndex(pass, slice)
        /\ pos[l].index < segment_length
    BY DEF IInv, WorkerInv
  <2> QED BY <2>1, <2>2, LaneLength, SMT DEF Slices, ARGON2_SYNC_POINTS
<1>2. prev[l] = IF curr = 0 THEN lane_length - 1 ELSE curr - 1
  BY <1>1 DEF IInv, PrevInv
<1>3. ref[l].lane \in Lanes /\ ref[l].offset \in Offsets
  BY DEF IInv, TypeOK
<1>4. IF ref[l].lane = l
      THEN ref[l].offset # curr /\ (pass = 0 => ref[l].offset < curr)
      ELSE pass = 0 => ref[l].offset < Curr(slice, 0)
  BY <1>1 DEF IInv, ReferenceInv
<1>5. curr \in Nat /\ curr < lane_length
  BY <1>1, CurrInLane, LaneLength, SMT
<1>6. prev[l] \in Offsets
  <2> HIDE DEF curr
  <2> QED BY <1>2, <1>5, LaneLength, SMT DEF Offsets
<1>7. pass > 0 \/ prev[l] < curr
  BY <1>1, <1>2, LaneLength, SMT DEF StartingIndex, Curr
<1>8. memory[l][prev[l]] \in Block
  BY <1>1, <1>6, <1>7 DEF IInv, ComputedInv
<1>9. memory[ref[l].lane][ref[l].offset] \in Block
  <2>1. CASE pass > 0
    BY <1>3, <2>1 DEF IInv, ComputedInv
  <2>2. CASE pass = 0 /\ ref[l].lane = l
    BY <1>1, <1>3, <1>4, <2>2 DEF IInv, ComputedInv
  <2>3. CASE pass = 0 /\ ref[l].lane # l
    BY <1>3, <1>4, <2>3 DEF IInv, ComputedInv
  <2> QED BY <1>1, <2>1, <2>2, <2>3, SMT
<1> QED BY <1>3, <1>6, <1>8, <1>9

LEMMA FillBlockStep ==
  ASSUME NEW l \in Lanes, IInv, FillBlock(l)
  PROVE  IInv'
<1> DEFINE curr == Curr(slice, pos[l].index)
           b == NewBlock(memory, pos[l], prev[l], ref[l])
<1>1. /\ UNCHANGED <<seed, ref, pc, pass, slice, lane, ll, rc, thr_data>>
      /\ thread[l] = "fill"
      /\ thread' = [thread EXCEPT ![l] = "address"]
      /\ memory' = [memory EXCEPT ![pos[l].lane][Curr(pos[l].slice, pos[l].index)] = b]
      /\ pos' = [pos EXCEPT ![l].index = @ + 1]
      /\ prev' = [prev EXCEPT ![l] = @ + 1]
  BY DEF FillBlock, main
<1>2. /\ pos[l] \in Positions /\ pos[l].index \in 0 .. segment_length - 1
      /\ pos[l].pass = pass /\ pos[l].slice = slice /\ pos[l].lane = l
      /\ pos[l].index >= StartingIndex(pass, slice)
      /\ slice \in Slices /\ pass \in Nat
  <2>1. pos[l] \in Positions /\ slice \in Slices /\ pass \in Nat
    BY LaneLength, SMT DEF IInv, TypeOK
  <2>2. /\ pos[l].pass = pass /\ pos[l].slice = slice /\ pos[l].lane = l
        /\ pos[l].index >= StartingIndex(pass, slice)
        /\ pos[l].index < segment_length
    BY <1>1 DEF IInv, WorkerInv
  <2> QED BY <2>1, <2>2, LaneLength, SMT DEF Positions
<1>3. /\ curr \in Nat /\ curr < lane_length /\ curr \in Offsets
      /\ Curr(slice, pos[l].index + 1) = curr + 1
  <2>1. curr \in Nat /\ curr < lane_length
    BY <1>2, CurrInLane, LaneLength, SMT
  <2>2. Curr(slice, pos[l].index) = Curr(slice, 0) + pos[l].index
    BY <1>2, CurrInLane, LaneLength, SMT
  <2>3. Curr(slice, pos[l].index + 1) = Curr(slice, 0) + (pos[l].index + 1)
    <3>1. pos[l].index + 1 \in 0 .. segment_length
      BY <1>2, LaneLength, SMT
    <3> QED BY <1>2, <3>1, CurrInLane
  <2>4. Curr(slice, 0) \in Nat
    BY <1>2, CurrInLane, LaneLength, SMT
  <2>5. Curr(slice, pos[l].index + 1) = curr + 1
    BY <1>2, <2>2, <2>3, <2>4, SMT
  <2> HIDE DEF curr
  <2> QED BY <2>1, <2>5, LaneLength, SMT DEF Offsets
<1>4. prev[l] = IF curr = 0 THEN lane_length - 1 ELSE curr - 1
  BY <1>1, <1>2 DEF IInv, PrevInv
<1>5. b \in Block
  <2> DEFINE g == Compress(memory[l][prev[l]], memory[ref[l].lane][ref[l].offset])
  <2>1. g \in Block
    BY <1>1, ReadComputed, BlockAssumption
  <2>2. pass # 0 => memory[l][curr] \in Block
    BY <1>2, <1>3, SMT DEF IInv, ComputedInv
  <2>3. b = IF WithXor(pass) THEN Xor(g, memory[l][curr]) ELSE g
    BY <1>2 DEF NewBlock
  <2> HIDE DEF b, g, curr
  <2> QED BY <2>1, <2>2, <2>3, BlockAssumption DEF WithXor
<1> HIDE DEF b
<1>6. /\ memory' = [memory EXCEPT ![l][curr] = b]
      /\ memory'[l][curr] = b
      /\ \A m \in Lanes, j \in Offsets :
            ~ (m = l /\ j = curr) => memory'[m][j] = memory[m][j]
  <2>1. memory' = [memory EXCEPT ![l][curr] = b]
    BY <1>1, <1>2
  <2> HIDE DEF curr
  <2> QED BY <2>1, <1>3 DEF IInv, TypeOK
<1>7. /\ thread'[l] = "address" /\ prev'[l] = prev[l] + 1
      /\ pos'[l] = [pos[l] EXCEPT !.index = @ + 1]
      /\ \A m \in Lanes : m # l =>
            thread'[m] = thread[m] /\ prev'[m] = prev[m] /\ pos'[m] = pos[m]
  BY <1>1 DEF IInv, TypeOK
<1>8. /\ pos'[l].pass = pass /\ pos'[l].slice = slice /\ pos'[l].lane = l
      /\ pos'[l].index = pos[l].index + 1 /\ pos'[l] \in Positions
  BY <1>2, <1>7, LaneLength, SMT DEF Positions
<1>9. TypeOK'
  <2>1. memory' \in [Lanes -> [Offsets -> Block \union {Garbage}]]
    <3> HIDE DEF curr
    <3> QED BY <1>3, <1>5, <1>6 DEF IInv, TypeOK
  <2>2. pos' \in [Lanes -> Positions]
    BY <1>1, <1>7, <1>8 DEF IInv, TypeOK
  <2>3. prev' \in [Lanes -> 0 .. lane_length]
    <3>1. prev[l] + 1 \in 0 .. lane_length
      <4> HIDE DEF curr
      <4> QED BY <1>3, <1>4, LaneLength, SMT
    <3> QED BY <1>1, <3>1 DEF IInv, TypeOK
  <2>4. thread' \in [Lanes -> Joinable \union {"none", "joined"}]
    BY <1>1 DEF IInv, TypeOK, Joinable, Live
  <2> QED BY <1>1, <2>1, <2>2, <2>3, <2>4 DEF IInv, TypeOK
<1>10. ControlInv'
  BY <1>1 DEF IInv, ControlInv
<1>11. BarrierInv'
  BY <1>1, <1>7 DEF IInv, BarrierInv, Live, Passed, Launched
<1>12. WorkerInv'
  <2>1. pos'[l].index >= StartingIndex(pass, slice)
    BY <1>2, <1>8, SMT DEF StartingIndex
  <2> QED BY <1>1, <1>7, <1>8, <2>1 DEF IInv, WorkerInv
<1>13. PrevInv'
  <2> SUFFICES ASSUME NEW m \in Lanes
               PROVE  LET c == Curr(pos'[m].slice, pos'[m].index)
                      IN  /\ thread'[m] = "address" =>
                               \/ prev'[m] = c - 1
                               \/ c = 0 /\ prev'[m] = lane_length - 1
                               \/ c = 1 /\ prev'[m] = lane_length
                          /\ thread'[m] = "fill" =>
                               prev'[m] = IF c = 0 THEN lane_length - 1 ELSE c - 1
    BY DEF PrevInv
  <2>1. CASE m # l
    BY <1>7, <2>1 DEF IInv, PrevInv
  <2>2. CASE m = l
    <3>1. Curr(pos'[m].slice, pos'[m].index) = curr + 1
      BY <1>3, <1>8, <2>2
    <3>2. prev'[m] = curr \/ (curr + 1 = 1 /\ prev'[m] = lane_length)
      <4> HIDE DEF curr
      <4> QED BY <1>3, <1>4, <1>7, <2>2, LaneLength, SMT
    <3> HIDE DEF curr
    <3> QED BY <1>3, <1>7, <2>2, <3>1, <3>2, SMT
  <2> QED BY <2>1, <2>2
<1>14. ReferenceInv'
  BY <1>1, <1>7 DEF IInv, ReferenceInv
<1>15. ComputedInv'
  <2> SUFFICES ASSUME NEW m \in Lanes, NEW j \in Offsets,
                      \/ pass > 0
                      \/ j < 2
                      \/ j < Curr(slice, 0)
                      \/ /\ pos'[m].pass = pass /\ pos'[m].slice = slice
                         /\ j < Curr(slice, pos'[m].index)
               PROVE  memory'[m][j] \in Block
    BY <1>1 DEF ComputedInv
  <2>1. CASE m = l /\ j = curr
    BY <1>5, <1>6, <2>1
  <2>2. CASE ~ (m = l /\ j = curr)
    <3>1. \/ pass > 0
          \/ j < 2
          \/ j < Curr(slice, 0)
          \/ /\ pos[m].pass = pass /\ pos[m].slice = slice
             /\ j < Curr(slice, pos[m].index)
      <4>1. CASE m # l
        BY <1>7, <4>1
      <4>2. CASE m = l
        <5>1. j < curr + 1 /\ j \in Nat => j < curr \/ j = curr
          <6> HIDE DEF curr
          <6> QED BY <1>3, SMT
        <5>2. j \in Nat
          BY LaneLength, SMT DEF Offsets
        <5> QED BY <1>2, <1>3, <1>8, <2>2, <4>2, <5>1, <5>2
      <4> QED BY <4>1, <4>2
    <3>2. memory[m][j] \in Block
      BY <3>1 DEF IInv, ComputedInv
    <3> QED BY <1>6, <2>2, <3>2
  <2> QED BY <2>1, <2>2
<1> QED BY <1>9, <1>10, <1>11, <1>12, <1>13, <1>14, <1>15 DEF IInv

LEMMA StutterStep == IInv /\ UNCHANGED vars => IInv'
<1> SUFFICES ASSUME IInv, UNCHANGED vars PROVE IInv' OBVIOUS
<1>1. /\ UNCHANGED <<pass, slice, thread, work, thr_data>>
      /\ UNCHANGED <<seed, pc, lane, ll, rc>>
  BY DEF vars, main
<1>2. TypeOK' /\ ControlInv'
  BY <1>1 DEF IInv, TypeOK, ControlInv, work
<1>3. \A l \in Lanes : (Passed(l)' => Passed(l)) /\ (Launched(l)' => Launched(l))
  BY <1>1 DEF Passed, Launched
<1> QED BY <1>1, <1>2, <1>3, MainStep

LEMMA NextInv == IInv /\ [Next]_vars => IInv'
<1> SUFFICES ASSUME IInv, [Next]_vars PROVE IInv' OBVIOUS
<1>1. CASE CallocThread \/ CallocThrData
  BY <1>1, CallocStep
<1>2. CASE JoinForRoom
  BY <1>2, JoinForRoomStep
<1>3. CASE CreateThread
  BY <1>3, CreateThreadStep
<1>4. CASE CleanupJoin
  BY <1>4, CleanupJoinStep
<1>5. CASE CleanupDone \/ Return
  BY <1>5, LeaveStep
<1>6. CASE JoinRest
  BY <1>6, JoinRestStep
<1>7. CASE CallSegment
  BY <1>7, CallSegmentStep
<1>8. CASE SegmentReturns
  BY <1>8, SegmentReturnsStep
<1>9. ASSUME NEW l \in Lanes, ThreadStart(l) PROVE IInv'
  BY <1>9, ThreadStartStep
<1>10. ASSUME NEW l \in Lanes, ChooseReference(l) PROVE IInv'
  BY <1>10, ChooseReferenceStep
<1>11. ASSUME NEW l \in Lanes, FillBlock(l) PROVE IInv'
  BY <1>11, FillBlockStep
<1>12. ASSUME NEW l \in Lanes, ThreadExit(l) PROVE IInv'
  BY <1>12, ThreadExitStep
<1>13. CASE UNCHANGED vars
  BY <1>13, StutterStep
<1> QED BY <1>1, <1>2, <1>3, <1>4, <1>5, <1>6, <1>7, <1>8, <1>9, <1>10, <1>11, <1>12, <1>13
        DEF Next, Main, Worker, Terminated

(* The inductive invariant holds in every state of
   passe_fill_memory_blocks.                                                *)
THEOREM Invariance == Spec => []IInv
<1>1. Init => IInv
  BY InitInv
<1>2. IInv /\ [Next]_vars => IInv'
  BY NextInv
<1> QED BY <1>1, <1>2, PTL DEF Spec

(* The variables keep their types (argon2/core.c, argon2/ref.c); for memory
   this says that only computed blocks are ever compressed.                 *)
THEOREM TypeCorrect == Spec => []TypeOK
<1>1. IInv => TypeOK
  BY DEF IInv
<1> QED BY <1>1, Invariance, PTL

(* No block is written while another thread reads or writes it: the threads of
   argon2/ref.c need no lock, for any number of lanes and threads.          *)
THEOREM RaceFreedom == Spec => []NoDataRace
<1>1. IInv => NoDataRace
  <2> SUFFICES ASSUME IInv, NEW l \in Lanes, NEW m \in Lanes, l # m,
                      NEW c \in Writes(l), c \in Reads(m) \union Writes(m)
               PROVE  FALSE
    BY DEF NoDataRace
  <2>1. /\ thread[l] = "fill" /\ c = <<l, Curr(slice, pos[l].index)>>
        /\ pos[l].index \in 0 .. segment_length - 1
    <3>1. thread[l] = "fill" /\ c = CurrCell(l)
      BY DEF Writes
    <3>2. /\ pos[l].lane = l /\ pos[l].slice = slice /\ pos[l].index < segment_length
      BY <3>1 DEF IInv, WorkerInv
    <3>3. pos[l].index \in 0 .. segment_length
      BY DEF IInv, TypeOK, Positions
    <3> QED BY <3>1, <3>2, <3>3, LaneLength, SMT DEF CurrCell, Cell
  <2>2. pos[m].lane = m
    BY DEF IInv, WorkerInv
  <2>3. c[1] = m \/ (thread[m] = "fill" /\ c = <<ref[m].lane, ref[m].offset>>)
    BY <2>2 DEF Reads, Writes, CurrCell, Cell
  <2>4. thread[m] = "fill" /\ ref[m].lane = l
        /\ ref[m].offset = Curr(slice, pos[l].index)
    BY <2>1, <2>3
  <2>5. pos[m].slice = slice /\ pos[m].pass = pass
    BY <2>4 DEF IInv, WorkerInv
  <2>6. \A i \in 0 .. segment_length - 1 : ref[m].offset # Curr(slice, i)
    BY <2>4, <2>5 DEF IInv, ReferenceInv
  <2> QED BY <2>1, <2>4, <2>6
<1> QED BY <1>1, Invariance, PTL

(* No worker reads memory that nobody has written since malloc, and no block
   is compressed with itself (argon2/ref.c).                                *)
THEOREM ComputedReads == Spec => []ReadsComputedBlocks
<1>1. IInv => ReadsComputedBlocks
  <2> SUFFICES ASSUME IInv, NEW l \in Lanes, NEW c \in Reads(l)
               PROVE  memory[c[1]][c[2]] \in Block /\ c # CurrCell(l)
    BY DEF ReadsComputedBlocks
  <2> DEFINE curr == Curr(slice, pos[l].index)
             before == IF curr = 0 THEN lane_length - 1 ELSE curr - 1
  <2>1. /\ thread[l] \in {"address", "fill"} /\ pos[l].index < segment_length
        /\ \/ thread[l] = "address" /\ c = Cell(pos[l].lane, RotatedPrev(curr, prev[l]))
           \/ thread[l] = "fill" /\ c = Cell(pos[l].lane, prev[l])
           \/ thread[l] = "fill" /\ c = Cell(ref[l].lane, ref[l].offset)
    BY DEF Reads, IInv, WorkerInv
  <2>2. /\ pos[l].pass = pass /\ pos[l].slice = slice /\ pos[l].lane = l
        /\ pos[l].index >= StartingIndex(pass, slice)
    BY <2>1 DEF IInv, WorkerInv
  <2>3. pos[l].index \in 0 .. segment_length - 1 /\ slice \in {0, 1, 2, 3}
        /\ slice \in Slices /\ pass \in Nat /\ prev[l] \in Nat
    BY <2>1, LaneLength, SMT DEF IInv, TypeOK, Positions, Slices, ARGON2_SYNC_POINTS
  <2>4. curr \in Nat /\ curr < lane_length
    BY <2>3, CurrInLane, LaneLength, SMT
  <2>5. CurrCell(l) = <<l, curr>>
    BY <2>2 DEF CurrCell, Cell
  <2>6. before \in Offsets /\ before # curr
    <3> HIDE DEF curr
    <3> QED BY <2>4, LaneLength, SMT DEF Offsets
  <2>7. memory[l][before] \in Block
    <3>1. pass > 0 \/ before < curr
      BY <2>2, <2>3, LaneLength, SMT DEF StartingIndex, Curr
    <3> QED BY <2>2, <2>6, <3>1 DEF IInv, ComputedInv
  <2>8. CASE thread[l] = "address" /\ c = Cell(pos[l].lane, RotatedPrev(curr, prev[l]))
    <3>1. \/ prev[l] = curr - 1
          \/ curr = 0 /\ prev[l] = lane_length - 1
          \/ curr = 1 /\ prev[l] = lane_length
      BY <2>2, <2>8 DEF IInv, PrevInv
    <3>2. RotatedPrev(curr, prev[l]) = before
      <4> HIDE DEF curr
      <4> QED BY <2>3, <2>4, <3>1, Rotation
    <3> HIDE DEF before, curr
    <3> QED BY <2>2, <2>5, <2>6, <2>7, <2>8, <3>2 DEF Cell
  <2>9. CASE thread[l] = "fill" /\ c = Cell(pos[l].lane, prev[l])
    <3>1. prev[l] = before
      BY <2>2, <2>9 DEF IInv, PrevInv
    <3> HIDE DEF before, curr
    <3> QED BY <2>2, <2>5, <2>6, <2>7, <2>9, <3>1 DEF Cell
  <2>10. CASE thread[l] = "fill" /\ c = Cell(ref[l].lane, ref[l].offset)
    <3>1. memory[ref[l].lane][ref[l].offset] \in Block
      BY <2>10, ReadComputed
    <3>2. ref[l].lane = l => ref[l].offset # curr
      BY <2>2, <2>10 DEF IInv, ReferenceInv
    <3> HIDE DEF curr
    <3> QED BY <2>5, <2>10, <3>1, <3>2 DEF Cell
  <2> QED BY <2>1, <2>8, <2>9, <2>10
<1> QED BY <1>1, Invariance, PTL

(* The two blocks that fill_block compresses (argon2/ref.c) are different ones:
   the same block twice would XOR to zero.                                  *)
THEOREM DistinctInputs == Spec => []DistinctOperands
<1>1. IInv => DistinctOperands
  <2> SUFFICES ASSUME IInv, NEW l \in Lanes, thread[l] = "fill"
               PROVE  Cell(ref[l].lane, ref[l].offset) # Cell(pos[l].lane, prev[l])
    BY DEF DistinctOperands
  <2> DEFINE curr == Curr(pos[l].slice, pos[l].index)
             before == IF curr = 0 THEN lane_length - 1 ELSE curr - 1
  <2>1. prev[l] = before
    BY DEF IInv, PrevInv
  <2>2. ref[l].lane = l => ref[l].offset # before
    BY DEF IInv, ReferenceInv
  <2>3. pos[l].lane = l
    BY DEF IInv, WorkerInv
  <2> HIDE DEF before
  <2> QED BY <2>1, <2>2, <2>3 DEF Cell
<1> QED BY <1>1, Invariance, PTL

=============================================================================
