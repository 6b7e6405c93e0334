----------------------- MODULE Argon2RefinementProofs -----------------------
(***************************************************************************)
(* The threads of passe_fill_memory_blocks implement Argon2Passes, they are  *)
(* all joined when it returns, none is joined twice, and there are never     *)
(* more of them than asked for: for any number of lanes, threads and passes. *)
(***************************************************************************)
EXTENDS Argon2FillProofs, FiniteSetTheorems

(***************************************************************************)
(* The operators of Argon2Passes are those of Argon2Fill.                    *)
(***************************************************************************)

LEMMA SameSizes ==
  /\ Abstract!lane_length = lane_length
  /\ Abstract!Lanes = Lanes
  /\ \A s, i : Abstract!Curr(s, i) = Curr(s, i)
  /\ \A c : Abstract!PrevOf(c) = PrevOf(c)
  /\ \A r, s : Abstract!StartingIndex(r, s) = StartingIndex(r, s)
<1>1. Abstract!lane_length = lane_length
  BY DEF Abstract!lane_length, lane_length, Abstract!ARGON2_SYNC_POINTS, ARGON2_SYNC_POINTS
<1> QED BY <1>1 DEF Abstract!Lanes, Lanes, Abstract!Curr, Curr, Abstract!PrevOf, PrevOf,
                    Abstract!StartingIndex, StartingIndex

LEMMA SameIndex ==
  ASSUME NEW r, NEW s, NEW i, NEW rand, NEW same
  PROVE  Abstract!index_alpha(r, s, i, rand, same) = index_alpha(r, s, i, rand, same)
<1>1. Abstract!ReferenceAreaSize(r, s, i, same) = ReferenceAreaSize(r, s, i, same)
  BY SameSizes DEF Abstract!ReferenceAreaSize, ReferenceAreaSize, Abstract!U32, U32
<1>2. Abstract!StartPosition(r, s) = StartPosition(r, s)
  BY DEF Abstract!StartPosition, StartPosition, Abstract!ARGON2_SYNC_POINTS, ARGON2_SYNC_POINTS
<1>3. \A a : Abstract!RelativePosition(a, rand) = RelativePosition(a, rand)
  BY DEF Abstract!RelativePosition, RelativePosition, Abstract!U32, U32
<1> QED BY <1>1, <1>2, <1>3, SameSizes DEF Abstract!index_alpha, index_alpha

LEMMA SameReference ==
  ASSUME NEW mem, NEW p, NEW before
  PROVE  Abstract!Reference(mem, p, before) = Reference(mem, p, before)
<1>1. \A r, s : Abstract!DataIndependent(r, s) = DataIndependent(r, s)
  BY DEF Abstract!DataIndependent, DataIndependent, Abstract!ARGON2_SYNC_POINTS, ARGON2_SYNC_POINTS
<1>2. Abstract!PseudoRand(mem, p, before) = PseudoRand(mem, p, before)
  BY <1>1 DEF Abstract!PseudoRand, PseudoRand
<1>3. \A rand : Abstract!RefLane(p, rand) = RefLane(p, rand)
  BY DEF Abstract!RefLane, RefLane
<1> QED BY <1>2, <1>3, SameIndex DEF Abstract!Reference, Reference

LEMMA SameFillAt ==
  ASSUME NEW mem, NEW p
  PROVE  Abstract!FillAt(mem, p) = FillAt(mem, p)
<1>1. \A before, r : Abstract!NewBlock(mem, p, before, r) = NewBlock(mem, p, before, r)
  BY SameSizes DEF Abstract!NewBlock, NewBlock, Abstract!WithXor, WithXor
<1> QED BY <1>1, SameSizes, SameReference DEF Abstract!FillAt, FillAt

(***************************************************************************)
(* RInv is an invariant.                                                     *)
(***************************************************************************)

LEMMA InitRInv == Init => RInv
<1> SUFFICES ASSUME Init PROVE RInv
  OBVIOUS
<1>1. \A l \in Lanes : thread[l] = "none" /\ l \in Nat
  BY LaneLength, SMT DEF Init, Lanes
<1>2. JoinedInv
  BY <1>1 DEF JoinedInv
<1>3. PendingInv
  <2>1. \A l \in Lanes : ~ Launched(l)
    BY <1>1, LaneLength, SMT DEF Init, Launched
  <2>2. pc # "cleanup"
    BY DEF Init
  <2> QED BY <2>1, <2>2 DEF PendingInv, Pending
<1>4. WindowInv
  <2>1. 0 \in 1 - threads .. lanes
    BY LaneLength, SMT
  <2> QED BY <1>1, <2>1 DEF WindowInv, Joinable, Live
<1>5. ResultInv
  BY DEF Init, ResultInv
<1>6. FreshInv
  BY DEF Init, FreshInv
<1>7. ChoiceInv
  BY <1>1 DEF ChoiceInv
<1> QED BY <1>2, <1>3, <1>4, <1>5, <1>6, <1>7 DEF RInv

(* A step of the calling thread within a slice that starts no worker. *)
LEMMA MainRStep ==
  ASSUME RInv, UNCHANGED <<pass, slice, work>>, ResultInv',
         \A l \in Lanes : \/ thread'[l] = thread[l]
                          \/ thread[l] = "exited" /\ thread'[l] = "joined",
         \A l \in Lanes : Settled(l)' => Settled(l) \/ thread'[l] \in {"none", "joined"},
         \A l \in Lanes : Pending(l)' => Pending(l) /\ thread'[l] = thread[l],
         \A l \in Lanes : Waiting(l)' => Waiting(l)
  PROVE  RInv'
<1>1. JoinedInv'
  BY DEF RInv, JoinedInv
<1>2. PendingInv'
  BY DEF RInv, PendingInv
<1>3. WindowInv'
  <2>1. \A l \in Lanes : thread'[l] \in Joinable => thread[l] \in Joinable
    BY DEF Joinable, Live
  <2> QED BY <2>1 DEF RInv, WindowInv
<1>4. FreshInv'
  BY DEF RInv, FreshInv, work
<1>5. ChoiceInv'
  BY DEF RInv, ChoiceInv, work
<1> QED BY <1>1, <1>2, <1>3, <1>4, <1>5 DEF RInv

(* The end of a slice. *)
LEMMA EndSliceRStep ==
  ASSUME IInv, RInv, NEW next \in {"lane", "call"}, EndSlice(next), pc \in Filling,
         UNCHANGED <<work, rc>>,
         \A l \in Lanes : thread'[l] \in {"none", "joined"},
         \A l \in Lanes : thread[l] \notin Live /\ Launched(l)
  PROVE  RInv'
<1>1. lane' = 0 /\ pc' \in {"fail", "lane", "call"}
  BY DEF EndSlice
<1>2. \A l \in Lanes : l \in Nat
  BY LaneLength, SMT DEF Lanes
<1>3. JoinedInv'
  BY DEF JoinedInv
<1>4. PendingInv'
  <2>1. \A l \in Lanes : ~ Launched(l)'
    BY <1>1, <1>2, SMT DEF Launched
  <2> QED BY <1>1, <2>1 DEF PendingInv, Pending
<1>5. WindowInv'
  <2>1. 0 \in 1 - threads .. lanes
    BY LaneLength, SMT
  <2> QED BY <2>1 DEF WindowInv, Joinable, Live
<1>6. ResultInv'
  <2>1. pc \notin {"fail", "returned"}
    BY DEF Filling
  <2> QED BY <2>1 DEF RInv, ResultInv
<1>7. FreshInv'
  <2>1. \A l \in Lanes : pos'[l].slice = slice
    BY DEF IInv, BarrierInv, work
  <2>2. slice' # slice
    <3>1. slice \in {0, 1, 2, 3}
      BY SMT DEF IInv, TypeOK, Slices, ARGON2_SYNC_POINTS
    <3> QED BY <3>1, SMT DEF EndSlice, ARGON2_SYNC_POINTS
  <2> QED BY <2>1, <2>2 DEF FreshInv
<1>8. ChoiceInv'
  BY DEF ChoiceInv
<1> QED BY <1>3, <1>4, <1>5, <1>6, <1>7, <1>8 DEF RInv

(* A step of the worker of lane l. *)
LEMMA WorkerRStep ==
  ASSUME NEW l \in Lanes, IInv, RInv, UNCHANGED main,
         thread[l] \in Live, thread'[l] \in Joinable,
         \A m \in Lanes : m # l => thread'[m] = thread[m] /\ pos'[m] = pos[m],
         thread'[l] # "created", Waiting(l) => pos'[l] = pos[l],
         ChoiceInv'
  PROVE  RInv'
<1>1. UNCHANGED <<pc, pass, slice, lane, ll, rc>>
  BY DEF main
<1>2. thread[l] \in Joinable /\ thread[l] \notin {"none", "joined"}
  BY DEF Joinable, Live
<1>3. JoinedInv'
  <2>1. \A m \in Lanes : Settled(m)' <=> Settled(m)
    BY <1>1 DEF Settled, Passed, Cleaned
  <2> QED BY <1>2, <2>1 DEF RInv, JoinedInv
<1>4. PendingInv'
  <2>1. \A m \in Lanes : Pending(m)' <=> Pending(m)
    BY <1>1 DEF Pending, Launched, Passed
  <2> QED BY <2>1 DEF RInv, PendingInv
<1>5. WindowInv'
  <2>1. \A m \in Lanes : thread'[m] \in Joinable => thread[m] \in Joinable
    BY <1>2
  <2> QED BY <2>1 DEF RInv, WindowInv
<1>6. ResultInv'
  BY <1>1 DEF RInv, ResultInv
<1>7. FreshInv'
  <2>1. \A m \in Lanes : Waiting(m)' <=> Waiting(m)
    BY <1>1 DEF Waiting
  <2> QED BY <1>1, <2>1 DEF RInv, FreshInv
<1> QED BY <1>3, <1>4, <1>5, <1>6, <1>7 DEF RInv

(***************************************************************************)
(* The steps of the calling thread.                                          *)
(***************************************************************************)

LEMMA CallocRStep ==
  ASSUME IInv, RInv, CallocThread \/ CallocThrData
  PROVE  RInv'
<1>1. /\ pc \in {"calloc_thread", "calloc_thr_data"} /\ lane = 0 /\ lane' = 0
      /\ pc' \in {"calloc_thr_data", "lane", "fail"}
      /\ UNCHANGED <<pass, slice, work, thread>>
      /\ pc' = "fail" \/ rc' = rc
  BY DEF CallocThread, CallocThrData, Calloc, IInv, ControlInv
<1>2. \A l \in Lanes : Passed(l) /\ Waiting(l)
  BY <1>1 DEF Passed, Waiting
<1>3. \A l \in Lanes : ~ Pending(l)'
  <2>1. \A l \in Lanes : ~ (l < 0)
    BY LaneLength, SMT DEF Lanes
  <2> QED BY <1>1, <2>1 DEF Pending, Launched
<1>4. ResultInv'
  BY <1>1 DEF RInv, ResultInv
<1>5. \A l \in Lanes : Settled(l)
  BY <1>2 DEF Settled
<1> QED BY <1>1, <1>2, <1>3, <1>4, <1>5, MainRStep

(* Leaving the loops with an error, and returning. *)
LEMMA LeaveRStep ==
  ASSUME IInv, RInv, FailedJoin \/ CleanupDone \/ Return
  PROVE  RInv'
<1>1. /\ pc' \in {"fail", "returned"}
      /\ UNCHANGED <<pass, slice, work, thread>>
  BY DEF FailedJoin, CleanupDone, Return
<1>2. \A l \in Lanes : ~ Pending(l)' /\ ~ Waiting(l)'
  BY <1>1 DEF Pending, Launched, Waiting
<1>3. ResultInv'
  BY <1>1 DEF ResultInv
<1>4. \A l \in Lanes : Settled(l)' => Settled(l)
  <2> SUFFICES ASSUME NEW l \in Lanes, Settled(l)' PROVE Settled(l)
    OBVIOUS
  <2>1. "join" \notin Failures
    BY <1>1 DEF Settled, Passed
  <2>2. CASE CleanupDone
    <3>1. pc = "cleanup" /\ ll = lane /\ lane \in Nat /\ l \in Nat
      BY <2>2, LaneLength, SMT DEF CleanupDone, IInv, TypeOK, Lanes
    <3>2. l < ll \/ l >= lane
      BY <3>1, SMT
    <3> QED BY <2>1, <3>1, <3>2 DEF Settled, Cleaned
  <2>3. CASE Return
    BY <2>1, <2>3 DEF Settled, Cleaned, Return
  <2>4. ~ FailedJoin
    BY <2>1 DEF FailedJoin
  <2> QED BY <2>2, <2>3, <2>4
<1> QED BY <1>1, <1>2, <1>3, <1>4, MainRStep

(* A join that is undefined: the program has no meaning any more. *)
LEMMA UndefinedRStep ==
  ASSUME IInv, RInv, pc' = "undefined", pc \notin {"fail", "returned"},
         UNCHANGED <<pass, slice, rc, work, thread>>
  PROVE  RInv'
<1>1. \A l \in Lanes : ~ Pending(l)' /\ ~ Waiting(l)' /\ ~ Settled(l)'
  BY DEF Pending, Launched, Waiting, Settled, Passed, Cleaned
<1>2. ResultInv'
  BY DEF RInv, ResultInv
<1> QED BY <1>1, <1>2, MainRStep

LEMMA CleanupJoinRStep ==
  ASSUME IInv, RInv, CleanupJoin
  PROVE  RInv'
<1> DEFINE then == ll' = ll + 1 /\ UNCHANGED <<pc, pass, slice, lane, rc>>
<1>1. pc = "cleanup" /\ ll \in Lanes /\ ll \in Nat /\ \A l \in Lanes : l \in Nat
  BY LaneLength, SMT DEF CleanupJoin, IInv, TypeOK, Lanes
<1>2. CASE then /\ UNCHANGED work
           /\ \/ thread[ll] = "exited" /\ thread' = [thread EXCEPT ![ll] = "joined"]
              \/ "join" \in Failures /\ thread' = thread
  <2>1. \A l \in Lanes : l # ll => thread'[l] = thread[l]
    BY <1>1, <1>2 DEF IInv, TypeOK
  <2>2. \A l \in Lanes : (l < ll' => l < ll \/ l = ll) /\ (ll' <= l => l # ll /\ ll <= l)
    BY <1>1, <1>2, SMT
  <2>3. "join" \notin Failures => thread[ll] = "exited" /\ thread'[ll] = "joined"
    BY <1>1, <1>2 DEF IInv, TypeOK
  <2>4. \A l \in Lanes : Settled(l)' => Settled(l) \/ thread'[l] \in {"none", "joined"}
    BY <1>1, <1>2, <2>2, <2>3 DEF Settled, Passed, Cleaned
  <2>5. \A l \in Lanes : Pending(l)' => Pending(l) /\ thread'[l] = thread[l]
    BY <1>1, <1>2, <2>1, <2>2 DEF Pending, Launched
  <2>6. \A l \in Lanes : \/ thread'[l] = thread[l]
                         \/ thread[l] = "exited" /\ thread'[l] = "joined"
    BY <1>1, <1>2, <2>1 DEF IInv, TypeOK
  <2>7. ResultInv'
    BY <1>1, <1>2 DEF RInv, ResultInv
  <2>8. \A l \in Lanes : ~ Waiting(l)'
    BY <1>1, <1>2 DEF Waiting
  <2> QED BY <1>2, <2>4, <2>5, <2>6, <2>7, <2>8, MainRStep
<1>3. CASE pc' = "undefined" /\ UNCHANGED <<thread, pass, slice, lane, ll, rc, work>>
  BY <1>1, <1>3, UndefinedRStep
<1>4. CASE Join(ll, then)
  BY <1>2, <1>3, <1>4 DEF Join
<1>5. CASE /\ "join" \in Failures /\ ll' = ll + 1
           /\ UNCHANGED <<seed, pc, pass, slice, lane, rc, thr_data, thread, work>>
  BY <1>2, <1>5
<1> QED BY <1>4, <1>5 DEF CleanupJoin

LEMMA JoinForRoomRStep ==
  ASSUME IInv, RInv, JoinForRoom
  PROVE  RInv'
<1> DEFINE j == lane - threads
<1>1. CASE FailedJoin
  BY <1>1, LeaveRStep
<1>2. CASE Join(j, pc' = "create" /\ UNCHANGED <<pass, slice, lane, ll, rc>>)
  <2>1. /\ j \in Lanes /\ lane \in Nat /\ pc = "lane" /\ threads \in Nat
        /\ \A l \in Lanes : l \in Nat
    BY LaneLength, SMT DEF JoinForRoom, IInv, TypeOK, Lanes
  <2>2. CASE pc' = "undefined" /\ UNCHANGED <<thread, pass, slice, lane, ll, rc, work>>
    BY <2>1, <2>2, UndefinedRStep
  <2>3. CASE /\ thread[j] = "exited" /\ thread' = [thread EXCEPT ![j] = "joined"]
             /\ pc' = "create" /\ UNCHANGED <<pass, slice, lane, ll, rc, work>>
    <3>1. thread'[j] = "joined" /\ \A l \in Lanes : l # j => thread'[l] = thread[l]
      BY <2>1, <2>3 DEF IInv, TypeOK
    <3>2. \A l \in Lanes : l <= lane - threads => l < lane - threads \/ l = j
      BY <2>1, SMT
    <3>3. \A l \in Lanes : Settled(l)' => Settled(l) \/ thread'[l] \in {"none", "joined"}
      BY <2>1, <2>3, <3>1, <3>2 DEF Settled, Passed, Cleaned
    <3>4. \A l \in Lanes : ~ (l <= lane - threads) => l # j /\ ~ (l < lane - threads)
      BY <2>1, SMT
    <3>5. \A l \in Lanes : Pending(l)' => Pending(l) /\ thread'[l] = thread[l]
      BY <2>1, <2>3, <3>1, <3>4 DEF Pending, Launched, Passed
    <3>6. \A l \in Lanes : \/ thread'[l] = thread[l]
                           \/ thread[l] = "exited" /\ thread'[l] = "joined"
      BY <2>3, <3>1
    <3>7. ResultInv'
      BY <2>1, <2>3 DEF RInv, ResultInv
    <3>8. \A l \in Lanes : Waiting(l)' => Waiting(l)
      BY <2>1, <2>3 DEF Waiting
    <3> QED BY <2>3, <3>3, <3>5, <3>6, <3>7, <3>8, MainRStep
  <2> QED BY <1>2, <2>2, <2>3 DEF Join
<1> QED BY <1>1, <1>2 DEF JoinForRoom

LEMMA JoinRestRStep ==
  ASSUME IInv, RInv, JoinRest
  PROVE  RInv'
<1> DEFINE then == IF lane + 1 < lanes
                   THEN lane' = lane + 1 /\ UNCHANGED <<pc, pass, slice, ll, rc>>
                   ELSE EndSlice("lane") /\ UNCHANGED <<ll, rc>>
<1>1. CASE FailedJoin
  BY <1>1, LeaveRStep
<1>2. CASE Join(lane, then)
  <2>1. /\ lane \in Lanes /\ lane \in Nat /\ pc = "join_rest"
        /\ \A l \in Lanes : l \in Nat /\ l < lanes
    BY LaneLength, SMT DEF JoinRest, IInv, TypeOK, Lanes
  <2>2. CASE pc' = "undefined" /\ UNCHANGED <<thread, pass, slice, lane, ll, rc, work>>
    BY <2>1, <2>2, UndefinedRStep
  <2>3. CASE /\ thread[lane] = "exited" /\ thread' = [thread EXCEPT ![lane] = "joined"]
             /\ UNCHANGED work /\ then
    <3>1. thread'[lane] = "joined" /\ \A l \in Lanes : l # lane => thread'[l] = thread[l]
      BY <2>1, <2>3 DEF IInv, TypeOK
    <3>2. CASE lane + 1 < lanes
      <4>1. lane' = lane + 1 /\ UNCHANGED <<pc, pass, slice, ll, rc, work>>
        BY <2>3, <3>2
      <4>2. \A l \in Lanes : l < lane + 1 <=> l < lane \/ l = lane
        BY <2>1, SMT
      <4>3. \A l \in Lanes : Settled(l)' => Settled(l) \/ thread'[l] \in {"none", "joined"}
        BY <2>1, <3>1, <4>1, <4>2 DEF Settled, Passed, Cleaned
      <4>4. \A l \in Lanes : Pending(l)' => Pending(l) /\ thread'[l] = thread[l]
        BY <2>1, <3>1, <4>1, <4>2 DEF Pending, Launched, Passed
      <4>5. ResultInv'
        BY <4>1 DEF RInv, ResultInv
      <4>6. \A l \in Lanes : Waiting(l)' => Waiting(l)
        BY <2>1, <4>1 DEF Waiting
      <4>7. \A l \in Lanes : \/ thread'[l] = thread[l]
                             \/ thread[l] = "exited" /\ thread'[l] = "joined"
        BY <2>3, <3>1
      <4> QED BY <4>1, <4>3, <4>4, <4>5, <4>6, <4>7, MainRStep
    <3>3. CASE ~ (lane + 1 < lanes)
      <4>1. EndSlice("lane") /\ UNCHANGED <<ll, rc, work>> /\ pc \in Filling
        BY <2>1, <2>3, <3>3 DEF Filling
      <4>2. \A l \in Lanes : l = lane \/ l < lane
        BY <2>1, <3>3, LaneLength, SMT
      <4>3. \A l \in Lanes : l # lane => thread[l] \in {"none", "joined"}
        BY <2>1, <4>2 DEF RInv, JoinedInv, Settled, Passed
      <4>4. \A l \in Lanes : thread'[l] \in {"none", "joined"}
        BY <3>1, <4>3
      <4>5. \A l \in Lanes : thread[l] \notin Live /\ Launched(l)
        BY <2>1, <2>3, <4>3 DEF Live, Launched
      <4> QED BY <4>1, <4>4, <4>5, EndSliceRStep
    <3> QED BY <3>2, <3>3
  <2> QED BY <1>2, <2>2, <2>3 DEF Join
<1> QED BY <1>1, <1>2 DEF JoinRest

LEMMA CreateThreadRStep ==
  ASSUME IInv, RInv, CreateThread
  PROVE  RInv'
<1>1. /\ lane \in Lanes /\ lane \in Nat /\ lane < lanes
      /\ \/ pc = "create" /\ lane >= threads
         \/ pc = "lane" /\ lane < threads
      /\ UNCHANGED <<pass, slice, work>>
      /\ \A l \in Lanes : l \in Nat
      /\ threads \in Nat /\ threads >= 1
  <2>1. /\ pc = "create" \/ (pc = "lane" /\ lane < threads)
        /\ UNCHANGED <<pass, slice, work>>
    BY DEF CreateThread, AtCreate
  <2>2. lane \in Lanes /\ (pc = "create" => lane >= threads)
    BY DEF IInv, TypeOK, ControlInv
  <2>3. lane \in Nat /\ lane < lanes /\ (\A l \in Lanes : l \in Nat)
    BY <2>2, LaneLength, SMT DEF Lanes
  <2>4. threads \in Nat /\ threads >= 1
    BY LaneLength, SMT
  <2> QED BY <2>1, <2>2, <2>3, <2>4
<1>2. CASE pc' = "cleanup" /\ ll' = 0 /\ UNCHANGED <<thread, lane, rc>>
  <2>1. \A l \in Lanes : l >= lane => Passed(l)
    BY <1>1 DEF Passed
  <2>2. \A l \in Lanes : ~ (l < 0)
    BY <1>1, SMT
  <2>3. \A l \in Lanes : Settled(l)' => Settled(l)
    BY <1>2, <2>1, <2>2 DEF Settled, Passed, Cleaned
  <2>4. \A l \in Lanes : Pending(l)' => Pending(l)
    <3> SUFFICES ASSUME NEW l \in Lanes, Pending(l)' PROVE Pending(l)
      OBVIOUS
    <3>1. threads = lanes /\ l < lane
      BY <1>2 DEF Pending, Launched
    <3>2. pc = "lane" /\ ~ (l >= lane) /\ ~ (l < lane - threads)
      BY <1>1, <3>1, LaneLength, SMT
    <3> QED BY <3>1, <3>2 DEF Pending, Launched, Passed
  <2>5. ResultInv'
    BY <1>1, <1>2 DEF RInv, ResultInv
  <2>6. \A l \in Lanes : ~ Waiting(l)'
    BY <1>2 DEF Waiting
  <2> QED BY <1>1, <1>2, <2>3, <2>4, <2>5, <2>6, MainRStep
<1>3. CASE /\ thread' = [thread EXCEPT ![lane] = "created"]
           /\ IF lane + 1 < lanes
              THEN pc' = "lane" /\ lane' = lane + 1
              ELSE pc' = "join_rest" /\ lane' = lanes - threads
           /\ UNCHANGED <<ll, rc>>
  <2>1. thread'[lane] = "created" /\ \A l \in Lanes : l # lane => thread'[l] = thread[l]
    BY <1>1, <1>3 DEF IInv, TypeOK
  <2>2. pc' \in {"lane", "join_rest"}
    BY <1>3
  <2>3. \A l \in Lanes : Passed(l)' => Passed(l) /\ l # lane
    BY <1>1, <1>3, LaneLength, SMT DEF Passed, Lanes
  <2>4. \A l \in Lanes : l # lane /\ Launched(l)' /\ ~ Passed(l)' => Launched(l) /\ ~ Passed(l)
    BY <1>1, <1>3, LaneLength, SMT DEF Passed, Launched, Lanes
  <2>5. \A l \in Lanes : Settled(l)' => Settled(l) /\ l # lane
    BY <2>2, <2>3 DEF Settled, Cleaned
  <2>6. JoinedInv'
    BY <2>1, <2>5 DEF RInv, JoinedInv
  <2>7. PendingInv'
    <3>1. \A l \in Lanes : Pending(l)' => l = lane \/ Pending(l)
      BY <2>2, <2>4 DEF Pending
    <3> QED BY <2>1, <3>1 DEF RInv, PendingInv, Joinable, Live
  <2>8. WindowInv'
    <3> DEFINE w == lane + 1 - threads
    <3>1. w \in 1 - threads .. lanes
      BY <1>1, LaneLength, SMT
    <3>2. w <= lane /\ lane < w + threads
      BY <1>1, SMT
    <3>3. ASSUME NEW l \in Lanes, thread'[l] \in Joinable, l # lane
          PROVE  w <= l /\ l < w + threads
      <4>1. thread[l] \notin {"none", "joined"}
        BY <2>1, <3>3 DEF Joinable, Live
      <4>2. ~ Passed(l)
        BY <4>1 DEF RInv, JoinedInv, Settled
      <4> QED BY <1>1, <4>2, SMT DEF Passed
    <3> QED BY <3>1, <3>2, <3>3 DEF WindowInv
  <2>9. ResultInv'
    BY <1>1, <1>3, <2>2 DEF RInv, ResultInv
  <2>10. FreshInv'
    <3>1. Waiting(lane)
      BY <1>1, SMT DEF Waiting
    <3>2. \A l \in Lanes : Waiting(l)' => Waiting(l)
      BY <1>1, <1>3, SMT DEF Waiting
    <3> QED BY <1>1, <2>1, <3>1, <3>2 DEF RInv, FreshInv, work
  <2>11. ChoiceInv'
    BY <1>1, <2>1 DEF RInv, ChoiceInv, work
  <2> QED BY <2>6, <2>7, <2>8, <2>9, <2>10, <2>11 DEF RInv
<1> QED BY <1>2, <1>3 DEF CreateThread

LEMMA CallSegmentRStep ==
  ASSUME IInv, RInv, CallSegment
  PROVE  RInv'
<1>1. /\ pc = "call" /\ pc' = "segment" /\ lane \in Lanes /\ lane \in Nat
      /\ UNCHANGED <<memory, ref, pass, slice, lane, ll, rc>>
      /\ threads = 1
      /\ \A l \in Lanes : l \in Nat
  BY LaneLength, SMT DEF CallSegment, IInv, TypeOK, ControlInv, Lanes
<1>2. /\ thread'[lane] = "address"
      /\ \A l \in Lanes : l # lane => /\ thread'[l] = thread[l]
                                      /\ pos'[l] = pos[l] /\ prev'[l] = prev[l]
  BY <1>1 DEF CallSegment, EnterSegment, IInv, TypeOK
<1>3. \A l \in Lanes : thread[l] \in {"none", "joined"}
  BY <1>1 DEF RInv, JoinedInv, Settled, Passed
<1>4. JoinedInv'
  <2>1. \A l \in Lanes : Settled(l)' => l # lane
    BY <1>1 DEF Settled, Passed, Cleaned
  <2> QED BY <1>2, <1>3, <2>1 DEF JoinedInv
<1>5. PendingInv'
  <2>1. \A l \in Lanes : Pending(l)' => l = lane
    BY <1>1 DEF Pending, Launched, Passed
  <2> QED BY <1>2, <2>1 DEF PendingInv, Joinable, Live
<1>6. WindowInv'
  <2>1. lane \in 1 - threads .. lanes /\ lane <= lane /\ lane < lane + threads
    BY <1>1, LaneLength, SMT DEF Lanes
  <2>2. \A l \in Lanes : thread'[l] \in Joinable => l = lane
    BY <1>2, <1>3 DEF Joinable, Live
  <2> QED BY <2>1, <2>2 DEF WindowInv
<1>7. ResultInv'
  BY <1>1 DEF RInv, ResultInv
<1>8. FreshInv'
  <2>1. \A l \in Lanes : Waiting(l)' => Waiting(l) /\ l # lane
    BY <1>1, SMT DEF Waiting
  <2> QED BY <1>1, <1>2, <1>3, <2>1 DEF RInv, FreshInv
<1>9. ChoiceInv'
  BY <1>2, <1>3 DEF ChoiceInv
<1> QED BY <1>4, <1>5, <1>6, <1>7, <1>8, <1>9 DEF RInv

LEMMA SegmentReturnsRStep ==
  ASSUME IInv, RInv, SegmentReturns
  PROVE  RInv'
<1>1. /\ pc = "segment" /\ lane \in Lanes /\ lane \in Nat /\ pc \in Filling
      /\ \A l \in Lanes : l \in Nat /\ l < lanes
  BY LaneLength, SMT DEF SegmentReturns, IInv, TypeOK, Filling, Lanes
<1>2. /\ UNCHANGED <<work, rc>>
      /\ thread[lane] = "exited" /\ thread'[lane] = "joined"
      /\ \A l \in Lanes : l # lane => thread'[l] = thread[l]
  BY <1>1 DEF SegmentReturns, IInv, TypeOK
<1>3. \A l \in Lanes : l # lane => thread[l] \in {"none", "joined"}
  BY <1>1 DEF RInv, JoinedInv, Settled, Passed
<1>4. \A l \in Lanes : thread'[l] \in {"none", "joined"}
  BY <1>2, <1>3
<1>5. CASE lane + 1 < lanes /\ pc' = "call" /\ lane' = lane + 1 /\ UNCHANGED <<pass, slice>>
  <2>1. \A l \in Lanes : ~ Pending(l)'
    BY <1>5 DEF Pending, Passed
  <2>2. \A l \in Lanes : Waiting(l)' => Waiting(l)
    BY <1>1, <1>5, SMT DEF Waiting
  <2>3. ResultInv'
    BY <1>1, <1>2, <1>5 DEF RInv, ResultInv
  <2> QED BY <1>2, <1>4, <1>5, <2>1, <2>2, <2>3, MainRStep
<1>6. CASE ~ (lane + 1 < lanes) /\ EndSlice("call")
  <2>1. \A l \in Lanes : thread[l] \notin Live
    BY <1>2, <1>3 DEF Live
  <2>2. \A l \in Lanes : Launched(l)
    BY <1>1, <1>6, LaneLength, SMT DEF Launched
  <2> QED BY <1>1, <1>2, <1>4, <1>6, <2>1, <2>2, EndSliceRStep
<1> QED BY <1>5, <1>6 DEF SegmentReturns

(***************************************************************************)
(* The steps of the workers.                                                 *)
(***************************************************************************)

(* A worker that runs has not been waited for, and does not wait to start. *)
LEMMA LiveLane ==
  ASSUME NEW l \in Lanes, IInv, thread[l] \in Live
  PROVE  ~ Passed(l) /\ ~ Waiting(l)
<1>1. ~ Passed(l)
  BY DEF IInv, BarrierInv
<1>2. lane \in Nat /\ l \in Nat
  BY LaneLength, SMT DEF IInv, TypeOK, Lanes
<1>3. pc = "segment" /\ l > lane => l # lane
  BY <1>2, SMT
<1> QED BY <1>1, <1>3 DEF Passed, Waiting

LEMMA ThreadStartRStep ==
  ASSUME NEW l \in Lanes, IInv, RInv, ThreadStart(l)
  PROVE  RInv'
<1>1. /\ UNCHANGED <<memory, ref, main>> /\ thread[l] = "created" /\ thread'[l] = "address"
      /\ \A m \in Lanes : m # l => /\ thread'[m] = thread[m]
                                   /\ pos'[m] = pos[m] /\ prev'[m] = prev[m]
  BY DEF ThreadStart, EnterSegment, IInv, TypeOK
<1>2. ~ Waiting(l)
  BY <1>1, LiveLane DEF Live
<1>3. ChoiceInv'
  BY <1>1 DEF RInv, ChoiceInv
<1> QED BY <1>1, <1>2, <1>3, WorkerRStep DEF Live, Joinable

LEMMA ChooseReferenceRStep ==
  ASSUME NEW l \in Lanes, IInv, RInv, ChooseReference(l)
  PROVE  RInv'
<1> DEFINE before == RotatedPrev(Curr(pos[l].slice, pos[l].index), prev[l])
           r == Reference(memory, pos[l], before)
<1>1. /\ UNCHANGED <<memory, pos, main>> /\ thread[l] = "address"
      /\ thread' = [thread EXCEPT ![l] = "fill"]
      /\ prev' = [prev EXCEPT ![l] = before]
      /\ ref' = [ref EXCEPT ![l] = r]
  BY DEF ChooseReference
<1>2. r = Reference(memory, pos[l], before)
  OBVIOUS
<1> HIDE DEF before, r
<1>3. /\ thread'[l] = "fill" /\ prev'[l] = before /\ ref'[l] = r
      /\ \A m \in Lanes : m # l => /\ thread'[m] = thread[m]
                                   /\ ref'[m] = ref[m] /\ prev'[m] = prev[m]
  BY <1>1 DEF IInv, TypeOK
<1>4. ChoiceInv'
  <2> SUFFICES ASSUME NEW m \in Lanes, thread'[m] = "fill"
               PROVE  ref'[m] = Reference(memory, pos[m], prev'[m])
    BY <1>1 DEF ChoiceInv
  <2> QED BY <1>2, <1>3 DEF RInv, ChoiceInv
<1> QED BY <1>1, <1>3, <1>4, WorkerRStep DEF Live, Joinable

LEMMA FillBlockRStep ==
  ASSUME NEW l \in Lanes, IInv, RInv, FillBlock(l)
  PROVE  RInv'
<1>1. /\ UNCHANGED <<ref, main>> /\ thread[l] = "fill" /\ thread'[l] = "address"
      /\ \A m \in Lanes : m # l => /\ thread'[m] = thread[m]
                                   /\ pos'[m] = pos[m] /\ prev'[m] = prev[m]
  BY DEF FillBlock, IInv, TypeOK
<1>2. \A m \in Lanes : m # l => memory'[m] = memory[m]
  <2>1. pos[l].lane = l
    BY DEF IInv, WorkerInv
  <2> QED BY <2>1 DEF FillBlock, IInv, TypeOK
<1>3. ~ Waiting(l)
  BY <1>1, LiveLane DEF Live
<1>4. ChoiceInv'
  <2> SUFFICES ASSUME NEW m \in Lanes, thread'[m] = "fill"
               PROVE  ref'[m] = Reference(memory', pos'[m], prev'[m])
    BY DEF ChoiceInv
  <2>1. m # l
    BY <1>1
  <2>2. memory'[pos[m].lane] = memory[pos[m].lane]
    BY <1>2, <2>1 DEF IInv, WorkerInv
  <2>3. PseudoRand(memory', pos[m], prev[m]) = PseudoRand(memory, pos[m], prev[m])
    BY <2>2 DEF PseudoRand
  <2>4. Reference(memory', pos[m], prev[m]) = Reference(memory, pos[m], prev[m])
    BY <2>3 DEF Reference
  <2>5. ref[m] = Reference(memory, pos[m], prev[m])
    BY <1>1, <2>1 DEF RInv, ChoiceInv
  <2> QED BY <1>1, <2>1, <2>4, <2>5
<1> QED BY <1>1, <1>3, <1>4, WorkerRStep DEF Live, Joinable

LEMMA ThreadExitRStep ==
  ASSUME NEW l \in Lanes, IInv, RInv, ThreadExit(l)
  PROVE  RInv'
<1>1. /\ UNCHANGED <<work, main>> /\ thread[l] = "address" /\ thread'[l] = "exited"
      /\ \A m \in Lanes : m # l => thread'[m] = thread[m]
  BY DEF ThreadExit, IInv, TypeOK
<1>2. ChoiceInv'
  BY <1>1 DEF RInv, ChoiceInv, work
<1> QED BY <1>1, <1>2, WorkerRStep DEF Live, Joinable, work

LEMMA NextRInv == IInv /\ RInv /\ [Next]_vars => RInv'
<1> SUFFICES ASSUME IInv, RInv, [Next]_vars PROVE RInv'
  OBVIOUS
<1>1. CASE CallocThread \/ CallocThrData
  BY <1>1, CallocRStep
<1>2. CASE JoinForRoom
  BY <1>2, JoinForRoomRStep
<1>3. CASE CreateThread
  BY <1>3, CreateThreadRStep
<1>4. CASE CleanupJoin
  BY <1>4, CleanupJoinRStep
<1>5. CASE CleanupDone \/ Return
  BY <1>5, LeaveRStep
<1>6. CASE JoinRest
  BY <1>6, JoinRestRStep
<1>7. CASE CallSegment
  BY <1>7, CallSegmentRStep
<1>8. CASE SegmentReturns
  BY <1>8, SegmentReturnsRStep
<1>9. ASSUME NEW l \in Lanes, Worker(l) PROVE RInv'
  BY <1>9, ThreadStartRStep, ChooseReferenceRStep, FillBlockRStep, ThreadExitRStep
     DEF Worker
<1>10. CASE UNCHANGED vars
  <2>1. UNCHANGED <<pc, pass, slice, lane, ll, rc, thread, memory, pos, prev, ref>>
    BY <1>10 DEF vars, main, work
  <2> QED BY <2>1 DEF RInv, JoinedInv, PendingInv, WindowInv, ResultInv, FreshInv, ChoiceInv,
                      Settled, Passed, Cleaned, Pending, Launched, Waiting
<1> QED BY <1>1, <1>2, <1>3, <1>4, <1>5, <1>6, <1>7, <1>8, <1>9, <1>10
        DEF Next, Main, Terminated

(* What the joins leave behind is an invariant of passe_fill_memory_blocks:
   the caller has joined exactly the threads it has walked past.            *)
THEOREM JoinsInvariance == Spec => []RInv
<1>1. Init => RInv
  BY InitRInv
<1>2. IInv /\ RInv /\ [Next]_vars => RInv'
  BY NextRInv
<1> QED BY <1>1, <1>2, Invariance, PTL DEF Spec

(***************************************************************************)
(* What follows from it.                                                     *)
(***************************************************************************)

(* passe_fill_memory_blocks leaves no thread behind when it returns, with a
   result or an error, as long as pthread_join itself does not fail.        *)
THEOREM NoSurvivors ==
  ASSUME "join" \notin Failures
  PROVE  Spec => []NoThreadSurvives
<1>1. RInv => NoThreadSurvives
  BY DEF RInv, JoinedInv, Settled, Cleaned, NoThreadSurvives
<1> QED BY <1>1, JoinsInvariance, PTL

(* Of the threads that fill_memory_blocks_mt starts, no more than `threads`
   exist at any moment, whatever fails.                                     *)
THEOREM ThreadBound == Spec => []ThreadLimit
<1>1. IInv /\ RInv => ThreadLimit
  <2> SUFFICES ASSUME RInv PROVE ThreadLimit
    OBVIOUS
  <2> DEFINE Joinables == {l \in Lanes : thread[l] \in Joinable}
  <2>1. PICK w \in 1 - threads .. lanes :
          \A l \in Lanes : thread[l] \in Joinable => w <= l /\ l < w + threads
    BY DEF RInv, WindowInv
  <2>2. w \in Int /\ threads \in Nat /\ w + threads - 1 \in Int
    BY LaneLength, SMT
  <2>3. \A l \in Joinables : l \in w .. w + threads - 1
    <3> SUFFICES ASSUME NEW l \in Joinables PROVE l \in w .. w + threads - 1
      OBVIOUS
    <3>1. l \in Lanes /\ w <= l /\ l < w + threads
      BY <2>1
    <3>2. l \in Int
      BY <3>1, LaneLength, SMT DEF Lanes
    <3> QED BY <2>2, <3>1, <3>2, SMT
  <2>4. IsFiniteSet(w .. w + threads - 1) /\ Cardinality(w .. w + threads - 1) = threads
    <3>1. w .. w + threads - 1 = w .. (w + threads - 1)
      OBVIOUS
    <3>2. (w + threads - 1) - w + 1 = threads /\ ~ (w > w + threads - 1)
      BY <2>2, LaneLength, SMT
    <3> QED BY <2>2, <3>2, FS_Interval
  <2>5. Cardinality(Joinables) <= threads
    BY <2>3, <2>4, FS_Subset
  <2> QED BY <2>5 DEF ThreadLimit
<1> QED BY <1>1, Invariance, JoinsInvariance, PTL

(* When a thread has been made for every lane, or none can fail to be made, a
   join always meets a thread that is there to be joined.                   *)
THEOREM DefinedJoins ==
  ASSUME threads = lanes \/ "create" \notin Failures
  PROVE  Spec => []JoinsAreDefined
<1> DEFINE JInv == pc # "undefined" /\ ("create" \notin Failures => pc # "cleanup")
<1>1. Init => JInv
  BY DEF Init
<1>2. ASSUME NEW l \in Lanes, RInv, Pending(l) PROVE thread[l] \in Joinable
  BY <1>2 DEF RInv, PendingInv
<1>3. IInv /\ RInv /\ JInv /\ [Next]_vars => JInv'
  <2> SUFFICES ASSUME IInv, RInv, JInv, [Next]_vars PROVE JInv'
    OBVIOUS
  <2>1. /\ lane \in Lanes /\ lane \in Nat /\ threads \in Nat /\ threads >= 1
    BY LaneLength, SMT DEF IInv, TypeOK, Lanes
  <2>2. CASE JoinForRoom
    <3>1. pc = "lane" /\ lane - threads \in Lanes
      BY <2>1, <2>2, LaneLength, SMT DEF JoinForRoom, Lanes
    <3>2. Pending(lane - threads)
      <4>1. lane - threads < lane /\ ~ (lane - threads >= lane)
            /\ ~ (lane - threads < lane - threads)
        BY <2>1, SMT
      <4> QED BY <3>1, <4>1 DEF Pending, Launched, Passed
    <3>3. thread[lane - threads] \in Joinable
      BY <1>2, <3>1, <3>2
    <3> QED BY <2>2, <3>3 DEF JoinForRoom, Join, FailedJoin, Joinable
  <2>3. CASE JoinRest
    <3>1. pc = "join_rest" /\ ~ (lane < lane)
      BY <2>1, <2>3, SMT DEF JoinRest
    <3>2. thread[lane] \in Joinable
      BY <1>2, <2>1, <3>1 DEF Pending, Launched, Passed
    <3> QED BY <2>3, <3>1, <3>2 DEF JoinRest, Join, FailedJoin, Joinable, EndSlice
  <2>4. CASE CleanupJoin
    <3>1. pc = "cleanup" /\ ll < lane /\ ll \in Lanes /\ ll <= ll /\ "create" \in Failures
      BY <2>1, <2>4, LaneLength, SMT DEF CleanupJoin, IInv, TypeOK, Lanes
    <3>2. thread[ll] \in Joinable
      BY <1>2, <3>1 DEF Pending
    <3> QED BY <2>4, <3>1, <3>2 DEF CleanupJoin, Join, Joinable
  <2>5. CASE CallocThread \/ CallocThrData
    BY <2>5 DEF CallocThread, CallocThrData, Calloc
  <2>6. CASE CreateThread
    BY <2>6 DEF CreateThread
  <2>7. CASE CleanupDone \/ Return
    BY <2>7 DEF CleanupDone, Return
  <2>8. CASE CallSegment \/ SegmentReturns
    BY <2>8 DEF CallSegment, SegmentReturns, EndSlice
  <2>9. ASSUME NEW l \in Lanes, Worker(l) PROVE JInv'
    BY <2>9 DEF Worker, ThreadStart, ChooseReference, FillBlock, ThreadExit, main
  <2>10. CASE UNCHANGED vars
    BY <2>10 DEF vars, main
  <2> QED BY <2>2, <2>3, <2>4, <2>5, <2>6, <2>7, <2>8, <2>9, <2>10
          DEF Next, Main, Terminated
<1>4. JInv => JoinsAreDefined
  BY DEF JoinsAreDefined
<1> HIDE DEF JInv
<1> QED BY <1>1, <1>3, <1>4, Invariance, JoinsInvariance, PTL DEF Spec

(***************************************************************************)
(* The refinement: every step is one of Argon2Passes, or changes nothing     *)
(* there.                                                                    *)
(***************************************************************************)

(* The index and the status that Argon2Passes sees. *)
Index == [l \in Lanes |-> IF pos[l].pass = pass /\ pos[l].slice = slice
                          THEN pos[l].index ELSE StartingIndex(pass, slice)]
Status == IF rc # "ARGON2_OK" THEN "failed"
          ELSE IF pc \in {"fail", "returned"} THEN "filled" ELSE "filling"

LEMMA AbstractVars ==
  Abstract!vars = <<seed, memory, pass, slice, Index, Status>>
BY SameSizes DEF Abstract!vars, Index, Status

LEMMA Stutter ==
  ASSUME UNCHANGED <<seed, memory, pass, slice>>, Index' = Index, Status' = Status
  PROVE  UNCHANGED Abstract!vars
<1>1. Abstract!vars = <<seed, memory, pass, slice, Index, Status>>
  BY AbstractVars
<1>2. Abstract!vars' = <<seed', memory', pass', slice', Index', Status'>>
  BY SameSizes DEF Abstract!vars, Index, Status
<1> QED BY <1>1, <1>2

(* Two states in which every lane is at the same place. *)
LEMMA IndexUnchanged ==
  ASSUME UNCHANGED <<pass, slice>>,
         \A l \in Lanes : \/ pos'[l] = pos[l]
                          \/ Index[l] = Index'[l]
  PROVE  Index' = Index
<1>1. \A l \in Lanes : Index'[l] = Index[l]
  BY DEF Index
<1> QED BY <1>1 DEF Index

(* (-1) % lane_length, which TLA+ defines, closes the ring. *)
LEMMA PrevInRing ==
  ASSUME NEW c \in Nat, c < lane_length
  PROVE  PrevOf(c) = IF c = 0 THEN lane_length - 1 ELSE c - 1
<1>1. CASE c > 0
  <2>1. (c - 1) % lane_length = c - 1
    BY <1>1, LaneLength, SmallMod, SMT
  <2> QED BY <1>1, <2>1, SMT DEF PrevOf
<1>2. CASE c = 0
  <2>1. (-1) % lane_length = lane_length - 1
    BY LaneLength, SMT
  <2> QED BY <1>2, <2>1, SMT DEF PrevOf
<1> QED BY <1>1, <1>2, SMT

LEMMA InitRefines == Init => Abstract!Init
<1> SUFFICES ASSUME Init PROVE Abstract!Init
  OBVIOUS
<1>1. Index = [l \in Lanes |-> StartingIndex(0, 0)] /\ Status = "filling"
  BY DEF Init, Index, Status
<1>2. Abstract!FirstMemory(seed) = FirstMemory(seed)
  BY SameSizes DEF Abstract!FirstMemory, FirstMemory, Abstract!Offsets, Offsets
<1> QED BY <1>1, <1>2, SameSizes DEF Abstract!Init, Init, Index, Status

(* While a worker runs, the call has neither succeeded nor failed. *)
LEMMA LiveStatus ==
  ASSUME "join" \notin Failures, IInv, RInv, NEW l \in Lanes, thread[l] \in Live
  PROVE  Status = "filling" /\ pc \notin {"fail", "returned"}
<1>1. pc \notin {"fail", "returned"}
  BY DEF RInv, JoinedInv, Settled, Cleaned, Live
<1> QED BY <1>1 DEF RInv, ResultInv, Status

(* The block that a worker writes is the next one of its lane, computed from the
   memory as it is now.                                                     *)
LEMMA NextBlock ==
  ASSUME IInv, RInv, NEW l \in Lanes, FillBlock(l)
  PROVE  /\ memory' = FillAt(memory, pos[l])
         /\ ref[l] = Reference(memory, pos[l], PrevOf(Curr(pos[l].slice, pos[l].index)))
         /\ Index' = [Index EXCEPT ![l] = pos[l].index + 1]
<1> DEFINE curr == Curr(pos[l].slice, pos[l].index)
<1>1. /\ thread[l] = "fill"
      /\ UNCHANGED <<pass, slice>>
      /\ memory' = [memory EXCEPT ![pos[l].lane][curr] =
                      NewBlock(memory, pos[l], prev[l], ref[l])]
      /\ pos'[l] = [pos[l] EXCEPT !.index = @ + 1]
      /\ \A m \in Lanes : m # l => pos'[m] = pos[m]
  BY DEF FillBlock, main, IInv, TypeOK
<1>2. pos[l].pass = pass /\ pos[l].slice = slice /\ pos[l].index < segment_length
  BY <1>1 DEF IInv, WorkerInv
<1>3. pos[l] \in Positions /\ pos[l].index \in 0 .. segment_length - 1
  <2>1. pos[l] \in Positions /\ pos[l].index \in 0 .. segment_length
    BY DEF IInv, TypeOK, Positions
  <2> QED BY <1>2, <2>1, LaneLength, SMT
<1>4. prev[l] = PrevOf(curr)
  <2>1. prev[l] = IF curr = 0 THEN lane_length - 1 ELSE curr - 1
    BY <1>1 DEF IInv, PrevInv
  <2>2. pos[l].slice \in Slices
    BY <1>3 DEF Positions
  <2>3. curr \in Nat /\ curr < lane_length
    BY <1>3, <2>2, CurrInLane, LaneLength, SMT
  <2> HIDE DEF curr
  <2> QED BY <2>1, <2>3, PrevInRing
<1>5. ref[l] = Reference(memory, pos[l], PrevOf(curr))
  BY <1>1, <1>4 DEF RInv, ChoiceInv
<1>6. memory' = FillAt(memory, pos[l])
  BY <1>1, <1>4, <1>5 DEF FillAt
<1>7. Index' = [Index EXCEPT ![l] = pos[l].index + 1]
  <2>1. Index'[l] = pos[l].index + 1
    BY <1>1, <1>2, <1>3 DEF Index, Positions
  <2>2. \A m \in Lanes : m # l => Index'[m] = Index[m]
    BY <1>1 DEF Index
  <2> QED BY <2>1, <2>2 DEF Index
<1> QED BY <1>5, <1>6, <1>7

LEMMA FillBlockRefines ==
  ASSUME "join" \notin Failures, IInv, RInv, NEW l \in Lanes, FillBlock(l)
  PROVE  Abstract!FillBlock(l)
<1>1. /\ thread[l] = "fill"
      /\ UNCHANGED <<seed, pc, pass, slice, rc>>
  BY DEF FillBlock, main
<1>2. /\ pos[l].pass = pass /\ pos[l].slice = slice /\ pos[l].lane = l
      /\ pos[l].index < segment_length /\ Index[l] = pos[l].index
  BY <1>1 DEF IInv, WorkerInv, Index
<1>3. pos[l] \in Positions /\ pass < passes
  <2>1. pos[l] \in Positions
    BY DEF IInv, TypeOK
  <2>2. pos[l].pass \in 0 .. passes - 1
    BY <2>1 DEF Positions
  <2> QED BY <1>2, <2>1, <2>2, LaneLength, SMT
<1>4. Abstract!At(l) = pos[l]
  <2>1. pos[l] = [pass |-> pos[l].pass, slice |-> pos[l].slice,
                  lane |-> pos[l].lane, index |-> pos[l].index]
    BY <1>3 DEF Positions
  <2> QED BY <1>2, <2>1 DEF Abstract!At
<1>5. memory' = Abstract!FillAt(memory, Abstract!At(l))
  BY <1>4, NextBlock, SameFillAt
<1>6. Index' = [Index EXCEPT ![l] = @ + 1]
  BY <1>2, NextBlock
<1>7. Status = "filling" /\ Status' = Status
  BY <1>1, LiveStatus DEF Live, Status
<1> QED BY <1>1, <1>2, <1>3, <1>5, <1>6, <1>7, SameSizes
        DEF Abstract!FillBlock, Index, Status

(* All lanes are at the end of a slice, and then at the start of the next. *)
LEMMA AtBarrier ==
  ASSUME IInv, NEW next \in {"lane", "call"}, EndSlice(next), UNCHANGED work,
         \A l \in Lanes : thread[l] \notin Live /\ Launched(l)
  PROVE  \A l \in Lanes : /\ Index[l] = segment_length
                          /\ Index'[l] = StartingIndex(pass', slice')
<1>1. \A l \in Lanes : /\ pos[l].pass = pass /\ pos[l].slice = slice
                       /\ pos[l].index = segment_length
                       /\ pos'[l] = pos[l]
  BY DEF IInv, BarrierInv, work
<1>2. slice' # slice
  <2>1. slice \in {0, 1, 2, 3}
    BY SMT DEF IInv, TypeOK, Slices, ARGON2_SYNC_POINTS
  <2> QED BY <2>1, SMT DEF EndSlice, ARGON2_SYNC_POINTS
<1> QED BY <1>1, <1>2 DEF Index

(* The last join of a slice, or the last return, is its synchronisation point. *)
LEMMA EndSliceRefines ==
  ASSUME IInv, RInv, NEW next \in {"lane", "call"}, EndSlice(next), pc \in Filling,
         UNCHANGED <<seed, work, rc>>,
         \A l \in Lanes : thread[l] \notin Live /\ Launched(l)
  PROVE  Abstract!NextSlice
<1>1. pass < passes
  BY DEF IInv, ControlInv
<1>2. \A l \in Lanes : Index[l] = segment_length
  BY AtBarrier
<1>3. Index' = [l \in Lanes |-> StartingIndex(pass', slice')]
  BY AtBarrier DEF Index
<1>4. rc = "ARGON2_OK" /\ rc' = rc /\ pc \notin {"fail", "returned"}
  BY DEF RInv, ResultInv, Filling
<1>5. Status = "filling" /\ Status' = IF pass' = passes THEN "filled" ELSE "filling"
  BY <1>4 DEF Status, EndSlice
<1> QED BY <1>1, <1>2, <1>3, <1>5, SameSizes
        DEF Abstract!NextSlice, EndSlice, Index, Status, work,
            Abstract!ARGON2_SYNC_POINTS, ARGON2_SYNC_POINTS

(* Other steps of the calling thread before the end do not show. *)
LEMMA MainRefines ==
  ASSUME UNCHANGED <<seed, pass, slice, rc, work>>,
         pc \in {"fail", "returned"} <=> pc' \in {"fail", "returned"}
  PROVE  UNCHANGED Abstract!vars
<1>1. Status' = Status
  BY DEF Status
<1>2. Index' = Index
  BY DEF Index, work
<1> QED BY <1>1, <1>2, Stutter DEF work

(* An error is a failure. *)
LEMMA FailRefines ==
  ASSUME RInv, pc \notin {"fail", "returned"}, rc' # "ARGON2_OK",
         UNCHANGED <<seed, pass, slice, work>>
  PROVE  Abstract!Fail
<1>1. Status = "filling" /\ Status' = "failed"
  BY DEF RInv, ResultInv, Status
<1>2. Index' = Index
  BY DEF Index, work
<1> QED BY <1>1, <1>2, SameSizes DEF Abstract!Fail, Index, Status, work

(* A segment that begins was at its start already. *)
LEMMA EnterKeepsIndex ==
  ASSUME IInv, RInv, NEW l \in Lanes, NEW p, p.pass = pass, p.slice = slice, p.lane = l,
         EnterSegment(l, p), thread[l] = "created" \/ Waiting(l),
         UNCHANGED <<pass, slice>>
  PROVE  Index' = Index
<1>1. /\ pos'[l] = [pass |-> pass, slice |-> slice, lane |-> l,
                    index |-> StartingIndex(pass, slice)]
      /\ \A m \in Lanes : m # l => pos'[m] = pos[m]
  BY DEF EnterSegment, IInv, TypeOK
<1>2. Index'[l] = StartingIndex(pass, slice)
  BY <1>1 DEF Index
<1>3. Index[l] = StartingIndex(pass, slice)
  BY DEF Index, RInv, FreshInv
<1> QED BY <1>1, <1>2, <1>3, IndexUnchanged

LEMMA EnterRefines ==
  ASSUME IInv, RInv, NEW l \in Lanes, NEW p, p.pass = pass, p.slice = slice, p.lane = l,
         EnterSegment(l, p), thread[l] = "created" \/ Waiting(l),
         UNCHANGED <<seed, memory, pass, slice, rc>>,
         pc \in {"fail", "returned"} <=> pc' \in {"fail", "returned"}
  PROVE  UNCHANGED Abstract!vars
<1>1. Status' = Status
  BY DEF Status
<1>2. Index' = Index
  BY EnterKeepsIndex
<1> QED BY <1>1, <1>2, Stutter

LEMMA NextRefines ==
  ASSUME "join" \notin Failures, IInv, RInv, [Next]_vars
  PROVE  [Abstract!Next]_(Abstract!vars)
<1>0. ~ FailedJoin /\ lane \in Lanes
  BY DEF FailedJoin, IInv, TypeOK
<1>1. CASE CallocThread \/ CallocThrData
  <2>1. /\ UNCHANGED <<seed, pass, slice, work>> /\ pc \notin {"fail", "returned"}
        /\ \/ pc' \notin {"fail", "returned"} /\ UNCHANGED rc
           \/ rc' # "ARGON2_OK"
    BY <1>1 DEF CallocThread, CallocThrData, Calloc
  <2> QED BY <2>1, MainRefines, FailRefines DEF Abstract!Next
<1>2. CASE JoinForRoom \/ CleanupJoin
  <2>1. /\ UNCHANGED <<seed, pass, slice, rc, work>>
        /\ pc \notin {"fail", "returned"} /\ pc' \notin {"fail", "returned"}
    BY <1>0, <1>2 DEF JoinForRoom, CleanupJoin, Join
  <2> QED BY <2>1, MainRefines
<1>3. CASE CreateThread
  <2>1. /\ UNCHANGED <<seed, pass, slice, rc, work>>
        /\ pc \notin {"fail", "returned"} /\ pc' \notin {"fail", "returned"}
    BY <1>3 DEF CreateThread, AtCreate
  <2> QED BY <2>1, MainRefines
<1>4. CASE CleanupDone
  BY <1>4, FailRefines DEF CleanupDone, Abstract!Next
<1>5. CASE Return
  BY <1>5, MainRefines DEF Return
<1>6. CASE JoinRest
  <2>1. /\ pc = "join_rest" /\ UNCHANGED <<seed, work>> /\ thread[lane] \notin Live
        /\ \/ pc' = "undefined" /\ UNCHANGED <<pass, slice, rc>>
           \/ UNCHANGED <<pc, pass, slice, rc>>
           \/ ~ (lane + 1 < lanes) /\ EndSlice("lane") /\ UNCHANGED rc
    BY <1>0, <1>6 DEF JoinRest, Join
  <2>2. CASE ~ (lane + 1 < lanes) /\ EndSlice("lane") /\ UNCHANGED rc
    <3>1. \A l \in Lanes : l = lane \/ l < lane
      BY <1>0, <2>2, LaneLength, SMT DEF Lanes
    <3>2. \A l \in Lanes : thread[l] \notin Live /\ Launched(l)
      BY <2>1, <3>1 DEF IInv, BarrierInv, Passed, Launched
    <3> QED BY <2>1, <2>2, <3>2, EndSliceRefines DEF Abstract!Next, Filling
  <2> QED BY <2>1, <2>2, MainRefines
<1>7. CASE CallSegment
  <2> DEFINE p == [pass |-> pass, slice |-> slice, lane |-> lane]
  <2>1. EnterSegment(lane, p) /\ p.pass = pass /\ p.slice = slice /\ p.lane = lane
    BY <1>7 DEF CallSegment
  <2>2. UNCHANGED <<seed, memory, pass, slice, rc>> /\ pc = "call" /\ pc' = "segment"
    BY <1>7 DEF CallSegment
  <2>3. Waiting(lane)
    BY <1>0, <2>2, LaneLength, SMT DEF Waiting, Lanes
  <2> HIDE DEF p
  <2> QED BY <1>0, <2>1, <2>2, <2>3, EnterRefines
<1>8. CASE SegmentReturns
  <2>1. /\ pc = "segment" /\ UNCHANGED <<seed, work, rc>> /\ thread[lane] = "exited"
        /\ \/ pc' = "call" /\ UNCHANGED <<pass, slice>>
           \/ ~ (lane + 1 < lanes) /\ EndSlice("call")
    BY <1>8 DEF SegmentReturns
  <2>2. CASE ~ (lane + 1 < lanes) /\ EndSlice("call")
    <3>1. \A l \in Lanes : (l = lane \/ l < lane) /\ l <= lane
      BY <1>0, <2>2, LaneLength, SMT DEF Lanes
    <3>2. \A l \in Lanes : thread[l] \notin Live /\ Launched(l)
      BY <2>1, <3>1 DEF IInv, BarrierInv, Passed, Launched, Live
    <3> QED BY <2>1, <2>2, <3>2, EndSliceRefines DEF Abstract!Next, Filling
  <2> QED BY <2>1, <2>2, MainRefines
<1>9. ASSUME NEW l \in Lanes, Worker(l) PROVE [Abstract!Next]_(Abstract!vars)
  <2>1. CASE ThreadStart(l)
    <3> DEFINE p == thr_data[l]
    <3>1. /\ thread[l] = "created" /\ EnterSegment(l, p)
          /\ UNCHANGED <<seed, memory, pc, pass, slice, rc>>
      BY <2>1 DEF ThreadStart, main
    <3>2. p = [pass |-> pass, slice |-> slice, lane |-> l]
      BY <3>1 DEF IInv, WorkerInv
    <3>3. p.pass = pass /\ p.slice = slice /\ p.lane = l
      BY <3>2
    <3> HIDE DEF p
    <3> QED BY <3>1, <3>3, EnterRefines
  <2>2. CASE ChooseReference(l)
    <3>1. UNCHANGED <<seed, memory, pos, pc, pass, slice, rc>>
      BY <2>2 DEF ChooseReference, main
    <3>2. Index' = Index /\ Status' = Status
      BY <3>1 DEF Index, Status
    <3> QED BY <3>1, <3>2, Stutter
  <2>3. CASE FillBlock(l)
    BY <2>3, FillBlockRefines, SameSizes DEF Abstract!Next
  <2>4. CASE ThreadExit(l)
    BY <2>4, MainRefines DEF ThreadExit, main, work
  <2> QED BY <1>9, <2>1, <2>2, <2>3, <2>4 DEF Worker
<1>10. CASE UNCHANGED vars
  BY <1>10, MainRefines DEF vars, main
<1> QED BY <1>1, <1>2, <1>3, <1>4, <1>5, <1>6, <1>7, <1>8, <1>9, <1>10
        DEF Next, Main, Terminated

(* As long as pthread_join does not fail, the threads do what Argon2Passes
   promises: whole blocks, one after the other in a lane, computed from the
   memory as it is when they are written, all lanes together at the end of
   every slice, and an error only instead of a result.                      *)
THEOREM Refinement ==
  ASSUME "join" \notin Failures
  PROVE  Spec => Abstract!Init /\ [][Abstract!Next]_(Abstract!vars)
<1>1. Init => Abstract!Init
  BY InitRefines
<1>2. IInv /\ RInv /\ [Next]_vars => [Abstract!Next]_(Abstract!vars)
  BY NextRefines
<1> QED BY <1>1, <1>2, Invariance, JoinsInvariance, PTL DEF Spec

=============================================================================
