----------------------------- MODULE Argon2Fill -----------------------------
(***************************************************************************)
(* passe_fill_memory_blocks (argon2/core.c) and the threads it starts        *)
(* (fill_segment_thr; passe_fill_segment of argon2/ref.c; argon2/thread.c).  *)
(* The calling thread walks passes, slices and lanes; a lane's segment is    *)
(* filled by its own thread, or by a plain call when threads = 1.  A worker  *)
(* reads while it chooses a reference and while it computes a block, and     *)
(* writes at the end of fill_block: the two are separate steps, and          *)
(* NoDataRace says that no other thread writes in between.                   *)
(*                                                                           *)
(* Blocks are abstract (see Argon2Segment).  pthread_join of a thread that   *)
(* is not joinable is undefined behaviour: pc = "undefined" stands for       *)
(* whatever follows it.                                                      *)
(***************************************************************************)
EXTENDS Argon2Sequential, FiniteSets

CONSTANTS threads,   \* instance->threads
          Failures   \* the calls that may fail: "calloc", "create", "join"

ASSUME ThreadsAssumption ==
  /\ threads \in 1 .. lanes    \* passe_argon2_ctx clamps context->threads
  /\ Failures \subseteq {"calloc", "create", "join"}

VARIABLES
  seed,     \* the prehash digest, which nothing changes
  memory,   \* instance->memory, by lane
  pc,       \* where the calling thread is
  pass, slice, lane,   \* its r, s and l
  ll,       \* its second loop counter, in the clean-up
  rc,       \* the result
  thr_data, \* the argument of each lane's thread
  thread,   \* lane -> what its thread is doing
  pos,      \* lane -> position, the parameter of its passe_fill_segment
  prev,     \* lane -> prev_offset
  ref       \* lane -> the reference block chosen

main == <<pc, pass, slice, lane, ll, rc, thr_data>>
work == <<memory, pos, prev, ref>>
vars == <<seed, main, thread, work>>

Live == {"created", "address", "fill"}    \* between create and exit
Joinable == Live \union {"exited"}

Init ==
  /\ seed \in Seed
  /\ memory = FirstMemory(seed)
  /\ pc = IF threads = 1 THEN "call" ELSE "calloc_thread"
  /\ pass = 0 /\ slice = 0 /\ lane = 0 /\ ll = 0
  /\ rc = "ARGON2_OK"
  /\ thr_data = [l \in Lanes |-> [pass |-> 0, slice |-> 0, lane |-> 0]]
  /\ thread = [l \in Lanes |-> "none"]
  /\ pos = [l \in Lanes |->
              [pass |-> 0, slice |-> 0, lane |-> l, index |-> StartingIndex(0, 0)]]
  /\ prev = [l \in Lanes |-> 0]
  /\ ref = [l \in Lanes |-> [lane |-> 0, offset |-> 0]]

(***************************************************************************)
(* The calling thread.                                                       *)
(***************************************************************************)

(* Wrong on purpose: the passes are not counted. *)
EndSliceOfSamePass(next) ==
  /\ slice' = (slice + 1) % ARGON2_SYNC_POINTS
  /\ pc' = next /\ pass' = pass /\ lane' = 0

(* The end of a slice: on to the next one, to next, or out of the loops. *)
EndSlice(next) ==
  /\ slice' = (slice + 1) % ARGON2_SYNC_POINTS
  /\ pass' = IF slice = ARGON2_SYNC_POINTS - 1 THEN pass + 1 ELSE pass
  /\ pc' = IF pass' = passes THEN "fail" ELSE next
  /\ lane' = 0

(* One of the two callocs of fill_memory_blocks_mt. *)
Calloc(here, next) ==
  /\ pc = here
  /\ \/ pc' = next /\ UNCHANGED rc
     \/ "calloc" \in Failures /\ pc' = "fail" /\ rc' = "ARGON2_MEMORY_ALLOCATION_ERROR"
  /\ UNCHANGED <<seed, pass, slice, lane, ll, thr_data, thread, work>>

CallocThread == Calloc("calloc_thread", "calloc_thr_data")
CallocThrData == Calloc("calloc_thr_data", "lane")

(* A join of lane l's thread waits for its exit; then is the way on. *)
Join(l, then) ==
  /\ thread[l] \notin Live
  /\ IF thread[l] = "exited"
     THEN thread' = [thread EXCEPT ![l] = "joined"] /\ then
     ELSE pc' = "undefined" /\ UNCHANGED <<thread, pass, slice, lane, ll, rc>>
  /\ UNCHANGED <<seed, thr_data, work>>

(* Wrong on purpose: rc is forgotten. *)
FailedJoinUnnoticed ==
  /\ "join" \in Failures
  /\ pc' = "fail"
  /\ UNCHANGED <<seed, pass, slice, lane, ll, rc, thr_data, thread, work>>

(* A join that reports an error, and leaves the loops. *)
FailedJoin ==
  /\ "join" \in Failures
  /\ pc' = "fail" /\ rc' = "ARGON2_THREAD_FAIL"
  /\ UNCHANGED <<seed, pass, slice, lane, ll, thr_data, thread, work>>

(* 2.1: make room when as many threads as allowed are running. *)
JoinForRoom ==
  /\ pc = "lane" /\ lane >= threads
  /\ \/ Join(lane - threads, pc' = "create" /\ UNCHANGED <<pass, slice, lane, ll, rc>>)
     \/ FailedJoin

(* 2.2: prepare the argument and start the thread of this lane. *)
LateWindow == pc = "create" \/ (pc = "lane" /\ lane <= threads)   \* wrong on purpose
AtCreate == pc = "create" \/ (pc = "lane" /\ lane < threads)

(* Wrong on purpose: nobody looks at the result of the creation. *)
CreateUnchecked ==
  /\ AtCreate
  /\ thr_data' = [thr_data EXCEPT ![lane] = [pass |-> pass, slice |-> slice, lane |-> lane]]
  /\ \/ thread' = [thread EXCEPT ![lane] = "created"]
     \/ "create" \in Failures /\ UNCHANGED thread
  /\ IF lane + 1 < lanes
     THEN pc' = "lane" /\ lane' = lane + 1
     ELSE pc' = "join_rest" /\ lane' = lanes - threads
  /\ UNCHANGED <<seed, pass, slice, ll, rc, work>>

CreateThread ==
  /\ AtCreate
  /\ thr_data' = [thr_data EXCEPT ![lane] = [pass |-> pass, slice |-> slice, lane |-> lane]]
  /\ \/ /\ thread' = [thread EXCEPT ![lane] = "created"]
        /\ IF lane + 1 < lanes
           THEN pc' = "lane" /\ lane' = lane + 1
           ELSE pc' = "join_rest" /\ lane' = lanes - threads
        /\ UNCHANGED <<ll, rc>>
     \/ /\ "create" \in Failures
        /\ pc' = "cleanup" /\ ll' = 0
        /\ UNCHANGED <<thread, lane, rc>>
  /\ UNCHANGED <<seed, pass, slice, work>>

(* Wrong on purpose: the lane whose thread was not created is joined too. *)
CleanupJoinsToo ==
  /\ pc = "cleanup" /\ ll <= lane
  /\ Join(ll, ll' = ll + 1 /\ UNCHANGED <<pc, pass, slice, lane, rc>>)

(* The wait for the threads below lane l after a failed create; what the joins
   return is ignored.                                                       *)
CleanupJoin ==
  /\ pc = "cleanup" /\ ll < lane
  /\ \/ Join(ll, ll' = ll + 1 /\ UNCHANGED <<pc, pass, slice, lane, rc>>)
     \/ /\ "join" \in Failures
        /\ ll' = ll + 1
        /\ UNCHANGED <<seed, pc, pass, slice, lane, rc, thr_data, thread, work>>

(* Wrong on purpose: the error is returned without waiting. *)
CleanupWithoutWait ==
  /\ pc = "cleanup"
  /\ pc' = "fail" /\ rc' = "ARGON2_THREAD_FAIL"
  /\ UNCHANGED <<seed, pass, slice, lane, ll, thr_data, thread, work>>

CleanupDone ==
  /\ pc = "cleanup" /\ ll = lane
  /\ pc' = "fail" /\ rc' = "ARGON2_THREAD_FAIL"
  /\ UNCHANGED <<seed, pass, slice, lane, ll, thr_data, thread, work>>

(* 3: join the remaining threads, then advance s and r. *)
JoinRest ==
  /\ pc = "join_rest"
  /\ \/ Join(lane, IF lane + 1 < lanes
                   THEN lane' = lane + 1 /\ UNCHANGED <<pc, pass, slice, ll, rc>>
                   ELSE EndSlice("lane") /\ UNCHANGED <<ll, rc>>)
     \/ FailedJoin

(* The label fail: free both arrays and return to passe_argon2_ctx. *)
Return ==
  /\ pc = "fail"
  /\ pc' = "returned"
  /\ UNCHANGED <<seed, pass, slice, lane, ll, rc, thr_data, thread, work>>

(* passe_fill_segment called at position p, by the thread of lane l. *)
EnterSegment(l, p) ==
  /\ thread' = [thread EXCEPT ![l] = "address"]
  /\ LET index == StartingIndex(p.pass, p.slice)
     IN  /\ pos' = [pos EXCEPT ![l] = [pass |-> p.pass, slice |-> p.slice,
                                       lane |-> p.lane, index |-> index]]
         /\ prev' = [prev EXCEPT ![l] = InitialPrev(Curr(p.slice, index))]

(* fill_memory_blocks_st: the caller fills the segment itself ... *)
CallSegment ==
  /\ pc = "call"
  /\ pc' = "segment"
  /\ EnterSegment(lane, [pass |-> pass, slice |-> slice, lane |-> lane])
  /\ UNCHANGED <<seed, memory, ref, pass, slice, lane, ll, rc, thr_data>>

(* Wrong on purpose: the loop stops one lane early. *)
SegmentReturnsShort ==
  /\ pc = "segment" /\ thread[lane] = "exited"
  /\ thread' = [thread EXCEPT ![lane] = "joined"]
  /\ IF lane + 2 < lanes
     THEN pc' = "call" /\ lane' = lane + 1 /\ UNCHANGED <<pass, slice>>
     ELSE EndSlice("call")
  /\ UNCHANGED <<seed, work, ll, rc, thr_data>>

(* ... and goes on when passe_fill_segment returns. *)
SegmentReturns ==
  /\ pc = "segment" /\ thread[lane] = "exited"
  /\ thread' = [thread EXCEPT ![lane] = "joined"]
  /\ IF lane + 1 < lanes
     THEN pc' = "call" /\ lane' = lane + 1 /\ UNCHANGED <<pass, slice>>
     ELSE EndSlice("call")
  /\ UNCHANGED <<seed, work, ll, rc, thr_data>>

Main ==
  \/ CallocThread \/ CallocThrData
  \/ JoinForRoom \/ CreateThread \/ CleanupJoin \/ CleanupDone \/ JoinRest
  \/ CallSegment \/ SegmentReturns
  \/ Return

(***************************************************************************)
(* The workers: fill_segment_thr and passe_fill_segment, by lane.            *)
(***************************************************************************)

(* The new thread reads its argument. *)
ThreadStart(l) ==
  /\ thread[l] = "created"
  /\ EnterSegment(l, thr_data[l])
  /\ UNCHANGED <<seed, memory, ref, main>>

(* Wrong on purpose: one block more than the segment has. *)
ChooseOneMore(l) ==
  /\ thread[l] = "address" /\ pos[l].index <= segment_length
  /\ thread' = [thread EXCEPT ![l] = "fill"]
  /\ UNCHANGED <<seed, work, main>>

(* 1: rotate prev_offset and choose the reference block. *)
ChooseReference(l) ==
  /\ thread[l] = "address" /\ pos[l].index < segment_length
  /\ LET before == RotatedPrev(Curr(pos[l].slice, pos[l].index), prev[l])
     IN  /\ prev' = [prev EXCEPT ![l] = before]
         /\ ref' = [ref EXCEPT ![l] = Reference(memory, pos[l], before)]
  /\ thread' = [thread EXCEPT ![l] = "fill"]
  /\ UNCHANGED <<seed, memory, pos, main>>

(* 2: compute the block, write it and move to the next one. *)
FillBlock(l) ==
  /\ thread[l] = "fill"
  /\ memory' = [memory EXCEPT ![pos[l].lane][Curr(pos[l].slice, pos[l].index)] =
                  NewBlock(memory, pos[l], prev[l], ref[l])]
  /\ pos' = [pos EXCEPT ![l].index = @ + 1]
  /\ prev' = [prev EXCEPT ![l] = @ + 1]
  /\ thread' = [thread EXCEPT ![l] = "address"]
  /\ UNCHANGED <<seed, ref, main>>

(* Wrong on purpose: the last block may be left out. *)
ThreadExitEarly(l) ==
  /\ thread[l] = "address" /\ pos[l].index >= segment_length - 1
  /\ thread' = [thread EXCEPT ![l] = "exited"]
  /\ UNCHANGED <<seed, work, main>>

(* The loop ends; passe_argon2_thread_exit, or a return in the st version. *)
ThreadExit(l) ==
  /\ thread[l] = "address" /\ pos[l].index >= segment_length
  /\ thread' = [thread EXCEPT ![l] = "exited"]
  /\ UNCHANGED <<seed, work, main>>

Worker(l) == ThreadStart(l) \/ ChooseReference(l) \/ FillBlock(l) \/ ThreadExit(l)

(* The end: the caller has its result and no thread has anything to do. *)
Terminated ==
  /\ pc \in {"returned", "undefined"}
  /\ \A l \in Lanes : thread[l] \notin Live
  /\ UNCHANGED vars

Next == Main \/ (\E l \in Lanes : Worker(l)) \/ Terminated

(* The operating system runs every thread that is not blocked. *)
Fairness == WF_vars(Main) /\ \A l \in Lanes : WF_vars(Worker(l))

Spec == Init /\ [][Next]_vars /\ Fairness

(***************************************************************************)
(* Properties.                                                               *)
(***************************************************************************)

Positions == [pass : 0 .. passes - 1, slice : Slices, lane : Lanes,
              index : 0 .. segment_length]

(* The types of the variables. *)
TypeOK ==
  /\ seed \in Seed
  /\ memory \in [Lanes -> [Offsets -> Block \union {Garbage}]]
  /\ pc \in {"calloc_thread", "calloc_thr_data", "lane", "create", "cleanup",
             "join_rest", "call", "segment", "fail", "returned", "undefined"}
  /\ pass \in 0 .. passes /\ slice \in Slices
  /\ lane \in Lanes /\ ll \in 0 .. lanes
  /\ rc \in {"ARGON2_OK", "ARGON2_MEMORY_ALLOCATION_ERROR", "ARGON2_THREAD_FAIL"}
  /\ thr_data \in [Lanes -> [pass : 0 .. passes - 1, slice : Slices, lane : Lanes]]
  /\ thread \in [Lanes -> Joinable \union {"none", "joined"}]
  /\ pos \in [Lanes -> Positions]
  /\ prev \in [Lanes -> 0 .. lane_length]
  /\ ref \in [Lanes -> [lane : Lanes, offset : Offsets]]

Cell(l, offset) == <<l, offset>>
CurrCell(l) == Cell(pos[l].lane, Curr(pos[l].slice, pos[l].index))

(* The blocks that lane l's thread may be reading, and the one it may be
   writing (and reading, when it is xored), until its next step.            *)
Reads(l) ==
  CASE /\ thread[l] = "address" /\ pos[l].index < segment_length
       /\ ~ DataIndependent(pos[l].pass, pos[l].slice) ->
         {Cell(pos[l].lane, RotatedPrev(Curr(pos[l].slice, pos[l].index), prev[l]))}
    [] thread[l] = "fill" ->
         {Cell(pos[l].lane, prev[l]), Cell(ref[l].lane, ref[l].offset)}
    [] OTHER -> {}

Writes(l) == IF thread[l] = "fill" THEN {CurrCell(l)} ELSE {}

(* No block is written by one thread while another one reads or writes it: the
   threads share memory without a lock, and only the choice of reference
   blocks and the joins keep them apart (argon2/ref.c, argon2/core.c).      *)
NoDataRace ==
  \A l, m \in Lanes : l # m => Writes(l) \intersect (Reads(m) \union Writes(m)) = {}

(* No thread reads memory that malloc returned and nobody has written yet, and
   no block refers to itself (argon2/ref.c).                                *)
ReadsComputedBlocks ==
  \A l \in Lanes : \A c \in Reads(l) :
     memory[c[1]][c[2]] \in Block /\ c # CurrCell(l)

(* fill_block xors the previous and the reference block: they are never the
   same one, which would cancel out ("all but the previous", argon2/core.c). *)
DistinctOperands ==
  \A l \in Lanes : thread[l] = "fill" =>
     Cell(ref[l].lane, ref[l].offset) # Cell(pos[l].lane, prev[l])

(* When passe_fill_memory_blocks returns, no thread is left that could use the
   freed thr_data, the instance on the caller's stack or the memory that
   passe_finalize frees, and no thread is left unjoined.                    *)
NoThreadSurvives ==
  pc \in {"fail", "returned"} => \A l \in Lanes : thread[l] \in {"none", "joined"}

(* The clean-up waits for threads that run, as its comment says ("Wait for
   already running threads"): nobody joins a thread twice.                  *)
JoinsAreDefined == pc # "undefined"

(* At most `threads` threads exist at a time: the limit that 2.1 enforces. *)
ThreadLimit == Cardinality({l \in Lanes : thread[l] \in Joinable}) <= threads

(* Every call returns, so the joins never wait for ever. *)
Termination == <>(pc = "returned")

(* A position of the calling thread and of its workers, seen as one of the
   abstract specification.                                                  *)
Abstract ==
  INSTANCE Argon2Passes WITH
    index <- [l \in Lanes |->
                IF pos[l].pass = pass /\ pos[l].slice = slice
                THEN pos[l].index ELSE StartingIndex(pass, slice)],
    status <- IF rc # "ARGON2_OK" THEN "failed"
              ELSE IF pc \in {"fail", "returned"} THEN "filled" ELSE "filling"

(* The threads implement Argon2Passes: a block at a time, in any order between
   two synchronisation points, and never an end without a result.           *)
ImplementsPasses == Abstract!Spec

(* The filled memory, and so the hash, does not depend on the schedule: when
   ARGON2_OK is returned, the memory is the one that a single thread computes
   lane by lane (fill_memory_blocks_mt and _st, argon2/core.c).             *)
Deterministic ==
  pc \in {"fail", "returned"} /\ rc = "ARGON2_OK" => memory = Sequential(seed)

(***************************************************************************)
(* The inductive invariant behind TypeOK, NoDataRace, ReadsComputedBlocks    *)
(* and DistinctOperands (see Argon2FillProofs).                              *)
(***************************************************************************)

Filling == {"calloc_thread", "calloc_thr_data", "lane", "create", "cleanup",
            "join_rest", "call", "segment"}

(* Where the calling thread can be, given its counters. *)
ControlInv ==
  /\ pc \in Filling => pass < passes
  /\ pc \in {"call", "segment"} => threads = 1
  /\ pc = "create" => lane >= threads
  /\ pc = "join_rest" => lane >= lanes - threads
  /\ pc \in {"calloc_thread", "calloc_thr_data"} => lane = 0

(* The lanes whose segment of this slice has been handed out ... *)
Launched(l) ==
  \/ pc \in {"lane", "create", "call"} /\ l < lane
  \/ pc = "segment" /\ l <= lane
  \/ pc = "join_rest"

(* ... and those whose thread cannot be running any more. *)
Passed(l) ==
  \/ pc \in {"calloc_thread", "calloc_thr_data", "call"}
  \/ pc = "segment" /\ l # lane
  \/ pc = "lane" /\ (l >= lane \/ l < lane - threads)
  \/ pc = "create" /\ (l >= lane \/ l <= lane - threads)
  \/ pc = "join_rest" /\ l < lane

(* The joins are a barrier: no thread of an earlier slice is left. *)
BarrierInv ==
  \A l \in Lanes :
    /\ Passed(l) => thread[l] \notin Live
    /\ Launched(l) /\ thread[l] \notin Live =>
         pos[l].pass = pass /\ pos[l].slice = slice /\ pos[l].index = segment_length

(* A thread works on its lane's segment of the current slice. *)
WorkerInv ==
  \A l \in Lanes :
    /\ pos[l].lane = l
    /\ thread[l] = "created" =>
         thr_data[l] = [pass |-> pass, slice |-> slice, lane |-> l] /\ pass < passes
    /\ thread[l] \in {"address", "fill"} =>
         /\ pos[l].pass = pass /\ pos[l].slice = slice
         /\ pos[l].index >= StartingIndex(pass, slice)
         /\ thread[l] = "fill" => pos[l].index < segment_length

(* prev_offset is one behind, or at the end of the ring. *)
PrevInv ==
  \A l \in Lanes :
    LET curr == Curr(pos[l].slice, pos[l].index)
    IN  /\ thread[l] = "address" =>
             \/ prev[l] = curr - 1
             \/ curr = 0 /\ prev[l] = lane_length - 1
             \/ curr = 1 /\ prev[l] = lane_length
        /\ thread[l] = "fill" =>
             prev[l] = IF curr = 0 THEN lane_length - 1 ELSE curr - 1

(* The chosen reference is one that passe_index_alpha may return. *)
ReferenceInv ==
  \A l \in Lanes : thread[l] = "fill" =>
    LET curr == Curr(pos[l].slice, pos[l].index)
        r == ref[l]
    IN  IF r.lane = l
        THEN /\ r.offset # curr /\ (pass = 0 => r.offset < curr)
             /\ r.offset # (IF curr = 0 THEN lane_length - 1 ELSE curr - 1)
        ELSE /\ \A i \in 0 .. segment_length - 1 : r.offset # Curr(slice, i)
             /\ pass = 0 => r.offset < Curr(slice, 0)

(* The blocks that have been computed. *)
ComputedInv ==
  \A l \in Lanes, j \in Offsets :
    \/ pass > 0
    \/ j < 2
    \/ j < Curr(slice, 0)
    \/ pos[l].pass = pass /\ pos[l].slice = slice /\ j < Curr(slice, pos[l].index)
    => memory[l][j] \in Block

IInv ==
  /\ TypeOK /\ ControlInv /\ BarrierInv /\ WorkerInv
  /\ PrevInv /\ ReferenceInv /\ ComputedInv

(***************************************************************************)
(* The invariant that Argon2RefinementProofs adds to it: what the joins      *)
(* leave behind, and what makes a worker's step one of Argon2Passes.         *)
(***************************************************************************)

(* A lane whose thread cannot be running has been joined, or not started yet;
   unless joins fail, so have all when the call ends.                       *)
Cleaned(l) ==
  \/ pc = "cleanup" /\ (l < ll \/ l >= lane)
  \/ pc \in {"fail", "returned"}
Settled(l) == Passed(l) \/ ("join" \notin Failures /\ Cleaned(l))
JoinedInv == \A l \in Lanes : Settled(l) => thread[l] \in {"none", "joined"}

(* The lanes that are still to be joined have a thread that can be. *)
Pending(l) ==
  \/ Launched(l) /\ ~ Passed(l)
  \/ threads = lanes /\ pc = "cleanup" /\ ll <= l /\ l < lane
PendingInv == \A l \in Lanes : Pending(l) => thread[l] \in Joinable

(* The threads that exist are those of `threads` successive lanes. *)
WindowInv ==
  \E w \in 1 - threads .. lanes :
    \A l \in Lanes : thread[l] \in Joinable => w <= l /\ l < w + threads

(* There is no error before the end. *)
ResultInv == pc \notin {"fail", "returned"} => rc = "ARGON2_OK"

(* A lane that has not begun its segment is at its start, or at an old one. *)
Waiting(l) ==
  \/ pc \in {"calloc_thread", "calloc_thr_data"}
  \/ pc \in {"lane", "create", "call"} /\ l >= lane
  \/ pc = "segment" /\ l > lane
FreshInv ==
  \A l \in Lanes :
    /\ thread[l] = "created" \/ Waiting(l)
    /\ pos[l].pass = pass /\ pos[l].slice = slice
    => pos[l].index = StartingIndex(pass, slice)

(* Nothing has changed the choice of a reference since it was made. *)
ChoiceInv ==
  \A l \in Lanes : thread[l] = "fill" => ref[l] = Reference(memory, pos[l], prev[l])

RInv == JoinedInv /\ PendingInv /\ WindowInv /\ ResultInv /\ FreshInv /\ ChoiceInv

=============================================================================
