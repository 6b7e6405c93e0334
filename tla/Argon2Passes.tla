---------------------------- MODULE Argon2Passes ----------------------------
(***************************************************************************)
(* What filling the memory promises, without threads: blocks are computed    *)
(* one at a time, each lane in order, all lanes meeting at the end of every  *)
(* slice.  Both bodies of passe_fill_memory_blocks (argon2/core.c), the      *)
(* loops of fill_memory_blocks_st and the threads of fill_memory_blocks_mt,  *)
(* implement this.  The order in which the lanes advance is free.            *)
(***************************************************************************)
EXTENDS Argon2Segment

VARIABLES seed,     \* the prehash digest the first blocks come from
          memory,   \* lane -> offset -> block
          pass, slice,
          index,    \* lane -> the next block of the segment
          status    \* "filling", "filled" or "failed"

vars == <<seed, memory, pass, slice, index, status>>

At(l) == [pass |-> pass, slice |-> slice, lane |-> l, index |-> index[l]]

Init ==
  /\ seed \in Seed
  /\ memory = FirstMemory(seed)
  /\ pass = 0 /\ slice = 0
  /\ index = [l \in Lanes |-> StartingIndex(0, 0)]
  /\ status = "filling"

(* Lane l gets its next block. *)
FillBlock(l) ==
  /\ status = "filling"
  /\ pass < passes
  /\ index[l] < segment_length
  /\ memory' = FillAt(memory, At(l))
  /\ index' = [index EXCEPT ![l] = @ + 1]
  /\ UNCHANGED <<seed, pass, slice, status>>

(* Every lane has reached the synchronisation point. *)
NextSlice ==
  /\ status = "filling"
  /\ pass < passes
  /\ \A l \in Lanes : index[l] = segment_length
  /\ slice' = (slice + 1) % ARGON2_SYNC_POINTS
  /\ pass' = IF slice = ARGON2_SYNC_POINTS - 1 THEN pass + 1 ELSE pass
  /\ index' = [l \in Lanes |-> StartingIndex(pass', slice')]
  /\ status' = IF pass' = passes THEN "filled" ELSE "filling"
  /\ UNCHANGED <<seed, memory>>

(* No memory or no threads: the caller gets an error and no hash. *)
Fail ==
  /\ status = "filling"
  /\ status' = "failed"
  /\ UNCHANGED <<seed, memory, pass, slice, index>>

Terminated == status # "filling" /\ UNCHANGED vars

Next == (\E l \in Lanes : FillBlock(l)) \/ NextSlice \/ Fail \/ Terminated

Fairness == WF_vars(NextSlice) /\ \A l \in Lanes : WF_vars(FillBlock(l))

Spec == Init /\ [][Next]_vars /\ Fairness

TypeOK ==
  /\ seed \in Seed
  /\ memory \in [Lanes -> [Offsets -> Block \union {Garbage}]]
  /\ pass \in 0 .. passes /\ slice \in Slices
  /\ index \in [Lanes -> 0 .. segment_length]
  /\ status \in {"filling", "filled", "failed"}

=============================================================================
