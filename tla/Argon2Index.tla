---------------------------- MODULE Argon2Index ----------------------------
(***************************************************************************)
(* Where a new Argon2 block may point (passe_index_alpha of argon2/core.c).  *)
(* A lane is a ring of lane_length blocks, cut into ARGON2_SYNC_POINTS       *)
(* segments of segment_length blocks.  Lanes are filled segment by segment   *)
(* by concurrent threads, which meet only at the end of a segment: the       *)
(* arithmetic below is all that keeps a thread from reading a block that     *)
(* another one is writing.                                                   *)
(*                                                                           *)
(* Word stands for 2^32, the range of the C type uint32_t.  TLC checks the   *)
(* module for small words; the lemmas of Argon2FillProofs hold for all.      *)
(***************************************************************************)
EXTENDS Integers

CONSTANTS Word,            \* one more than the greatest uint32_t
          segment_length   \* blocks in a segment

ARGON2_SYNC_POINTS == 4

lane_length == segment_length * ARGON2_SYNC_POINTS

ASSUME SegmentAssumption ==
  /\ segment_length \in Nat
  /\ segment_length >= 2     \* passe_argon2_ctx asks for 2 * SYNC_POINTS blocks a lane
  /\ Word \in Nat
  /\ lane_length < Word      \* memory_blocks is a uint32_t

Slices == 0 .. ARGON2_SYNC_POINTS - 1

(* The value of an integer expression of type uint32_t. *)
U32(n) == n % Word

(* The block that slice and index address within their lane. *)
Curr(slice, index) == slice * segment_length + index

(* The first block of a segment that has to be computed: the first two of a
   lane come from the initial hash.                                         *)
StartingIndex(pass, slice) == IF pass = 0 /\ slice = 0 THEN 2 ELSE 0

(* Wrong on purpose: the previous block may be referenced, too. *)
AreaWithPrevious(pass, slice, index, same_lane) ==
  U32((IF pass = 0 THEN slice * segment_length ELSE lane_length - segment_length)
      + (IF same_lane = 1 \/ (pass = 0 /\ slice = 0) THEN index ELSE 0))

(* Wrong on purpose: the segments being filled count as finished. *)
AreaOfUnfinished(pass, slice, index, same_lane) ==
  U32(IF same_lane = 1 \/ (pass = 0 /\ slice = 0)
      THEN (IF pass = 0 THEN slice * segment_length ELSE lane_length - segment_length)
           + index - 1
      ELSE (IF pass = 0 THEN (slice + 1) * segment_length ELSE lane_length - 1)
           + (IF index = 0 THEN -1 ELSE 0))

(* The number of blocks that may be referenced; same_lane is the C truth value
   of "the reference is in the lane of the block being computed".           *)
ReferenceAreaSize(pass, slice, index, same_lane) ==
  LET finished == IF pass = 0 THEN slice * segment_length
                              ELSE lane_length - segment_length
  IN  U32(IF same_lane = 1 \/ (pass = 0 /\ slice = 0)
          THEN finished + index - 1
          ELSE finished + (IF index = 0 THEN -1 ELSE 0))

(* The squared distribution of pseudo_rand over the area, newest block first. *)
RelativePosition(area, pseudo_rand) ==
  U32(area - 1) - ((area * ((pseudo_rand * pseudo_rand) \div Word)) \div Word)

(* Wrong on purpose: the segment that is being filled is taken for the oldest. *)
StartAtSlice(pass, slice) == IF pass = 0 THEN 0 ELSE slice * segment_length

(* The oldest block that may be referenced. *)
StartPosition(pass, slice) ==
  IF pass = 0 \/ slice = ARGON2_SYNC_POINTS - 1
  THEN 0
  ELSE (slice + 1) * segment_length

index_alpha(pass, slice, index, pseudo_rand, same_lane) ==
  LET area == ReferenceAreaSize(pass, slice, index, same_lane)
  IN  (StartPosition(pass, slice) + RelativePosition(area, pseudo_rand)) % lane_length

=============================================================================
