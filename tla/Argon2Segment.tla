--------------------------- MODULE Argon2Segment ---------------------------
(***************************************************************************)
(* One iteration of passe_fill_segment (argon2/ref.c): which block it reads, *)
(* and what it writes.  Blocks are abstract: Compress and Xor stand for      *)
(* fill_block, First64 for the first 64-bit word of a block, Address for the *)
(* words that next_addresses generates (a function of the position alone).   *)
(* A lane is a function on 0 .. lane_length - 1, so offsets here are the     *)
(* code's offsets less lane * lane_length.                                   *)
(***************************************************************************)
EXTENDS Argon2Index

CONSTANTS lanes, passes,
          type,            \* "d", "i" or "id"
          version10,       \* the version is ARGON2_VERSION_10
          Block,           \* the values of a computed block
          Garbage,         \* the contents of fresh memory
          Seed,            \* the values of the prehash digest H0
          FirstBlock(_, _, _),  \* of a seed, a lane and 0 or 1
          Compress(_, _),  \* previous block, reference block -> block
          Xor(_, _),       \* block, old contents -> block
          First64(_),      \* block -> pseudo-random word
          Address(_, _, _, _)   \* pass, lane, slice, index -> pseudo-random word

Lanes == 0 .. lanes - 1
Offsets == 0 .. lane_length - 1

(* The two 32-bit halves of a pseudo-random uint64_t. *)
RandomWord == [lo : 0 .. Word - 1, hi : 0 .. Word - 1]

ASSUME SizesAssumption ==
  /\ lanes \in Nat /\ lanes >= 1
  /\ passes \in Nat /\ passes >= 1
  /\ type \in {"d", "i", "id"}
  /\ version10 \in BOOLEAN

ASSUME BlockAssumption ==
  /\ Garbage \notin Block
  /\ \A h \in Seed, l \in Lanes, j \in {0, 1} : FirstBlock(h, l, j) \in Block
  /\ \A p, q \in Block : Compress(p, q) \in Block /\ Xor(p, q) \in Block

ASSUME RandomAssumption ==
  /\ \A b \in Block \union {Garbage} : First64(b) \in RandomWord
  /\ \A r \in 0 .. passes - 1, l \in Lanes, s \in Slices, i \in 0 .. segment_length - 1 :
        Address(r, l, s, i) \in RandomWord

(* Memory after passe_allocate_memory and passe_fill_first_blocks. *)
FirstMemory(h) ==
  [l \in Lanes |-> [j \in Offsets |-> IF j < 2 THEN FirstBlock(h, l, j) ELSE Garbage]]

DataIndependent(pass, slice) ==
  \/ type = "i"
  \/ type = "id" /\ pass = 0 /\ slice < ARGON2_SYNC_POINTS \div 2

(* Wrong on purpose: the ring is not closed. *)
PrevWithoutWrap(curr) == IF curr % lane_length = 0 THEN curr ELSE curr - 1

(* prev_offset before the loop: the last block of the ring before its first. *)
InitialPrev(curr) ==
  IF curr % lane_length = 0 THEN curr + lane_length - 1 ELSE curr - 1

(* prev_offset at the top of an iteration: once the loop has moved past the
   first block of the ring, the previous block is next to the current one.  *)
RotatedPrev(curr, prev) == IF curr % lane_length = 1 THEN curr - 1 ELSE prev

(* The previous block by its definition, to state properties with. *)
PrevOf(curr) == (curr - 1) % lane_length

PseudoRand(mem, pos, prev) ==
  IF DataIndependent(pos.pass, pos.slice)
  THEN Address(pos.pass, pos.lane, pos.slice, pos.index)
  ELSE First64(mem[pos.lane][prev])

(* Wrong on purpose: the first slice may refer to other lanes. *)
AnyLane(pos, rand) == rand.hi % lanes

RefLane(pos, rand) ==
  IF pos.pass = 0 /\ pos.slice = 0 THEN pos.lane ELSE rand.hi % lanes

(* The block that the one at pos refers to. *)
Reference(mem, pos, prev) ==
  LET rand == PseudoRand(mem, pos, prev)
      lane == RefLane(pos, rand)
  IN  [lane   |-> lane,
       offset |-> index_alpha(pos.pass, pos.slice, pos.index, rand.lo,
                              IF lane = pos.lane THEN 1 ELSE 0)]

WithXor(pass) == ~version10 /\ pass # 0

(* fill_block: the new contents of the block at pos. *)
NewBlock(mem, pos, prev, ref) ==
  LET b == Compress(mem[pos.lane][prev], mem[ref.lane][ref.offset])
  IN  IF WithXor(pos.pass)
      THEN Xor(b, mem[pos.lane][Curr(pos.slice, pos.index)])
      ELSE b

(* Memory after one whole iteration of passe_fill_segment at pos. *)
FillAt(mem, pos) ==
  LET prev == PrevOf(Curr(pos.slice, pos.index))
  IN  [mem EXCEPT ![pos.lane][Curr(pos.slice, pos.index)] =
         NewBlock(mem, pos, prev, Reference(mem, pos, prev))]

=============================================================================
