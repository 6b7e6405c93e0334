-------------------------- MODULE Argon2Sequential --------------------------
(***************************************************************************)
(* The reference for the result of filling: the loops of                     *)
(* fill_memory_blocks_st (argon2/core.c) around that of passe_fill_segment   *)
(* (argon2/ref.c), as a function, and the equations that its result solves.  *)
(***************************************************************************)
EXTENDS Argon2Segment

(* The four loops, from one block to the next. *)
NextPosition(p) ==
  LET at(r, s, l, i) == [pass |-> r, slice |-> s, lane |-> l, index |-> i]
  IN  IF p.index + 1 < segment_length THEN at(p.pass, p.slice, p.lane, p.index + 1)
      ELSE IF p.lane + 1 < lanes THEN at(p.pass, p.slice, p.lane + 1, 0)
      ELSE IF p.slice + 1 < ARGON2_SYNC_POINTS THEN at(p.pass, p.slice + 1, 0, 0)
      ELSE at(p.pass + 1, 0, 0, 0)

LoopStart(h) ==
  [memory |-> FirstMemory(h), pos |-> [pass |-> 0, slice |-> 0, lane |-> 0, index |-> 0]]

LoopStep(s) ==
  [memory |-> IF s.pos.index < StartingIndex(s.pos.pass, s.pos.slice)
              THEN s.memory ELSE FillAt(s.memory, s.pos),
   pos    |-> NextPosition(s.pos)]

(* The states of the loops, one after the other. *)
Loops(h) ==
  LET after[k \in Nat] == IF k = 0 THEN LoopStart(h) ELSE LoopStep(after[k - 1])
  IN  after

(* Memory after each pass, and at the end. *)
PassMemories(h) == [r \in 0 .. passes |-> Loops(h)[r * (lanes * lane_length)].memory]
Sequential(h) == PassMemories(h)[passes]

(***************************************************************************)
(* Filling as a system of equations, in which no order of events occurs:     *)
(* v[r] is the memory after r passes.                                        *)
(***************************************************************************)

(* Memory when lane l has computed its blocks of this slice below index[l]. *)
Progress(v, pass, slice, index) ==
  [l \in Lanes |-> [j \in Offsets |->
     v[IF j < Curr(slice, index[l]) THEN pass + 1 ELSE pass][l][j]]]

(* The memory that pos is computed from, with every other lane at the start of
   the slice: what those lanes do in the meantime must not matter.          *)
Seen(v, pos) ==
  Progress(v, pos.pass, pos.slice, [l \in Lanes |-> IF l = pos.lane THEN pos.index ELSE 0])

Solves(v, h) ==
  /\ \A r \in 0 .. passes : v[r] \in [Lanes -> [Offsets -> Block \union {Garbage}]]
  /\ v[0] = FirstMemory(h)
  /\ \A l \in Lanes, j \in {0, 1} : v[1][l][j] = v[0][l][j]
  /\ \A pos \in [pass : 0 .. passes - 1, slice : Slices, lane : Lanes,
                 index : 0 .. segment_length - 1] :
       pos.index >= StartingIndex(pos.pass, pos.slice) =>
         LET curr == Curr(pos.slice, pos.index)
         IN  v[pos.pass + 1][pos.lane][curr] = FillAt(Seen(v, pos), pos)[pos.lane][curr]

=============================================================================
