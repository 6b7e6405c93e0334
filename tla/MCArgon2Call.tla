---------------------------- MODULE MCArgon2Call ----------------------------
(***************************************************************************)
(* Words of nine bits.  The costs are the boundaries of every check: below,  *)
(* at and above the minima, lanes that need more memory than given, and      *)
(* values above a word.  Salts are too short, one that fits into the buffer  *)
(* of the stub when the memory cost has one digit and not when it has two,   *)
(* and one too long for a word; two of the same length differ in their bytes. *)
(***************************************************************************)
EXTENDS Argon2Call

CONSTANT OtherTag   \* the tag of some other hash

MCWord == 512
MCMaxLanes == 3
MCTCosts == {0, 1, 512 + 1}
MCMCosts == {7, 8, 17, 31, 512 + 20}
MCParallelisms == {0, 1, 2, 3, 4}
MCSaltBytes == {"s", "t"}
MCSalts == [bytes : {"s"}, length : {7, 8, 330, 512}] \union [bytes : {"t"}, length : {8}]

(* The stored hash, with one field changed, or with lanes for which the check
   of the memory cost wraps around; or with the tag of another hash.        *)
MCTampered(h) ==
  IF h = NoHash THEN {}
  ELSE LET WithCtx(c) == [ctx |-> c, tag |-> h.tag]
       IN  {WithCtx(h.ctx),
            WithCtx([h.ctx EXCEPT !.version = 16]),
            WithCtx([h.ctx EXCEPT !.version = 17]),
            WithCtx([h.ctx EXCEPT !.t_cost = (@ + 1) % MCWord]),
            WithCtx([h.ctx EXCEPT !.m_cost = (@ + 1) % MCWord]),
            WithCtx([h.ctx EXCEPT !.lanes = 64, !.threads = 64]),
            WithCtx([h.ctx EXCEPT !.lanes = 0, !.threads = 0]),
            WithCtx([h.ctx EXCEPT !.lanes = 1, !.threads = 1]),
            WithCtx([h.ctx EXCEPT !.salt = "t"]),
            WithCtx([h.ctx EXCEPT !.saltlen = 7]),
            WithCtx([h.ctx EXCEPT !.outlen = 4]),
            WithCtx([h.ctx EXCEPT !.outlen = 3]),
            [ctx |-> h.ctx, tag |-> OtherTag]}

=============================================================================
