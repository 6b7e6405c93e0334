------------------------------ MODULE MCArgon2 ------------------------------
(***************************************************************************)
(* Small blocks for TLC: a block is a residue, and the operators mix all     *)
(* their arguments, so that a wrong read or a wrong order changes values.    *)
(***************************************************************************)
EXTENDS Integers

MCBlocks == 5
MCWord == 16
MCBlock == 0 .. MCBlocks - 1
MCGarbage == 99

MCFirstBlock(h, l, j) == (h + 2 * l + (h + 1) * j) % MCBlocks
MCCompress(p, q) == (2 * p + 3 * q + 1) % MCBlocks
MCXor(b, old) == (b + old) % MCBlocks
MCFirst64(b) == [lo |-> (7 * b + 3) % MCWord, hi |-> b % MCWord]
MCAddress(r, l, s, i) == [lo |-> (5 * r + 3 * s + 7 * i + l) % MCWord, hi |-> r + s + i]

=============================================================================
