----------------------------- MODULE MCBlake2b -----------------------------
(* Bytes are records like those of a digest, so that TLC can compare them. *)
EXTENDS Blake2bLong

CONSTANT Plain   \* model value: what a byte of the input comes from

MCByteOf == [b \in 0 .. 1 |-> [of |-> Plain, i |-> b]]
MCByte == {MCByteOf[b] : b \in 0 .. 1}
MCZero == MCByteOf[0]

(* No bytes, one, the rest of a block, more than a block, more than two. *)
MCInputs ==
  UNION {[1 .. n -> MCByte] : n \in 0 .. 2}
    \union {[j \in 1 .. n |-> MCByteOf[(j \div k) % 2]] : n \in {4, 5, 9}, k \in 1 .. 2}

=============================================================================
