---------------------------- MODULE Blake2bLong ----------------------------
(***************************************************************************)
(* The callers of blake2b.c: passe_blake2b_long, which makes a digest of any *)
(* length out of digests of at most BLAKE2B_OUTBYTES bytes, and callers like *)
(* passe_initial_hash that stream their own pieces.                          *)
(***************************************************************************)
EXTENDS Blake2b

CONSTANTS Base,         \* the values of a byte; a uint32_t has four of them
          ByteOf,       \* the byte of a value below Base
          StreamLens,   \* the digest lengths that streaming callers ask for
          OutLens,      \* the lengths asked of passe_blake2b_long
          Inputs        \* the messages

ASSUME LongAssumption ==
  /\ Base \in Nat \ {0}
  /\ ByteOf \in [0 .. Base - 1 -> Byte]
  /\ BLAKE2B_OUTBYTES % 2 = 0
  /\ StreamLens \subseteq Nat /\ OutLens \subseteq Nat
  /\ Inputs \subseteq Seq(Byte)

VARIABLES pc, outlen, in, toproduce, out_buffer, out

long == <<outlen, in, toproduce, out_buffer, out>>
vars == <<stream, pc, long>>

UINT32_MAX == Base * Base * Base * Base - 1

Half == BLAKE2B_OUTBYTES \div 2

(* store32: the bytes of a length, the lowest first. *)
LengthBytes(n) ==
  <<ByteOf[n % Base], ByteOf[(n \div Base) % Base],
    ByteOf[(n \div (Base * Base)) % Base], ByteOf[(n \div (Base * Base * Base)) % Base]>>

(* The length of the first digest. *)
FirstLength(n) == IF n <= BLAKE2B_OUTBYTES THEN n ELSE BLAKE2B_OUTBYTES

(* No state has been initialised yet: none of it is read before InitCall. *)
Init ==
  /\ h = Chained(0, <<>>) /\ t0 = 0 /\ t1 = 0 /\ f0 = TRUE
  /\ buf = ZeroBlock /\ buflen = 0 /\ digest_length = 0
  /\ msg = <<>> /\ inlen = 0 /\ ret = 0 /\ digest = <<>>
  /\ pc = "start"
  /\ outlen = 0 /\ in = <<>> /\ toproduce = 0 /\ out_buffer = <<>> /\ out = <<>>

(***************************************************************************)
(* A caller that streams.                                                    *)
(***************************************************************************)

StreamInit(n) ==
  /\ pc = "start" /\ pc' = "stream"
  /\ InitCall(n)
  /\ UNCHANGED long

StreamUpdate(data) ==
  /\ pc = "stream"
  /\ UpdateCall(data)
  /\ UNCHANGED <<pc, long>>

StreamFinal(n) ==
  /\ pc = "stream"
  /\ FinalCall(n)
  /\ UNCHANGED <<pc, long>>

(***************************************************************************)
(* passe_blake2b_long.                                                       *)
(***************************************************************************)

(* The macro TRY: go on, or fail with ret. *)
Try(next) == pc' = IF ret' = 0 THEN next ELSE "done"

LongTooLong(n, m) ==
  /\ pc = "start" /\ n > UINT32_MAX
  /\ pc' = "done" /\ ret' = -1
  /\ outlen' = n /\ in' = m
  /\ UNCHANGED <<state, msg, inlen, digest, toproduce, out_buffer, out>>

LongInit(n, m) ==
  /\ pc = "start" /\ n <= UINT32_MAX
  /\ 4 + Len(m) <= MaxMessage    \* bound of the model
  /\ InitCall(FirstLength(n))
  /\ Try("length")
  /\ outlen' = n /\ in' = m
  /\ UNCHANGED <<toproduce, out_buffer, out>>

LongLength ==
  /\ pc = "length"
  /\ UpdateCall(LengthBytes(outlen))
  /\ Try("input")
  /\ UNCHANGED long

LongInput ==
  /\ pc = "input"
  /\ UpdateCall(in)
  /\ Try("final")
  /\ UNCHANGED long

LongFinal ==
  /\ pc = "final"
  /\ FinalCall(FirstLength(outlen))
  /\ Try(IF outlen <= BLAKE2B_OUTBYTES THEN "done" ELSE "expand")
  /\ out_buffer' = digest'
  /\ IF outlen <= BLAKE2B_OUTBYTES
     THEN out' = digest' /\ toproduce' = 0
     ELSE out' = SubSeq(digest', 1, Half) /\ toproduce' = outlen - Half
  /\ UNCHANGED <<outlen, in>>

(* A call of passe_blake2b: init, one update and final on a state of its own,
   with the digest of its input (DigestOfMessage) as the result.            *)
Blake2bCall(n, m) ==
  IF BadLength(n) THEN ret' = -1 /\ UNCHANGED out_buffer
                  ELSE ret' = 0 /\ out_buffer' = Hash(n, m)

(* Wrong on purpose: one half digest too many. *)
MoreToProduceEqual == toproduce >= BLAKE2B_OUTBYTES

(* Wrong on purpose: halves are taken until nothing is left. *)
MoreToProduceAny == toproduce > 0

MoreToProduce == toproduce > BLAKE2B_OUTBYTES

LongExpand ==
  /\ pc = "expand" /\ MoreToProduce
  /\ Blake2bCall(BLAKE2B_OUTBYTES, out_buffer)
  /\ Try("expand")
  /\ out' = out \o SubSeq(out_buffer', 1, Half)
  /\ toproduce' = toproduce - Half
  /\ UNCHANGED <<state, msg, inlen, digest, outlen, in>>

(* passe_blake2b has a state of its own and cannot fail here; after it, blake_state
   is wiped and not used again.                                             *)
LongLast ==
  /\ pc = "expand" /\ ~ MoreToProduce
  /\ Blake2bCall(toproduce, out_buffer)
  /\ pc' = "done"
  /\ out' = IF ret' = 0 THEN out \o out_buffer' ELSE out
  /\ UNCHANGED <<state, msg, inlen, digest, outlen, in, toproduce>>

Returned == pc = "done" /\ UNCHANGED vars

Stream ==
  \/ \E n \in StreamLens : StreamInit(n) \/ StreamFinal(n)
  \/ \E data \in Inputs : StreamUpdate(data)

Update == (UpdateLoop \/ UpdateCopy) /\ UNCHANGED <<pc, long>>

Long ==
  \/ \E n \in OutLens, m \in Inputs : LongTooLong(n, m) \/ LongInit(n, m)
  \/ LongLength \/ LongInput \/ LongFinal \/ LongExpand \/ LongLast

Next == Stream \/ Update \/ Long \/ Returned

Spec == Init /\ [][Next]_vars

(***************************************************************************)
(* Properties.                                                               *)
(***************************************************************************)

TypeOK ==
  /\ StreamTypeOK
  /\ pc \in {"start", "stream", "length", "input", "final", "expand", "done"}
  /\ outlen \in Nat /\ toproduce \in Nat
  /\ Len(out) <= outlen    \* the caller's buffer

(* r digests, each the digest of the one before, and their first halves. *)
Digests(first, r) ==
  LET V[i \in 1 .. r] == Hash(BLAKE2B_OUTBYTES, IF i = 1 THEN first ELSE V[i - 1])
  IN  V

FirstHalves(V, r) ==
  [j \in 1 .. r * Half |-> V[((j - 1) \div Half) + 1][((j - 1) % Half) + 1]]

(* The variable-length hash of Argon2: the first halves of r digests, and a
   last digest with what is left.                                           *)
LongHash(n, m) ==
  LET first == LengthBytes(n) \o m
      r == ((n + Half - 1) \div Half) - 2
      V == Digests(first, r)
  IN  IF n <= BLAKE2B_OUTBYTES THEN Hash(n, first)
      ELSE FirstHalves(V, r) \o Hash(n - r * Half, V[r])

(* passe_blake2b_long fills its buffer with that hash of its input, whose own
   length is part of what is hashed.                                        *)
LongIsExact == pc = "done" /\ ret = 0 => out = LongHash(outlen, in)

(* It fails for a length of zero or beyond 32 bits, and never else: no caller
   looks at its result (passe_fill_first_blocks, passe_finalize).           *)
LongSucceeds == pc = "done" => (ret = 0 <=> outlen \in 1 .. UINT32_MAX)

(* The inductive invariant of Blake2bProofs. *)
IInv ==
  /\ StreamTypeOK /\ StreamInv /\ DigestOfMessage
  /\ pc = "start" => f0 /\ msg = <<>> /\ digest = <<>>
  /\ outlen \in Nat /\ in \in Seq(Byte)

(* The one for the output.  Until it returns, a call of passe_blake2b_long
   has had no error, its state is the one that it initialised, and it has
   produced, or has still to produce, all that was asked for.               *)
LongLengths ==
  /\ TypeOK /\ LongSucceeds
  /\ pc \in {"start", "stream"} => outlen = 0 /\ out = <<>>
  /\ pc \in {"length", "input", "final"} =>
       /\ ~ f0 /\ ret = 0 /\ out = <<>>
       /\ outlen \in 1 .. UINT32_MAX /\ digest_length = FirstLength(outlen)
  /\ pc = "expand" =>
       /\ ret = 0 /\ outlen \in 1 .. UINT32_MAX
       /\ toproduce >= 1 /\ Len(out) + toproduce = outlen
  /\ pc \in {"expand", "done"} => inlen = 0

(* What it has produced: after k digests their first halves, and out_buffer is
   the last of them.                                                        *)
LongContents ==
  LET first == LengthBytes(outlen) \o in
      k == (outlen - toproduce) \div Half
  IN  /\ pc = "length" => msg = <<>>
      /\ pc = "input"  => msg = LengthBytes(outlen)
      /\ pc = "final"  => msg = first
      /\ pc = "expand" =>
           /\ k >= 1 /\ toproduce = outlen - k * Half
           /\ toproduce > Half /\ outlen > BLAKE2B_OUTBYTES
           /\ out_buffer = Digests(first, k)[k]
           /\ out = FirstHalves(Digests(first, k), k)

LongInv == LongLengths /\ LongContents

=============================================================================
