------------------------------ MODULE Blake2b ------------------------------
(***************************************************************************)
(* The streaming interface of BLAKE2b (argon2/blake2b.c): init, then any     *)
(* number of updates, then final.  A blake2b_state is the variables h .. to  *)
(* digest_length.  The compression function is not interpreted: h is what    *)
(* it has been given, in order, so two states are equal only if they have    *)
(* compressed the same blocks with the same counters and flags.              *)
(*                                                                           *)
(* msg is the concatenation of what the updates have accepted.  While an     *)
(* update runs, its pointer pin is at the last inlen bytes of msg.           *)
(***************************************************************************)
EXTENDS Integers, Sequences

CONSTANTS BLAKE2B_BLOCKBYTES, BLAKE2B_OUTBYTES,
          Word,        \* 2^64: the range of a uint64_t
          Byte, Zero,  \* the bytes, and the zero byte
          MaxMessage   \* bound on the length of msg

ASSUME Blake2bAssumption ==
  /\ BLAKE2B_BLOCKBYTES \in Nat \ {0}
  /\ BLAKE2B_OUTBYTES \in Nat \ {0}
  /\ Word \in Nat /\ BLAKE2B_BLOCKBYTES < Word
  /\ Zero \in Byte
  /\ MaxMessage \in Nat /\ MaxMessage < Word * Word

VARIABLES h, t0, t1, f0, buf, buflen, digest_length, msg, inlen, ret, digest

state == <<h, t0, t1, f0, buf, buflen, digest_length>>
stream == <<state, msg, inlen, ret, digest>>

Positions == 1 .. BLAKE2B_BLOCKBYTES
ZeroBlock == [j \in Positions |-> Zero]

(* A chaining value; the parameter block of an unkeyed hash is its length. *)
Chained(n, blocks) == [outlen |-> n, blocks |-> blocks]

(* The bytes of the digest that the chaining value c ends in. *)
DigestBytes(n, c) == [i \in 1 .. n |-> [of |-> c, i |-> i]]

(***************************************************************************)
(* What is hashed: the blocks of a message, the last one padded with zeros,  *)
(* each with the number of bytes up to its end, the last one flagged.        *)
(***************************************************************************)

BlockCount(m) ==
  IF m = <<>> THEN 1 ELSE (Len(m) - 1) \div BLAKE2B_BLOCKBYTES + 1

BlockOf(m, i) ==
  [j \in Positions |->
     LET k == (i - 1) * BLAKE2B_BLOCKBYTES + j IN IF k <= Len(m) THEN m[k] ELSE Zero]

Compression(block, bytes, last) ==
  [block |-> block, t0 |-> bytes % Word, t1 |-> bytes \div Word, f0 |-> last]

Compressions(m) ==
  [i \in 1 .. BlockCount(m) |->
     IF i < BlockCount(m)
     THEN Compression(BlockOf(m, i), i * BLAKE2B_BLOCKBYTES, FALSE)
     ELSE Compression(BlockOf(m, i), Len(m), TRUE)]

(* The digest of n bytes of the message m. *)
Hash(n, m) == DigestBytes(n, Chained(n, Compressions(m)))

(***************************************************************************)
(* The functions of the interface.                                           *)
(***************************************************************************)

(* Wrong on purpose: the carry into t[1] is forgotten. *)
CounterWithoutCarry(inc) == [t0 |-> (t0 + inc) % Word, t1 |-> t1]

(* blake2b_increment_counter: the new t[0] and t[1]. *)
Counter(inc) ==
  LET lo == (t0 + inc) % Word
  IN  [t0 |-> lo, t1 |-> (t1 + (IF lo < inc THEN 1 ELSE 0)) % Word]

(* h after blake2b_increment_counter and blake2b_compress. *)
Compressed(block, inc, last) ==
  LET c == Counter(inc)
  IN  [h EXCEPT !.blocks = Append(@, [block |-> block, t0 |-> c.t0, t1 |-> c.t1, f0 |-> last])]

CompressFull(block) ==
  /\ h' = Compressed(block, BLAKE2B_BLOCKBYTES, FALSE)
  /\ t0' = Counter(BLAKE2B_BLOCKBYTES).t0
  /\ t1' = Counter(BLAKE2B_BLOCKBYTES).t1

(* buf with n bytes of the message m, from its byte p + 1 on, copied to
   position left.                                                           *)
Copied(left, n, m, p) ==
  [j \in Positions |-> IF left < j /\ j <= left + n THEN m[p + (j - left)] ELSE buf[j]]

(* A digest of no bytes, or of too many, invalidates the state. *)
BadLength(n) == n = 0 \/ n > BLAKE2B_OUTBYTES

InitCall(n) ==
  /\ h' = Chained(IF BadLength(n) THEN 0 ELSE n, <<>>)
  /\ t0' = 0 /\ t1' = 0
  /\ f0' = BadLength(n)
  /\ buf' = ZeroBlock /\ buflen' = 0
  /\ digest_length' = IF BadLength(n) THEN 0 ELSE n
  /\ ret' = IF BadLength(n) THEN -1 ELSE 0
  /\ UNCHANGED <<msg, inlen, digest>>

(* An empty update succeeds whatever the state is. *)
UpdateNothing(data) ==
  /\ data = <<>>
  /\ ret' = 0
  /\ UNCHANGED <<state, msg, inlen, digest>>

UpdateRefused(data) ==
  /\ data # <<>> /\ f0
  /\ ret' = -1
  /\ UNCHANGED <<state, msg, inlen, digest>>

(* Wrong on purpose: the buffer is compressed as soon as it is full. *)
FitsBelow(n) == buflen + n < BLAKE2B_BLOCKBYTES

(* Wrong on purpose: the new bytes alone are compared with the buffer. *)
FitsEmpty(n) == n <= BLAKE2B_BLOCKBYTES

Fits(n) == buflen + n <= BLAKE2B_BLOCKBYTES

UpdateBuffers(data) ==
  /\ data # <<>> /\ ~ f0 /\ Fits(Len(data))
  /\ buf' = Copied(buflen, Len(data), data, 0)
  /\ buflen' = buflen + Len(data)
  /\ msg' = msg \o data
  /\ ret' = 0
  /\ UNCHANGED <<h, t0, t1, f0, digest_length, inlen, digest>>

(* The data overflow the buffer: it is filled up and compressed. *)
UpdateCompletes(data) ==
  LET fill == BLAKE2B_BLOCKBYTES - buflen
      full == Copied(buflen, fill, data, 0)
  IN  /\ data # <<>> /\ ~ f0 /\ ~ Fits(Len(data))
      /\ buf' = full
      /\ CompressFull(full)
      /\ buflen' = 0
      /\ inlen' = Len(data) - fill
      /\ msg' = msg \o data
      /\ UNCHANGED <<f0, digest_length, ret, digest>>

UpdateCall(data) ==
  /\ inlen = 0
  /\ Len(msg) + Len(data) <= MaxMessage
  /\ \/ UpdateNothing(data)
     \/ UpdateRefused(data)
     \/ UpdateBuffers(data)
     \/ UpdateCompletes(data)

(* The loop of an update: a block is compressed where it is ... *)
UpdateLoop ==
  /\ inlen > BLAKE2B_BLOCKBYTES
  /\ CompressFull([j \in Positions |-> msg[Len(msg) - inlen + j]])
  /\ inlen' = inlen - BLAKE2B_BLOCKBYTES
  /\ UNCHANGED <<f0, buf, buflen, digest_length, msg, ret, digest>>

(* ... and the last 1 .. BLAKE2B_BLOCKBYTES bytes are kept for later. *)
UpdateCopy ==
  /\ inlen \in Positions
  /\ buf' = Copied(buflen, inlen, msg, Len(msg) - inlen)
  /\ buflen' = buflen + inlen
  /\ inlen' = 0
  /\ ret' = 0
  /\ UNCHANGED <<h, t0, t1, f0, digest_length, msg, digest>>

Padded == [j \in Positions |-> IF j <= buflen THEN buf[j] ELSE Zero]

(* A final call with room for n bytes. *)
FinalRefused(n) ==
  /\ n < digest_length \/ f0
  /\ ret' = -1
  /\ UNCHANGED <<state, msg, inlen, digest>>

(* Wrong on purpose: the bytes in the buffer are not counted. *)
FinishUncounted(n) ==
  /\ n >= digest_length /\ ~ f0
  /\ digest' = DigestBytes(digest_length, Compressed(Padded, 0, TRUE))
  /\ h' = Chained(0, <<>>) /\ buf' = ZeroBlock /\ f0' = TRUE
  /\ ret' = 0
  /\ UNCHANGED <<t0, t1, buflen, digest_length, msg, inlen>>

Finish(n) ==
  /\ n >= digest_length /\ ~ f0
  /\ digest' = DigestBytes(digest_length, Compressed(Padded, buflen, TRUE))
  /\ t0' = Counter(buflen).t0 /\ t1' = Counter(buflen).t1
  /\ h' = Chained(0, <<>>) /\ buf' = ZeroBlock /\ f0' = TRUE
  /\ ret' = 0
  /\ UNCHANGED <<buflen, digest_length, msg, inlen>>

FinalCall(n) == inlen = 0 /\ (FinalRefused(n) \/ Finish(n))

(***************************************************************************)
(* Properties.                                                               *)
(***************************************************************************)

CompressionType ==
  [block : [Positions -> Byte], t0 : 0 .. Word - 1, t1 : 0 .. Word - 1, f0 : BOOLEAN]

StreamTypeOK ==
  /\ h \in [outlen : 0 .. BLAKE2B_OUTBYTES, blocks : Seq(CompressionType)]
  /\ t0 \in 0 .. Word - 1 /\ t1 \in 0 .. Word - 1
  /\ f0 \in BOOLEAN
  /\ buf \in [Positions -> Byte]
  /\ buflen \in 0 .. BLAKE2B_BLOCKBYTES
  /\ digest_length \in 0 .. BLAKE2B_OUTBYTES
  /\ msg \in Seq(Byte) /\ Len(msg) <= MaxMessage
  /\ inlen \in 0 .. MaxMessage
  /\ ret \in {0, -1}

(* However the message was cut into updates, final gives the digest of their
   concatenation (passe_blake2b_update, passe_blake2b_final): no byte is lost,
   repeated or reordered at the edge of the buffer, the last block alone is
   flagged, and the counters are exact.                                     *)
DigestOfMessage == digest # <<>> => digest = Hash(digest_length, msg)

Messages == UNION {[1 .. n -> Byte] : n \in 0 .. MaxMessage}

(* No other message has this digest: the counter tells padding from zeros
   (passe_blake2b_final).                                                   *)
DigestIdentifiesMessage ==
  digest # <<>> => \A m \in Messages : digest = Hash(digest_length, m) => m = msg

(***************************************************************************)
(* The inductive invariant: what has been compressed are the blocks of msg   *)
(* but the last, which is in the buffer or still in the caller's memory.     *)
(***************************************************************************)

Done == Len(h.blocks) * BLAKE2B_BLOCKBYTES

StreamInv ==
  /\ f0 => inlen = 0
  /\ ~ f0 =>
      /\ digest_length \in 1 .. BLAKE2B_OUTBYTES
      /\ h.outlen = digest_length
      /\ digest = <<>>
      /\ t0 + Word * t1 = Done
      /\ Done + buflen + inlen = Len(msg)
      /\ inlen > 0 => buflen = 0
      /\ h.blocks # <<>> => buflen + inlen > 0
      /\ \A j \in 1 .. buflen : buf[j] = msg[Done + j]
      /\ \A i \in 1 .. Len(h.blocks) :
            h.blocks[i] = Compression(BlockOf(msg, i), i * BLAKE2B_BLOCKBYTES, FALSE)

=============================================================================
