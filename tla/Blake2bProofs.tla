--------------------------- MODULE Blake2bProofs ---------------------------
(***************************************************************************)
(* The digest does not depend on how a message is cut into updates, it       *)
(* belongs to one message, and passe_blake2b_long computes the hash that it  *)
(* should and never fails: for any block, digest and word size, and messages *)
(* below Word * Word bytes.                                                  *)
(***************************************************************************)
EXTENDS Blake2bLong, SequenceTheorems, Recursion

B == BLAKE2B_BLOCKBYTES

USE DEF B

LEMMA Sizes ==
  /\ B \in Nat /\ B >= 1 /\ BLAKE2B_OUTBYTES \in Nat /\ BLAKE2B_OUTBYTES >= 1
  /\ Word \in Nat /\ Word >= 1 /\ B < Word
  /\ MaxMessage \in Nat /\ MaxMessage < Word * Word
  /\ Zero \in Byte
  /\ Positions = 1 .. B
BY Blake2bAssumption, SMT DEF Positions

LEMMA BlockSize == B \in Nat /\ B >= 1 /\ Positions = 1 .. B
BY Sizes

LEMMA Monotone ==
  ASSUME NEW a \in Nat, NEW b \in Nat, NEW c \in Nat, a <= b
  PROVE  a * c <= b * c
<1>1. (b - a) * c >= 0
  <2> DEFINE d == b - a
  <2>1. d \in Nat
    BY SMT
  <2> HIDE DEF d
  <2>2. d * c >= 0
    BY <2>1, SMT
  <2> QED BY <2>2 DEF d
<1>2. b * c = a * c + (b - a) * c
  BY SMT
<1>3. a * c \in Nat /\ (b - a) * c \in Int /\ b * c \in Nat
  BY SMT
<1> QED BY <1>1, <1>2, <1>3, SMT

LEMMA DivMod ==
  ASSUME NEW w \in Nat, w >= 1, NEW a \in 0 .. w - 1, NEW b \in Nat
  PROVE  /\ (a + w * b) % w = a
         /\ (a + w * b) \div w = b
<1> DEFINE x == a + w * b
           q == x \div w
           r == x % w
<1>1. x \in Nat
  BY SMT
<1>2. q \in Int /\ r \in 0 .. w - 1 /\ x = w * q + r
  <2> HIDE DEF x
  <2> QED BY <1>1, SMT
<1>3. w * (q - b) = a - r
  <2> HIDE DEF q, r
  <2> QED BY <1>2, SMT
<1>4. q - b \in Int /\ a - r < w /\ a - r > -w
  <2> HIDE DEF q, r
  <2> QED BY <1>2, SMT
<1>5. q = b
  <2> DEFINE d == q - b
  <2>1. d >= 1 => w * d >= w
    <3> HIDE DEF d
    <3> QED BY <1>4, SMT DEF d
  <2>2. d <= -1 => w * d <= -w
    <3> HIDE DEF d
    <3> QED BY <1>4, SMT DEF d
  <2> HIDE DEF q, r
  <2> QED BY <1>2, <1>3, <1>4, <2>1, <2>2, SMT DEF d
<1> HIDE DEF q, r
<1>6. r = a
  BY <1>2, <1>3, <1>5, SMT
<1> QED BY <1>5, <1>6 DEF q, r

(* blake2b_increment_counter counts in two words. *)
LEMMA CounterExact ==
  ASSUME NEW inc \in Nat, inc < Word, t0 \in 0 .. Word - 1, t1 \in 0 .. Word - 1,
         NEW n \in Nat, t0 + Word * t1 = n, n + inc < Word * Word
  PROVE  /\ Counter(inc).t0 = (n + inc) % Word
         /\ Counter(inc).t1 = (n + inc) \div Word
         /\ Counter(inc).t0 + Word * Counter(inc).t1 = n + inc
         /\ Counter(inc).t0 \in 0 .. Word - 1
         /\ Counter(inc).t1 \in 0 .. Word - 1
<1> DEFINE lo == (t0 + inc) % Word
           hi == (t1 + (IF lo < inc THEN 1 ELSE 0)) % Word
<1>1. CASE t0 + inc < Word
  <2>1. lo = t0 + inc
    BY <1>1, Sizes, DivMod, SMT
  <2>2. hi = t1
    <3> HIDE DEF lo
    <3> QED BY <2>1, Sizes, SMT
  <2>3. n + inc = lo + Word * hi
    <3> HIDE DEF lo, hi
    <3> QED BY <2>1, <2>2, Sizes, SMT
  <2>4. lo \in 0 .. Word - 1 /\ hi \in 0 .. Word - 1
    <3> HIDE DEF lo, hi
    <3> QED BY <1>1, <2>1, <2>2, Sizes, SMT
  <2> HIDE DEF lo, hi
  <2>5. (n + inc) % Word = lo /\ (n + inc) \div Word = hi
    BY <2>3, <2>4, Sizes, DivMod
  <2> QED BY <2>3, <2>4, <2>5 DEF Counter, lo, hi
<1>2. CASE t0 + inc >= Word
  <2>1. lo = t0 + inc - Word
    <3> DEFINE a == t0 + inc - Word
    <3>1. a \in 0 .. Word - 1 /\ t0 + inc = a + Word * 1
      BY <1>2, Sizes, SMT
    <3> HIDE DEF a
    <3>2. (a + Word * 1) % Word = a
      BY <3>1, Sizes, DivMod
    <3> QED BY <3>1, <3>2 DEF a
  <2>2. lo < inc
    <3> HIDE DEF lo
    <3> QED BY <2>1, Sizes, SMT
  <2>3. t1 + 1 < Word
    <3>1. t1 + 1 >= Word => Word * (t1 + 1) >= Word * Word
      BY Sizes, SMT
    <3>2. Word * (t1 + 1) <= n + inc
      BY <1>2, Sizes, SMT
    <3> QED BY <3>1, <3>2, Sizes, SMT
  <2>4. hi = t1 + 1
    <3> HIDE DEF lo
    <3> QED BY <2>2, <2>3, Sizes, SMT
  <2>5. n + inc = lo + Word * hi
    <3> HIDE DEF lo, hi
    <3> QED BY <2>1, <2>4, Sizes, SMT
  <2>6. lo \in 0 .. Word - 1 /\ hi \in 0 .. Word - 1
    <3> HIDE DEF lo, hi
    <3> QED BY <1>2, <2>1, <2>3, <2>4, Sizes, SMT
  <2> HIDE DEF lo, hi
  <2>7. (n + inc) % Word = lo /\ (n + inc) \div Word = hi
    BY <2>5, <2>6, Sizes, DivMod
  <2> QED BY <2>5, <2>6, <2>7 DEF Counter, lo, hi
<1> QED BY <1>1, <1>2, Sizes, SMT

(* The blocks of a message do not change when it grows. *)
LEMMA BlockOfPrefix ==
  ASSUME NEW m \in Seq(Byte), NEW d \in Seq(Byte), NEW i \in Nat, i >= 1,
         i * B <= Len(m)
  PROVE  BlockOf(m \o d, i) = BlockOf(m, i)
<1> SUFFICES ASSUME NEW j \in 1 .. B
             PROVE  LET k == (i - 1) * B + j
                    IN  k \in 1 .. Len(m) /\ k <= Len(m \o d) /\ (m \o d)[k] = m[k]
  BY Sizes DEF BlockOf
<1> DEFINE k == (i - 1) * B + j
<1>1. k <= i * B
  BY Sizes, SMT
<1>2. (i - 1) * B >= 0
  BY Sizes, SMT
<1>3. k \in 1 .. Len(m)
  BY <1>1, <1>2, Sizes, SMT
<1> HIDE DEF k
<1>4. Len(m) \in Nat /\ Len(d) \in Nat
  BY LenProperties
<1> QED BY <1>3, <1>4, ConcatProperties, SMT DEF k

(***************************************************************************)
(* One step of compression.                                                  *)
(***************************************************************************)

LEMMA CompressStep ==
  ASSUME StreamTypeOK, t0 + Word * t1 = Done,
         NEW block \in [Positions -> Byte], CompressFull(block),
         Done + B <= MaxMessage
  PROVE  /\ h' \in [outlen : 0 .. BLAKE2B_OUTBYTES, blocks : Seq(CompressionType)]
         /\ h'.outlen = h.outlen
         /\ Len(h'.blocks) = Len(h.blocks) + 1
         /\ \A i \in 1 .. Len(h.blocks) : h'.blocks[i] = h.blocks[i]
         /\ h'.blocks[Len(h.blocks) + 1] =
               Compression(block, (Len(h.blocks) + 1) * B, FALSE)
         /\ t0' \in 0 .. Word - 1 /\ t1' \in 0 .. Word - 1
         /\ t0' + Word * t1' = Done'
         /\ Done' = Done + B
<1> DEFINE k == Len(h.blocks)
           c == Counter(B)
           rec == [block |-> block, t0 |-> c.t0, t1 |-> c.t1, f0 |-> FALSE]
<1>1. h.blocks \in Seq(CompressionType) /\ k \in Nat /\ t0 \in 0 .. Word - 1 /\ t1 \in 0 .. Word - 1
  BY LenProperties DEF StreamTypeOK
<1>2. Done = k * B /\ Done \in Nat
  BY <1>1, Sizes, SMT DEF Done
<1>3. Done + B < Word * Word
  BY <1>2, Sizes, SMT
<1>4. /\ c.t0 = (Done + B) % Word /\ c.t1 = (Done + B) \div Word
      /\ c.t0 + Word * c.t1 = Done + B
      /\ c.t0 \in 0 .. Word - 1 /\ c.t1 \in 0 .. Word - 1
  BY <1>1, <1>2, <1>3, Sizes, CounterExact
<1>5. (k + 1) * B = Done + B
  BY <1>1, <1>2, Sizes, SMT
<1>6. h' = [h EXCEPT !.blocks = Append(@, rec)] /\ t0' = c.t0 /\ t1' = c.t1
  BY Sizes DEF CompressFull, Compressed
<1> HIDE DEF c
<1>7. rec \in CompressionType
  BY <1>4 DEF CompressionType
<1>8. rec = Compression(block, (k + 1) * B, FALSE)
  BY <1>4, <1>5 DEF Compression
<1> HIDE DEF rec
<1>9. /\ h'.outlen = h.outlen /\ h'.blocks = Append(h.blocks, rec)
      /\ h' \in [outlen : 0 .. BLAKE2B_OUTBYTES, blocks : Seq(CompressionType)]
  BY <1>1, <1>6, <1>7, AppendProperties DEF StreamTypeOK
<1>10. /\ Len(h'.blocks) = k + 1 /\ h'.blocks[k + 1] = rec
       /\ \A i \in 1 .. k : h'.blocks[i] = h.blocks[i]
  BY <1>1, <1>7, <1>9, AppendProperties
<1>11. Done' = (k + 1) * B
  BY <1>10, Sizes DEF Done
<1> QED BY <1>4, <1>5, <1>6, <1>8, <1>9, <1>10, <1>11

(***************************************************************************)
(* The calls preserve the invariant.                                         *)
(***************************************************************************)

Inv == StreamTypeOK /\ StreamInv /\ DigestOfMessage

LEMMA InitStep ==
  ASSUME NEW n \in Nat, Inv, msg = <<>>, inlen = 0, digest = <<>>, InitCall(n)
  PROVE  Inv'
<1>1. n \in 1 .. BLAKE2B_OUTBYTES \/ BadLength(n)
  BY Sizes, SMT DEF BadLength
<1>2. h' \in [outlen : 0 .. BLAKE2B_OUTBYTES, blocks : Seq(CompressionType)]
      /\ h'.blocks = <<>> /\ Len(h'.blocks) = 0 /\ Len(msg) = 0
      /\ (~ BadLength(n) => h'.outlen = n)
  BY <1>1, Sizes, EmptySeq, SMT DEF InitCall, Chained
<1>3. StreamTypeOK'
  <2>1. buf' \in [Positions -> Byte]
    BY Sizes DEF InitCall, ZeroBlock
  <2>2. t0' \in 0 .. Word - 1 /\ t1' \in 0 .. Word - 1 /\ ret' \in {0, -1}
        /\ f0' \in BOOLEAN /\ buflen' \in 0 .. B
        /\ digest_length' \in 0 .. BLAKE2B_OUTBYTES
    BY <1>1, Sizes, SMT DEF InitCall, BadLength
  <2> QED BY <1>2, <2>1, <2>2 DEF Inv, StreamTypeOK, InitCall
<1>4. StreamInv'
  <2>1. inlen' = 0 /\ (f0' <=> BadLength(n))
    BY DEF InitCall
  <2>2. ASSUME ~ BadLength(n)
        PROVE  /\ digest_length' \in 1 .. BLAKE2B_OUTBYTES /\ h'.outlen = digest_length'
               /\ digest' = <<>> /\ msg' = <<>> /\ t0' = 0 /\ t1' = 0 /\ buflen' = 0
    BY <1>1, <1>2, <2>2 DEF InitCall
  <2>3. Done' = 0
    BY <1>2, Sizes, SMT DEF Done
  <2>4. 0 + Word * 0 = 0 /\ 0 + 0 + 0 = 0 /\ ~ (0 > 0) /\ \A i \in 1 .. 0 : FALSE
    BY Sizes, SMT
  <2> QED BY <1>2, <2>1, <2>2, <2>3, <2>4 DEF StreamInv
<1>5. DigestOfMessage'
  BY DEF InitCall, DigestOfMessage
<1> QED BY <1>3, <1>4, <1>5 DEF Inv

LEMMA CopiedType ==
  ASSUME buf \in [Positions -> Byte], buflen \in 0 .. B, NEW n \in 0 .. B,
         NEW m \in Seq(Byte), NEW p \in Nat, p + n <= Len(m)
  PROVE  Copied(buflen, n, m, p) \in [Positions -> Byte]
<1> SUFFICES ASSUME NEW j \in 1 .. B, buflen < j, j <= buflen + n
             PROVE  m[p + (j - buflen)] \in Byte
  BY Sizes DEF Copied
<1>1. p + (j - buflen) \in 1 .. Len(m)
  BY Sizes, LenProperties, SMT
<1> QED BY <1>1, ElementOfSeq

LEMMA RefusedStep ==
  ASSUME Inv, UNCHANGED <<state, msg, inlen, digest>>, ret' \in {0, -1}
  PROVE  Inv'
BY DEF Inv, StreamTypeOK, StreamInv, DigestOfMessage, Done, state

LEMMA BuffersStep ==
  ASSUME NEW data \in Seq(Byte), Inv, inlen = 0, Len(msg) + Len(data) <= MaxMessage,
         UpdateBuffers(data)
  PROVE  Inv'
<1> DEFINE n == Len(data)
<1>1. /\ msg \in Seq(Byte) /\ Len(msg) \in Nat /\ n \in Nat
      /\ h.blocks \in Seq(CompressionType) /\ Len(h.blocks) \in Nat
      /\ buflen \in 0 .. B /\ buf \in [Positions -> Byte]
  BY Sizes, LenProperties DEF Inv, StreamTypeOK
<1>2. /\ ~ f0 /\ n # 0 /\ buflen + n <= B
      /\ buf' = Copied(buflen, n, data, 0) /\ buflen' = buflen + n
      /\ msg' = msg \o data /\ ret' = 0
      /\ UNCHANGED <<h, t0, t1, f0, digest_length, inlen, digest>>
  BY Sizes, EmptySeq DEF UpdateBuffers, Fits
<1>3. /\ msg' \in Seq(Byte) /\ Len(msg') = Len(msg) + n
      /\ \A i \in 1 .. Len(msg) : msg'[i] = msg[i]
      /\ \A i \in 1 .. n : msg'[Len(msg) + i] = data[i]
  <2>1. \A i \in 1 .. Len(msg) + n :
          (msg \o data)[i] = IF i <= Len(msg) THEN msg[i] ELSE data[i - Len(msg)]
    BY <1>1, ConcatProperties
  <2> HIDE DEF n
  <2>2. \A i \in 1 .. n : Len(msg) + i \in 1 .. Len(msg) + n /\ ~ (Len(msg) + i <= Len(msg))
                         /\ (Len(msg) + i) - Len(msg) = i
    BY <1>1, SMT
  <2>3. \A i \in 1 .. Len(msg) : i \in 1 .. Len(msg) + n /\ i <= Len(msg)
    BY <1>1, SMT
  <2> QED BY <1>1, <1>2, <2>1, <2>2, <2>3, ConcatProperties DEF n
<1>4. /\ digest_length \in 1 .. BLAKE2B_OUTBYTES /\ h.outlen = digest_length
      /\ digest = <<>> /\ t0 + Word * t1 = Done
      /\ Done + buflen = Len(msg) /\ Done \in Nat
      /\ \A j \in 1 .. buflen : buf[j] = msg[Done + j]
      /\ \A i \in 1 .. Len(h.blocks) :
            h.blocks[i] = Compression(BlockOf(msg, i), i * B, FALSE)
  <2>1. Done \in Nat
    BY <1>1, Sizes, SMT DEF Done
  <2>2. Done + buflen + 0 = Len(msg)
    BY <1>2 DEF Inv, StreamInv
  <2>3. Done + buflen = Len(msg)
    BY <1>1, <2>1, <2>2, SMT
  <2> QED BY <1>2, <2>1, <2>3 DEF Inv, StreamInv
<1>5. Copied(buflen, n, data, 0) \in [Positions -> Byte]
  BY <1>1, <1>2, Sizes, CopiedType, SMT
<1>6. StreamTypeOK'
  <2> HIDE DEF n
  <2> QED BY <1>1, <1>2, <1>3, <1>5, Sizes, SMT DEF Inv, StreamTypeOK, n
<1>7. \A j \in 1 .. buflen' : buf'[j] = msg'[Done + j]
  <2> SUFFICES ASSUME NEW j \in 1 .. buflen + n PROVE buf'[j] = msg'[Done + j]
    BY <1>2
  <2>1. j \in Positions
    BY <1>1, <1>2, Sizes, SMT
  <2>2. buf'[j] = IF buflen < j THEN data[0 + (j - buflen)] ELSE buf[j]
    BY <1>2, <2>1, SMT DEF Copied
  <2>3. CASE buflen < j
    <3>1. j - buflen \in 1 .. n /\ Done + j = Len(msg) + (j - buflen) /\ 0 + (j - buflen) = j - buflen
      <4> HIDE DEF n
      <4>1. n \in Nat /\ buflen \in Nat /\ Len(msg) \in Nat
        BY <1>1, BlockSize, SMT
      <4>2. Done + buflen = Len(msg) /\ Done \in Nat
        BY <1>4
      <4> QED BY <4>1, <4>2, <2>3, SMT
    <3> QED BY <1>3, <2>2, <2>3, <3>1
  <2>4. CASE ~ (buflen < j)
    <3>1. j \in 1 .. buflen /\ Done + j \in 1 .. Len(msg)
      BY <1>1, <1>4, <2>4, SMT
    <3> QED BY <1>3, <1>4, <2>2, <2>4, <3>1
  <2> QED BY <2>3, <2>4
<1>8. \A i \in 1 .. Len(h.blocks) : BlockOf(msg', i) = BlockOf(msg, i)
  <2> SUFFICES ASSUME NEW i \in 1 .. Len(h.blocks) PROVE i * B <= Len(msg)
    BY <1>1, <1>2, BlockOfPrefix
  <2>1. i * B <= Len(h.blocks) * B
    <3>1. i \in Nat /\ i <= Len(h.blocks)
      BY <1>1, SMT
    <3> QED BY <1>1, <3>1, Sizes, Monotone
  <2> DEFINE k == Len(h.blocks) * B
             ib == i * B
  <2>2. k \in Nat /\ ib \in Nat /\ Done = k
    BY <1>1, Sizes, SMT DEF Done
  <2>3. ib <= k
    BY <2>1
  <2> HIDE DEF k, ib
  <2>4. ib <= Len(msg)
    BY <1>1, <1>4, <2>2, <2>3, SMT
  <2> QED BY <2>4 DEF ib
<1>9. Done' = Done
  BY <1>2 DEF Done
<1>10. StreamInv'
  <2>1. inlen = 0 /\ Done + (buflen + n) + 0 = Len(msg) + n /\ buflen + n > 0
    <3>1. n \in Nat /\ n # 0 /\ buflen \in Nat /\ Len(msg) \in Nat /\ Done \in Nat
      BY <1>1, <1>2, <1>4, BlockSize, SMT
    <3>2. Done + buflen = Len(msg)
      BY <1>4
    <3> HIDE DEF n
    <3> QED BY <3>1, <3>2, SMT
  <2>2. \A i \in 1 .. Len(h.blocks) :
          h.blocks[i] = Compression(BlockOf(msg', i), i * B, FALSE)
    BY <1>4, <1>8
  <2> HIDE DEF n
  <2>3. Done + (buflen + n) + inlen = Len(msg') /\ inlen = 0 /\ buflen + n + inlen > 0
    BY <1>1, <1>3, <1>4, <2>1, Sizes, SMT
  <2>4. /\ ~ f0' /\ h' = h /\ inlen' = 0 /\ inlen = 0 /\ Done' = Done
        /\ UNCHANGED <<t0, t1, digest_length, digest>> /\ buflen' = buflen + n
    BY <1>2, <1>9, <2>3
  <2>5. /\ digest_length' \in 1 .. BLAKE2B_OUTBYTES /\ h'.outlen = digest_length'
        /\ digest' = <<>> /\ t0' + Word * t1' = Done'
        /\ Done' + buflen' + inlen' = Len(msg')
        /\ inlen' = 0
        /\ buflen' + inlen' > 0
    BY <1>4, <2>3, <2>4
  <2>6. \A j \in 1 .. buflen' : buf'[j] = msg'[Done' + j]
    BY <1>7, <2>4
  <2>7. \A i \in 1 .. Len(h'.blocks) :
          h'.blocks[i] = Compression(BlockOf(msg', i), i * B, FALSE)
    BY <2>2, <2>4
  <2>8. ~ (inlen' > 0)
    BY <2>5, SMT
  <2> QED BY <2>5, <2>6, <2>7, <2>8 DEF StreamInv
<1>11. DigestOfMessage'
  BY <1>2, <1>4 DEF DigestOfMessage
<1> QED BY <1>6, <1>10, <1>11 DEF Inv
(* The bytes of a message that grew. *)
LEMMA Grown ==
  ASSUME NEW m \in Seq(Byte), NEW d \in Seq(Byte)
  PROVE  /\ m \o d \in Seq(Byte) /\ Len(m \o d) = Len(m) + Len(d)
         /\ Len(m) \in Nat /\ Len(d) \in Nat
         /\ \A i \in 1 .. Len(m) : (m \o d)[i] = m[i]
         /\ \A i \in 1 .. Len(d) : (m \o d)[Len(m) + i] = d[i]
<1> DEFINE a == Len(m)
           b == Len(d)
<1>1. /\ m \o d \in Seq(Byte) /\ Len(m \o d) = a + b /\ a \in Nat /\ b \in Nat
      /\ \A i \in 1 .. a + b : (m \o d)[i] = IF i <= a THEN m[i] ELSE d[i - a]
  BY ConcatProperties, LenProperties
<1> HIDE DEF a, b
<1>2. \A i \in 1 .. a : i \in 1 .. a + b /\ i <= a
  BY <1>1, SMT
<1>3. \A i \in 1 .. b : a + i \in 1 .. a + b /\ ~ (a + i <= a) /\ (a + i) - a = i
  BY <1>1, SMT
<1> QED BY <1>1, <1>2, <1>3 DEF a, b

LEMMA NothingBuffered ==
  ASSUME NEW a \in Nat, NEW b \in Nat, NEW c \in Nat, c > 0
  PROVE  a + b + 0 + c = a + b + c /\ 0 + c > 0
BY SMT

(* A block that is not the last has been compressed, more bytes are to come. *)
LEMMA FullBlockStep ==
  ASSUME Inv, ~ f0,
         NEW block \in [Positions -> Byte], CompressFull(block),
         block = BlockOf(msg', Len(h.blocks) + 1),
         \A i \in 1 .. Len(h.blocks) : BlockOf(msg', i) = BlockOf(msg, i),
         msg' \in Seq(Byte), Len(msg') <= MaxMessage,
         buf' \in [Positions -> Byte], buflen' = 0,
         inlen' \in 1 .. MaxMessage, Done + B + inlen' = Len(msg'),
         UNCHANGED <<f0, digest_length, ret, digest>>
  PROVE  Inv'
<1> DEFINE k == Len(h.blocks)
<1>1. /\ digest_length \in 1 .. BLAKE2B_OUTBYTES /\ h.outlen = digest_length
      /\ digest = <<>> /\ t0 + Word * t1 = Done
      /\ \A i \in 1 .. k : h.blocks[i] = Compression(BlockOf(msg, i), i * B, FALSE)
  BY DEF Inv, StreamInv
<1>2. k \in Nat /\ Done \in Nat
  <2>1. k \in Nat
    BY LenProperties DEF Inv, StreamTypeOK
  <2> QED BY <2>1, BlockSize, SMT DEF Done
<1>3. MaxMessage \in Nat
  BY Sizes
<1>4. Done + B <= MaxMessage
  BY <1>2, <1>3, BlockSize, SMT
<1>5. /\ h' \in [outlen : 0 .. BLAKE2B_OUTBYTES, blocks : Seq(CompressionType)]
      /\ h'.outlen = h.outlen /\ Len(h'.blocks) = k + 1
      /\ \A i \in 1 .. k : h'.blocks[i] = h.blocks[i]
      /\ h'.blocks[k + 1] = Compression(block, (k + 1) * B, FALSE)
      /\ t0' \in 0 .. Word - 1 /\ t1' \in 0 .. Word - 1
      /\ t0' + Word * t1' = Done' /\ Done' = Done + B
  BY <1>1, <1>4, CompressStep DEF Inv
<1>6. \A i \in 1 .. k + 1 : h'.blocks[i] = Compression(BlockOf(msg', i), i * B, FALSE)
  <2>1. \A i \in 1 .. k + 1 : i \in 1 .. k \/ i = k + 1
    <3> HIDE DEF k
    <3> QED BY <1>2, SMT
  <2> HIDE DEF k
  <2> QED BY <1>1, <1>5, <2>1 DEF k
<1>7. StreamTypeOK'
  <2>1. 0 \in 0 .. BLAKE2B_BLOCKBYTES /\ inlen' \in 0 .. MaxMessage
    BY <1>3, BlockSize, SMT
  <2> QED BY <1>5, <2>1 DEF Inv, StreamTypeOK
<1>8. StreamInv'
  <2>1. /\ ~ f0' /\ digest_length' \in 1 .. BLAKE2B_OUTBYTES
        /\ h'.outlen = digest_length' /\ digest' = <<>>
        /\ t0' + Word * t1' = Done' /\ buflen' = 0
    BY <1>1, <1>5
  <2>2. Done' + buflen' + inlen' = Len(msg') /\ buflen' + inlen' > 0
    <3>1. Done' = Done + B /\ buflen' = 0
      BY <1>5
    <3>2. inlen' \in Nat /\ inlen' > 0
      BY <1>3, SMT
    <3>3. Done + B + 0 + inlen' = Done + B + inlen' /\ 0 + inlen' > 0
      BY <1>2, <3>2, BlockSize, NothingBuffered
    <3>4. Done' + buflen' + inlen' = Done + B + 0 + inlen' /\ buflen' + inlen' = 0 + inlen'
      BY <3>1
    <3>5. Done + B + inlen' = Len(msg')
      OBVIOUS
    <3> QED BY <3>3, <3>4, <3>5
  <2>3. \A j \in 1 .. buflen' : buf'[j] = msg'[Done' + j]
    BY <2>1, SMT
  <2>4. \A i \in 1 .. Len(h'.blocks) :
          h'.blocks[i] = Compression(BlockOf(msg', i), i * B, FALSE)
    BY <1>5, <1>6
  <2> QED BY <2>1, <2>2, <2>3, <2>4 DEF StreamInv
<1>9. DigestOfMessage'
  BY <1>1 DEF DigestOfMessage
<1> QED BY <1>7, <1>8, <1>9 DEF Inv

(* A block that has been compressed is wholly inside the message. *)
LEMMA BlocksInside ==
  ASSUME Inv, ~ f0, NEW i \in 1 .. Len(h.blocks)
  PROVE  i \in Nat /\ i >= 1 /\ i * B <= Len(msg)
<1> DEFINE k == Len(h.blocks)
<1>1. k \in Nat /\ Len(msg) \in Nat /\ buflen \in Nat /\ inlen \in Nat
  <2>1. k \in Nat /\ Len(msg) \in Nat
    BY LenProperties DEF Inv, StreamTypeOK
  <2> QED BY <2>1, BlockSize, Sizes, SMT DEF Inv, StreamTypeOK
<1>2. i \in Nat /\ i >= 1 /\ i <= k
  BY <1>1, SMT
<1>3. Done + buflen + inlen = Len(msg) /\ Done = k * B
  BY DEF Inv, StreamInv, Done
<1>4. i * B <= k * B
  BY <1>1, <1>2, BlockSize, Monotone
<1> DEFINE ib == i * B
           kb == k * B
<1>5. ib \in Nat /\ kb \in Nat
  BY <1>1, <1>2, BlockSize, SMT
<1> HIDE DEF ib, kb, k
<1>6. ib <= Len(msg)
  <2>1. ib <= kb /\ kb + buflen + inlen = Len(msg)
    BY <1>3, <1>4 DEF ib, kb
  <2> QED BY <1>1, <1>5, <2>1, SMT
<1> QED BY <1>2, <1>6 DEF ib

LEMMA CompletesStep ==
  ASSUME NEW data \in Seq(Byte), Inv, inlen = 0, Len(msg) + Len(data) <= MaxMessage,
         UpdateCompletes(data)
  PROVE  Inv'
<1> DEFINE n == Len(data)
           k == Len(h.blocks)
           fill == B - buflen
           full == Copied(buflen, fill, data, 0)
<1>1. /\ msg \in Seq(Byte) /\ Len(msg) \in Nat /\ n \in Nat /\ k \in Nat
      /\ buflen \in 0 .. B /\ buf \in [Positions -> Byte]
  BY LenProperties DEF Inv, StreamTypeOK
<1>2. /\ ~ f0 /\ ~ (buflen + n <= B)
      /\ buf' = full /\ CompressFull(full) /\ buflen' = 0
      /\ inlen' = n - fill /\ msg' = msg \o data
      /\ UNCHANGED <<f0, digest_length, ret, digest>>
  BY DEF UpdateCompletes, Fits
<1>3. Done = k * B /\ Done \in Nat /\ Done + buflen = Len(msg)
  <2>1. Done = k * B /\ Done + buflen + 0 = Len(msg)
    BY <1>2 DEF Inv, StreamInv, Done
  <2>2. Done \in Nat
    BY <1>1, <2>1, BlockSize, SMT
  <2> QED BY <1>1, <2>1, <2>2, BlockSize, SMT
<1>4. fill \in 0 .. B /\ fill < n /\ n - fill > 0 /\ buflen + fill = B
  <2> HIDE DEF n
  <2> QED BY <1>1, <1>2, BlockSize, SMT
<1>5. full \in [Positions -> Byte]
  <2>1. 0 + fill <= Len(data)
    BY <1>1, <1>4, BlockSize, SMT
  <2> HIDE DEF fill
  <2> QED BY <1>1, <1>4, <2>1, CopiedType
<1>6. /\ msg' \in Seq(Byte) /\ Len(msg') = Len(msg) + n
      /\ \A i \in 1 .. Len(msg) : msg'[i] = msg[i]
      /\ \A i \in 1 .. n : msg'[Len(msg) + i] = data[i]
  BY <1>1, <1>2, Grown
<1>7. Done + B + inlen' = Len(msg') /\ inlen' \in 1 .. MaxMessage
  <2>1. MaxMessage \in Nat /\ Len(msg) + n <= MaxMessage
    BY Sizes
  <2>2. inlen' = n - fill /\ Len(msg') = Len(msg) + n
    BY <1>2, <1>6
  <2>3. /\ n \in Nat /\ Len(msg) \in Nat /\ buflen \in 0 .. B
        /\ Done \in Nat /\ Done + buflen = Len(msg)
    BY <1>1, <1>3
  <2> HIDE DEF n, fill
  <2> QED BY <1>4, <2>1, <2>2, <2>3, BlockSize, SMT
<1>8. full = BlockOf(msg', k + 1)
  <2> SUFFICES ASSUME NEW j \in 1 .. B
               PROVE  full[j] = LET q == ((k + 1) - 1) * B + j
                                IN  IF q <= Len(msg') THEN msg'[q] ELSE Zero
    BY BlockSize DEF BlockOf, Copied
  <2>1. ((k + 1) - 1) * B + j = Done + j
    <3>1. (k + 1) - 1 = k
      BY <1>1, SMT
    <3> QED BY <1>3, <3>1
  <2>2. Done + j <= Len(msg')
    <3>1. inlen' > 0 /\ inlen' \in Nat /\ Len(msg') \in Nat
      BY <1>6, <1>7, LenProperties, Sizes, SMT
    <3> QED BY <1>3, <1>7, <3>1, BlockSize, SMT
  <2>3. full[j] = IF buflen < j THEN data[0 + (j - buflen)] ELSE buf[j]
    <3>1. j <= buflen + fill
      BY <1>4, BlockSize, SMT
    <3> HIDE DEF fill
    <3> QED BY <3>1, BlockSize DEF Copied
  <2>4. CASE buflen < j
    <3>1. /\ j - buflen \in 1 .. n /\ Done + j = Len(msg) + (j - buflen)
          /\ 0 + (j - buflen) = j - buflen
      <4>1. /\ n \in Nat /\ Len(msg) \in Nat /\ buflen \in 0 .. B
            /\ Done \in Nat /\ Done + buflen = Len(msg)
        BY <1>1, <1>3
      <4> HIDE DEF n, fill
      <4> QED BY <1>4, <2>4, <4>1, BlockSize, SMT
    <3> HIDE DEF full
    <3> QED BY <1>6, <2>1, <2>2, <2>3, <2>4, <3>1
  <2>5. CASE ~ (buflen < j)
    <3>1. j \in 1 .. buflen /\ Done + j \in 1 .. Len(msg)
      BY <1>1, <1>3, <2>5, BlockSize, SMT
    <3>2. buf[j] = msg[Done + j]
      BY <1>2, <3>1 DEF Inv, StreamInv
    <3> HIDE DEF full
    <3> QED BY <1>6, <2>1, <2>2, <2>3, <2>5, <3>1, <3>2
  <2> QED BY <2>4, <2>5
<1>9. \A i \in 1 .. k : BlockOf(msg', i) = BlockOf(msg, i)
  BY <1>1, <1>2, BlocksInside, BlockOfPrefix
<1>10. Len(msg') <= MaxMessage
  BY <1>6
<1> HIDE DEF full, fill
<1> QED BY <1>2, <1>5, <1>6, <1>7, <1>8, <1>9, <1>10, FullBlockStep

LEMMA LoopStep ==
  ASSUME Inv, UpdateLoop
  PROVE  Inv'
<1> DEFINE k == Len(h.blocks)
           block == [j \in Positions |-> msg[Len(msg) - inlen + j]]
<1>1. /\ inlen \in 0 .. MaxMessage /\ MaxMessage \in Nat
      /\ msg \in Seq(Byte) /\ Len(msg) \in Nat /\ Len(msg) <= MaxMessage /\ k \in Nat
  BY Sizes, LenProperties DEF Inv, StreamTypeOK
<1>2. /\ inlen > B /\ CompressFull(block) /\ inlen' = inlen - B
      /\ UNCHANGED <<f0, buf, buflen, digest_length, msg, ret, digest>>
  BY DEF UpdateLoop
<1>3. inlen > 0 /\ inlen # 0 /\ inlen \in Nat
  BY <1>1, <1>2, BlockSize, SMT
<1>4. ~ f0 /\ buflen = 0 /\ Done = k * B /\ Done + buflen + inlen = Len(msg)
  BY <1>3 DEF Inv, StreamInv, Done
<1>5. Done \in Nat /\ Done + inlen = Len(msg)
  <2>1. Done \in Nat
    BY <1>1, <1>4, BlockSize, SMT
  <2> QED BY <1>3, <1>4, <2>1, SMT
<1>6. Done + B + inlen' = Len(msg') /\ inlen' \in 1 .. MaxMessage
  <2>1. inlen \in Nat /\ MaxMessage \in Nat /\ inlen <= MaxMessage /\ inlen > B
    BY <1>1, <1>2, <1>3, SMT
  <2>2. inlen - B \in 1 .. MaxMessage /\ Done + B + (inlen - B) = Done + inlen
    BY <1>5, <2>1, BlockSize, SMT
  <2>3. inlen' = inlen - B /\ msg' = msg /\ Done + inlen = Len(msg)
    BY <1>2, <1>5
  <2> QED BY <2>2, <2>3
<1>7. \A j \in 1 .. B : /\ Len(msg) - inlen + j = Done + j
                       /\ Done + j \in 1 .. Len(msg)
  BY <1>1, <1>2, <1>3, <1>5, BlockSize, SMT
<1>8. block \in [Positions -> Byte]
  BY <1>1, <1>7, BlockSize, ElementOfSeq
<1>9. block = BlockOf(msg', k + 1)
  <2>1. \A j \in 1 .. B : ((k + 1) - 1) * B + j = Done + j
    <3>1. (k + 1) - 1 = k
      BY <1>1, SMT
    <3> QED BY <1>4, <3>1
  <2>2. \A j \in 1 .. B : Done + j <= Len(msg)
    BY <1>1, <1>7, SMT
  <2> QED BY <1>2, <1>7, <2>1, <2>2, BlockSize DEF BlockOf
<1>10. \A i \in 1 .. k : BlockOf(msg', i) = BlockOf(msg, i)
  BY <1>2
<1>11. /\ msg' \in Seq(Byte) /\ Len(msg') <= MaxMessage
       /\ buf' \in [Positions -> Byte] /\ buflen' = 0
  BY <1>1, <1>2, <1>4 DEF Inv, StreamTypeOK
<1> HIDE DEF block
<1> QED BY <1>2, <1>4, <1>6, <1>8, <1>9, <1>10, <1>11, FullBlockStep

LEMMA CopyStep ==
  ASSUME Inv, UpdateCopy
  PROVE  Inv'
<1> DEFINE p == Len(msg) - inlen
<1>1. /\ msg \in Seq(Byte) /\ Len(msg) \in Nat /\ Len(h.blocks) \in Nat
      /\ buf \in [Positions -> Byte] /\ buflen \in 0 .. B
  BY LenProperties DEF Inv, StreamTypeOK
<1>2. /\ inlen \in 1 .. B /\ buf' = Copied(buflen, inlen, msg, p)
      /\ buflen' = buflen + inlen /\ inlen' = 0 /\ ret' = 0
      /\ UNCHANGED <<h, t0, t1, f0, digest_length, msg, digest>>
  BY BlockSize DEF UpdateCopy
<1>3. inlen > 0 /\ inlen # 0 /\ inlen \in Nat /\ inlen <= B /\ inlen \in 0 .. B
  BY <1>2, BlockSize, SMT
<1>4. /\ ~ f0 /\ buflen = 0 /\ Done + buflen + inlen = Len(msg)
      /\ digest_length \in 1 .. BLAKE2B_OUTBYTES /\ h.outlen = digest_length
      /\ digest = <<>> /\ t0 + Word * t1 = Done
      /\ \A i \in 1 .. Len(h.blocks) :
            h.blocks[i] = Compression(BlockOf(msg, i), i * B, FALSE)
  BY <1>3 DEF Inv, StreamInv
<1>5. Done \in Nat /\ p = Done /\ Done + inlen = Len(msg) /\ buflen' = inlen
  <2>1. Done \in Nat
    BY <1>1, BlockSize, SMT DEF Done
  <2>2. Done + 0 + inlen = Len(msg) /\ buflen' = 0 + inlen
    BY <1>2, <1>4
  <2> QED BY <1>1, <1>3, <2>1, <2>2, SMT
<1> HIDE DEF p
<1>6. StreamTypeOK'
  <2>1. buf' \in [Positions -> Byte]
    <3>1. p + inlen <= Len(msg) /\ p \in Nat
      BY <1>1, <1>3, <1>5, SMT
    <3> QED BY <1>1, <1>2, <1>3, <3>1, CopiedType
  <2>2. buflen' \in 0 .. BLAKE2B_BLOCKBYTES /\ inlen' \in 0 .. MaxMessage
    BY <1>2, <1>3, <1>5, Sizes, SMT
  <2> QED BY <1>2, <2>1, <2>2 DEF Inv, StreamTypeOK
<1>7. \A j \in 1 .. buflen' : buf'[j] = msg'[Done + j]
  <2> SUFFICES ASSUME NEW j \in 1 .. inlen PROVE buf'[j] = msg[Done + j]
    BY <1>2, <1>5
  <2>1. j \in Positions /\ 0 < j /\ j <= 0 + inlen /\ j - 0 = j
    BY <1>3, BlockSize, SMT
  <2> QED BY <1>2, <1>4, <1>5, <2>1 DEF Copied
<1>8. Done' = Done
  BY <1>2 DEF Done
<1>9. StreamInv'
  <2>1. /\ ~ f0' /\ digest_length' \in 1 .. BLAKE2B_OUTBYTES
        /\ h'.outlen = digest_length' /\ digest' = <<>>
        /\ t0' + Word * t1' = Done' /\ inlen' = 0
    BY <1>2, <1>4, <1>8
  <2>2. Done + inlen + 0 = Done + inlen /\ inlen + 0 > 0 /\ ~ (0 > 0)
    BY <1>3, <1>5, SMT
  <2>3. Done' + buflen' + inlen' = Len(msg') /\ buflen' + inlen' > 0 /\ ~ (inlen' > 0)
    BY <1>2, <1>5, <1>8, <2>2
  <2>4. \A j \in 1 .. buflen' : buf'[j] = msg'[Done' + j]
    BY <1>7, <1>8
  <2>5. \A i \in 1 .. Len(h'.blocks) :
          h'.blocks[i] = Compression(BlockOf(msg', i), i * B, FALSE)
    BY <1>2, <1>4
  <2> QED BY <2>1, <2>3, <2>4, <2>5 DEF StreamInv
<1>10. DigestOfMessage'
  BY <1>2, <1>4 DEF DigestOfMessage
<1> QED BY <1>6, <1>9, <1>10 DEF Inv

(* The number of blocks, given where the last one starts. *)
LEMMA LastBlock ==
  ASSUME NEW m \in Seq(Byte), NEW k \in Nat, NEW n \in 0 .. B,
         k * B + n = Len(m), k > 0 => n > 0
  PROVE  BlockCount(m) = k + 1
<1> DEFINE kb == k * B
<1>1. kb \in Nat /\ Len(m) \in Nat /\ kb + n = Len(m) /\ n \in Nat /\ n <= B
  BY BlockSize, LenProperties, SMT
<1>2. CASE m = <<>>
  <2>1. Len(m) = 0
    BY <1>2, EmptySeq
  <2>2. k = 0
    <3>1. n = 0 /\ kb = 0
      <4> HIDE DEF kb
      <4> QED BY <1>1, <2>1, SMT
    <3> QED BY <3>1, SMT
  <2> QED BY <1>2, <2>2, SMT DEF BlockCount
<1>3. CASE m # <<>>
  <2>1. Len(m) \in Nat \ {0}
    BY <1>3, EmptySeq
  <2>2. n > 0
    <3>1. k = 0 => kb = 0
      BY BlockSize, SMT
    <3> HIDE DEF kb
    <3> QED BY <1>1, <2>1, <3>1, SMT
  <2>3. n - 1 \in 0 .. B - 1
    BY <1>1, <2>2, BlockSize, SMT
  <2>4. Len(m) - 1 = (n - 1) + B * k
    <3>1. kb = B * k
      BY BlockSize, SMT
    <3>2. B * k \in Nat
      BY BlockSize, SMT
    <3> HIDE DEF kb
    <3> DEFINE bk == B * k
    <3>3. bk \in Nat /\ kb = bk
      BY <3>1, <3>2
    <3> HIDE DEF bk
    <3>4. Len(m) - 1 = (n - 1) + bk
      BY <1>1, <3>3, SMT
    <3> QED BY <3>4 DEF bk
  <2>5. (Len(m) - 1) \div B = k
    BY <2>3, <2>4, BlockSize, DivMod
  <2> QED BY <1>3, <2>5 DEF BlockCount
<1> QED BY <1>2, <1>3

LEMMA FinishStep ==
  ASSUME NEW n, Inv, inlen = 0, Finish(n)
  PROVE  Inv'
<1> DEFINE k == Len(h.blocks)
           c == Counter(buflen)
           rec == [block |-> Padded, t0 |-> c.t0, t1 |-> c.t1, f0 |-> TRUE]
           all == Append(h.blocks, rec)
<1>1. /\ msg \in Seq(Byte) /\ Len(msg) \in Nat /\ Len(msg) <= MaxMessage
      /\ h.blocks \in Seq(CompressionType) /\ k \in Nat
      /\ buf \in [Positions -> Byte] /\ buflen \in 0 .. B
      /\ t0 \in 0 .. Word - 1 /\ t1 \in 0 .. Word - 1
  BY LenProperties DEF Inv, StreamTypeOK
<1>2. /\ ~ f0 /\ digest' = DigestBytes(digest_length, Compressed(Padded, buflen, TRUE))
      /\ t0' = c.t0 /\ t1' = c.t1 /\ h' = Chained(0, <<>>) /\ buf' = ZeroBlock
      /\ f0' = TRUE /\ ret' = 0
      /\ UNCHANGED <<buflen, digest_length, msg, inlen>>
  BY DEF Finish
<1>3. /\ h.outlen = digest_length /\ t0 + Word * t1 = Done /\ Done = k * B
      /\ Done + buflen + 0 = Len(msg)
      /\ \A j \in 1 .. buflen : buf[j] = msg[Done + j]
      /\ \A i \in 1 .. k : h.blocks[i] = Compression(BlockOf(msg, i), i * B, FALSE)
      /\ h.blocks # <<>> => buflen + 0 > 0
  BY <1>2 DEF Inv, StreamInv, Done
<1>4. buflen \in Nat /\ buflen <= B /\ buflen < Word /\ Done \in Nat
      /\ Done + buflen = Len(msg) /\ Done + buflen < Word * Word
  <2>1. buflen \in Nat /\ buflen <= B /\ buflen < Word
    BY <1>1, Sizes, SMT
  <2>2. Done \in Nat
    BY <1>1, <1>3, BlockSize, SMT
  <2>3. Done + buflen = Len(msg)
    BY <1>3, <2>1, <2>2, SMT
  <2>4. Len(msg) < Word * Word
    BY <1>1, Sizes, SMT
  <2> QED BY <2>1, <2>2, <2>3, <2>4
<1>5. /\ c.t0 = Len(msg) % Word /\ c.t1 = Len(msg) \div Word
      /\ c.t0 \in 0 .. Word - 1 /\ c.t1 \in 0 .. Word - 1
  BY <1>1, <1>3, <1>4, CounterExact
<1> HIDE DEF c
<1>6. Padded \in [Positions -> Byte]
  <2>1. \A j \in Positions : (IF j <= buflen THEN buf[j] ELSE Zero) \in Byte
    BY <1>1, Sizes
  <2> QED BY <2>1 DEF Padded
<1>7. rec \in CompressionType
  BY <1>5, <1>6 DEF CompressionType
<1>8. BlockCount(msg) = k + 1
  <2>1. k > 0 => buflen > 0
    <3>1. k > 0 => h.blocks # <<>>
      BY EmptySeq, SMT
    <3> QED BY <1>3, <1>4, <3>1, SMT
  <2>2. k * B + buflen = Len(msg)
    BY <1>3, <1>4
  <2> HIDE DEF k
  <2> QED BY <1>1, <2>1, <2>2, LastBlock
<1>9. Padded = BlockOf(msg, k + 1)
  <2> SUFFICES ASSUME NEW j \in 1 .. B
               PROVE  (IF j <= buflen THEN buf[j] ELSE Zero)
                        = LET q == ((k + 1) - 1) * B + j
                          IN  IF q <= Len(msg) THEN msg[q] ELSE Zero
    BY BlockSize DEF BlockOf, Padded
  <2>1. ((k + 1) - 1) * B + j = Done + j
    <3>1. (k + 1) - 1 = k
      BY <1>1, SMT
    <3> QED BY <1>3, <3>1
  <2>2. Done + j <= Len(msg) <=> j <= buflen
    BY <1>1, <1>4, BlockSize, SMT
  <2>3. j <= buflen => j \in 1 .. buflen
    BY <1>4, BlockSize, SMT
  <2> QED BY <1>3, <2>1, <2>2, <2>3
<1>10. rec = Compression(BlockOf(msg, k + 1), Len(msg), TRUE)
  BY <1>5, <1>9 DEF Compression
<1> HIDE DEF rec
<1>11. /\ all \in [1 .. k + 1 -> CompressionType]
       /\ \A i \in 1 .. k : all[i] = h.blocks[i]
       /\ all[k + 1] = rec
  <2>1. all \in Seq(CompressionType) /\ Len(all) = k + 1
    BY <1>1, <1>7, AppendProperties
  <2>2. all \in [1 .. Len(all) -> CompressionType]
    BY <2>1, LenProperties
  <2> QED BY <1>1, <1>7, <2>1, <2>2, AppendProperties
<1> HIDE DEF all
<1>12. all = Compressions(msg)
  <2>1. Compressions(msg) =
          [i \in 1 .. k + 1 |->
             IF i < k + 1 THEN Compression(BlockOf(msg, i), i * B, FALSE)
                          ELSE Compression(BlockOf(msg, i), Len(msg), TRUE)]
    BY <1>8 DEF Compressions
  <2>2. \A i \in 1 .. k + 1 : (i < k + 1 /\ i \in 1 .. k) \/ (~ (i < k + 1) /\ i = k + 1)
    <3> HIDE DEF k
    <3> QED BY <1>1, SMT
  <2>3. \A i \in 1 .. k + 1 :
          all[i] = IF i < k + 1 THEN Compression(BlockOf(msg, i), i * B, FALSE)
                                ELSE Compression(BlockOf(msg, i), Len(msg), TRUE)
    <3> HIDE DEF k
    <3> QED BY <1>3, <1>10, <1>11, <2>2 DEF k
  <2> HIDE DEF k
  <2> QED BY <1>11, <2>1, <2>3
<1>13. DigestOfMessage'
  <2>1. Compressed(Padded, buflen, TRUE) = [outlen |-> digest_length, blocks |-> all]
    <3>1. Compressed(Padded, buflen, TRUE) = [h EXCEPT !.blocks = all]
      BY DEF Compressed, all, rec, c
    <3>2. h \in [outlen : 0 .. BLAKE2B_OUTBYTES, blocks : Seq(CompressionType)]
      BY DEF Inv, StreamTypeOK
    <3> QED BY <1>3, <3>1, <3>2
  <2>2. digest' = Hash(digest_length, msg)
    BY <1>2, <1>12, <2>1 DEF Hash, Chained
  <2> QED BY <1>2, <2>2 DEF DigestOfMessage
<1>14. StreamTypeOK'
  <2>1. h' \in [outlen : 0 .. BLAKE2B_OUTBYTES, blocks : Seq(CompressionType)]
    <3>1. 0 \in 0 .. BLAKE2B_OUTBYTES
      BY Sizes, SMT
    <3> QED BY <1>2, <3>1, EmptySeq DEF Chained
  <2>2. buf' \in [Positions -> Byte]
    BY <1>2, Sizes DEF ZeroBlock
  <2> QED BY <1>2, <1>5, <2>1, <2>2 DEF Inv, StreamTypeOK
<1>15. StreamInv'
  BY <1>2 DEF StreamInv
<1> QED BY <1>13, <1>14, <1>15 DEF Inv

(***************************************************************************)
(* The specification.                                                        *)
(***************************************************************************)

LEMMA UpdateStep ==
  ASSUME NEW data \in Seq(Byte), Inv, UpdateCall(data)
  PROVE  Inv'
<1>1. inlen = 0 /\ Len(msg) + Len(data) <= MaxMessage
  BY DEF UpdateCall
<1>2. CASE UpdateNothing(data) \/ UpdateRefused(data)
  BY <1>2, RefusedStep DEF UpdateNothing, UpdateRefused
<1>3. CASE UpdateBuffers(data)
  BY <1>1, <1>3, BuffersStep
<1>4. CASE UpdateCompletes(data)
  BY <1>1, <1>4, CompletesStep
<1> QED BY <1>2, <1>3, <1>4 DEF UpdateCall

LEMMA FinalStep ==
  ASSUME NEW n, Inv, FinalCall(n)
  PROVE  Inv'
<1>1. CASE FinalRefused(n)
  BY <1>1, RefusedStep DEF FinalRefused
<1>2. CASE Finish(n)
  BY <1>2, FinishStep DEF FinalCall
<1> QED BY <1>1, <1>2 DEF FinalCall

LEMMA LengthBytesType ==
  ASSUME NEW n \in Nat
  PROVE  LengthBytes(n) \in Seq(Byte)
<1>1. Base \in Nat /\ Base >= 1 /\ Base * Base \in Nat /\ Base * Base * Base \in Nat
  BY LongAssumption, SMT
<1>2. Base * Base >= 1 /\ Base * Base * Base >= 1
  <2>1. Base * 1 <= Base * Base /\ Base * Base * 1 <= Base * Base * Base
    <3>1. 1 * Base <= Base * Base
      BY <1>1, Monotone
    <3>2. 1 * (Base * Base) <= Base * (Base * Base)
      BY <1>1, Monotone
    <3> QED BY <1>1, <3>1, <3>2, SMT
  <2> QED BY <1>1, <2>1, SMT
<1>3. \A d \in Nat : d >= 1 => n \div d \in Nat
  BY SMT
<1>4. \A m \in Nat : m % Base \in 0 .. Base - 1
  BY <1>1, SMT
<1>5. \A m \in Nat : ByteOf[m % Base] \in Byte
  BY <1>4, LongAssumption
<1> DEFINE a == ByteOf[n % Base]
           b == ByteOf[(n \div Base) % Base]
           c == ByteOf[(n \div (Base * Base)) % Base]
           d == ByteOf[(n \div (Base * Base * Base)) % Base]
<1>6. n \div Base \in Nat /\ n \div (Base * Base) \in Nat /\ n \div (Base * Base * Base) \in Nat
  BY <1>1, <1>2, <1>3
<1>7. a \in Byte /\ b \in Byte /\ c \in Byte /\ d \in Byte
  BY <1>5, <1>6
<1>8. LengthBytes(n) = <<a, b, c, d>>
  BY DEF LengthBytes
<1> HIDE DEF a, b, c, d
<1> QED BY <1>7, <1>8

LEMMA InitInv == Init => IInv
<1> SUFFICES ASSUME Init PROVE IInv OBVIOUS
<1>1. StreamTypeOK
  <2>1. h \in [outlen : 0 .. BLAKE2B_OUTBYTES, blocks : Seq(CompressionType)]
    <3>1. 0 \in 0 .. BLAKE2B_OUTBYTES
      BY Sizes, SMT
    <3> QED BY <3>1, EmptySeq DEF Init, Chained
  <2>2. buf \in [Positions -> Byte]
    BY Sizes DEF Init, ZeroBlock
  <2>3. 0 \in 0 .. Word - 1 /\ 0 \in 0 .. BLAKE2B_BLOCKBYTES /\ 0 \in 0 .. MaxMessage
        /\ 0 \in 0 .. BLAKE2B_OUTBYTES /\ 0 <= MaxMessage
    BY Sizes, SMT
  <2>4. msg \in Seq(Byte) /\ Len(msg) = 0
    BY EmptySeq DEF Init
  <2> QED BY <2>1, <2>2, <2>3, <2>4 DEF Init, StreamTypeOK
<1> QED BY <1>1 DEF Init, IInv, StreamInv, DigestOfMessage

LEMMA NextInv == IInv /\ [Next]_vars => IInv'
<1> SUFFICES ASSUME IInv, [Next]_vars PROVE IInv' OBVIOUS
<1>1. Inv /\ (pc = "start" => f0 /\ msg = <<>> /\ digest = <<>> /\ inlen = 0)
  BY DEF IInv, Inv, StreamInv
<1>2. /\ Inv' /\ outlen' \in Nat /\ in' \in Seq(Byte)
      /\ pc' = "start" => pc = "start" /\ UNCHANGED <<f0, msg, digest>>
      => IInv'
  BY <1>1 DEF IInv, Inv
<1>14. /\ outlen \in Nat /\ in \in Seq(Byte)
       /\ UNCHANGED <<outlen, in>> => outlen' \in Nat /\ in' \in Seq(Byte)
  BY DEF IInv
<1>15. \A n \in OutLens, m \in Inputs : n \in Nat /\ m \in Seq(Byte)
  BY LongAssumption
<1>3. \A n : FirstLength(n) = n \/ FirstLength(n) = BLAKE2B_OUTBYTES
  BY DEF FirstLength
<1>4. ASSUME NEW n \in StreamLens, StreamInit(n) PROVE IInv'
  <2>1. n \in Nat
    BY LongAssumption
  <2> QED BY <1>1, <1>2, <1>4, <1>14, <2>1, InitStep DEF StreamInit, long
<1>5. ASSUME NEW n \in StreamLens, StreamFinal(n) PROVE IInv'
  BY <1>1, <1>2, <1>5, <1>14, FinalStep DEF StreamFinal, long
<1>6. ASSUME NEW data \in Inputs, StreamUpdate(data) PROVE IInv'
  <2>1. data \in Seq(Byte)
    BY LongAssumption
  <2> QED BY <1>1, <1>2, <1>6, <1>14, <2>1, UpdateStep DEF StreamUpdate, long
<1>7. CASE Update
  <2>1. pc' = pc /\ pc # "start"
    <3>1. inlen # 0
      BY <1>7, BlockSize, SMT DEF Update, UpdateLoop, UpdateCopy
    <3> QED BY <1>1, <1>7, <3>1 DEF Update
  <2>2. Inv'
    BY <1>1, <1>7, LoopStep, CopyStep DEF Update
  <2> QED BY <1>2, <1>7, <1>14, <2>1, <2>2 DEF Update, long
<1>8. ASSUME NEW n \in OutLens, NEW m \in Inputs, LongTooLong(n, m) PROVE IInv'
  BY <1>1, <1>2, <1>8, <1>15, RefusedStep DEF LongTooLong
<1>9. ASSUME NEW n \in OutLens, NEW m \in Inputs, LongInit(n, m) PROVE IInv'
  <2>1. FirstLength(n) \in Nat
    BY <1>3, LongAssumption, Sizes
  <2>2. pc' # "start"
    BY <1>9 DEF LongInit, Try
  <2> QED BY <1>1, <1>2, <1>9, <1>15, <2>1, <2>2, InitStep DEF LongInit
<1>10. CASE LongLength \/ LongInput
  <2>1. LengthBytes(outlen) \in Seq(Byte) /\ in \in Seq(Byte)
    BY <1>10, LengthBytesType DEF IInv
  <2>2. pc' # "start"
    BY <1>10 DEF LongLength, LongInput, Try
  <2> QED BY <1>1, <1>2, <1>10, <2>1, <2>2, <1>14, UpdateStep DEF LongLength, LongInput, long
<1>11. CASE LongFinal
  <2>1. pc' # "start"
    BY <1>11 DEF LongFinal, Try
  <2> QED BY <1>1, <1>2, <1>11, <1>14, <2>1, FinalStep DEF LongFinal
<1>12. CASE LongExpand \/ LongLast
  <2>1. pc' # "start" /\ ret' \in {0, -1} /\ UNCHANGED <<state, msg, inlen, digest, outlen, in>>
    BY <1>12 DEF LongExpand, LongLast, Try, Blake2bCall
  <2> QED BY <1>1, <1>2, <1>14, <2>1, RefusedStep
<1>13. CASE UNCHANGED vars
  <2>1. UNCHANGED <<state, msg, inlen, digest, outlen, in>> /\ ret' = ret /\ pc' = pc
    BY <1>13 DEF vars, stream, long
  <2>2. ret \in {0, -1}
    BY <1>1 DEF Inv, StreamTypeOK
  <2> QED BY <1>1, <1>2, <1>14, <2>1, <2>2, RefusedStep DEF state
<1> QED BY <1>4, <1>5, <1>6, <1>7, <1>8, <1>9, <1>10, <1>11, <1>12, <1>13
        DEF Next, Stream, Long, Returned

(* The inductive invariant holds in every state (argon2/blake2b.c). *)
THEOREM Invariance == Spec => []IInv
<1>1. Init => IInv
  BY InitInv
<1>2. IInv /\ [Next]_vars => IInv'
  BY NextInv
<1> QED BY <1>1, <1>2, PTL DEF Spec

(* The digest is that of the concatenated message, however it was cut
   (passe_blake2b_update, passe_blake2b_final).                             *)
THEOREM Streaming == Spec => []DigestOfMessage
<1>1. IInv => DigestOfMessage
  BY DEF IInv
<1> QED BY <1>1, Invariance, PTL

(***************************************************************************)
(* Hash is injective.                                                        *)
(***************************************************************************)

LEMMA DivModOf ==
  ASSUME NEW w \in Nat, w >= 1, NEW a \in Nat
  PROVE  /\ a \div w \in Nat /\ a % w \in 0 .. w - 1
         /\ a = w * (a \div w) + (a % w)
BY SMT

LEMMA BlockCountType ==
  ASSUME NEW m \in Seq(Byte)
  PROVE  /\ Len(m) \in Nat
         /\ BlockCount(m) \in Nat /\ BlockCount(m) >= 1
<1>1. Len(m) \in Nat
  BY LenProperties
<1>2. CASE m = <<>>
  BY <1>1, <1>2 DEF BlockCount
<1>3. CASE m # <<>>
  <2>1. Len(m) - 1 \in Nat
    BY <1>1, <1>3, EmptySeq, LenProperties, SMT
  <2>2. (Len(m) - 1) \div B \in Nat
    BY <2>1, BlockSize, DivModOf
  <2>3. BlockCount(m) = (Len(m) - 1) \div B + 1
    BY <1>3 DEF BlockCount
  <2> HIDE DEF B
  <2> QED BY <1>1, <2>2, <2>3
<1> QED BY <1>2, <1>3

(* Byte k is byte j of block i, and block i is one of those that are hashed. *)
LEMMA ByteInBlock ==
  ASSUME NEW m \in Seq(Byte), NEW k \in 1 .. Len(m)
  PROVE  LET i == ((k - 1) \div B) + 1
             j == ((k - 1) % B) + 1
         IN  /\ i \in 1 .. BlockCount(m) /\ j \in Positions
             /\ BlockOf(m, i)[j] = m[k]
<1> DEFINE q == (k - 1) \div B
           r == (k - 1) % B
           last == (Len(m) - 1) \div B
           s == (Len(m) - 1) % B
<1>1. Len(m) \in Nat /\ k - 1 \in Nat /\ Len(m) - 1 \in Nat /\ k <= Len(m)
  BY LenProperties, SMT
<1>2. /\ q \in Nat /\ r \in 0 .. B - 1 /\ k - 1 = B * q + r
      /\ last \in Nat /\ s \in 0 .. B - 1 /\ Len(m) - 1 = B * last + s
  BY <1>1, BlockSize, DivModOf
<1>3. q <= last
  <2> HIDE DEF q, r, last, s
  <2> SUFFICES ASSUME q >= last + 1 PROVE FALSE
    BY <1>2, SMT
  <2>1. (last + 1) * B <= q * B
    BY <1>2, BlockSize, Monotone
  <2>2. B * last + s < (last + 1) * B /\ q * B <= k - 1
    BY <1>2, BlockSize, SMT
  <2>3. (last + 1) * B \in Nat /\ q * B \in Nat
    BY <1>2, BlockSize, SMT
  <2> HIDE DEF B
  <2> QED BY <1>1, <1>2, <2>1, <2>2, <2>3, SMT
<1>4. BlockCount(m) = last + 1
  <2>1. m # <<>>
    BY <1>1, EmptySeq, SMT
  <2> QED BY <2>1 DEF BlockCount
<1> HIDE DEF q, r, last, s
<1>5. q + 1 \in 1 .. BlockCount(m) /\ r + 1 \in Positions
  BY <1>2, <1>3, <1>4, BlockSize, SMT
<1>6. ((q + 1) - 1) * B + (r + 1) = k
  BY <1>2, BlockSize, SMT
<1>7. BlockOf(m, q + 1)[r + 1] = m[k]
  BY <1>1, <1>5, <1>6 DEF BlockOf
<1> QED BY <1>5, <1>7 DEF q, r

LEMMA SameCompressions ==
  ASSUME NEW m \in Seq(Byte), NEW p \in Seq(Byte), Compressions(m) = Compressions(p)
  PROVE  m = p
<1> DEFINE n == BlockCount(m)
<1>1. /\ n \in Nat /\ n >= 1 /\ Len(m) \in Nat /\ Len(p) \in Nat
      /\ BlockCount(p) \in Nat /\ BlockCount(p) >= 1
  BY BlockCountType
<1>2. BlockCount(p) = n
  <2>1. DOMAIN Compressions(m) = 1 .. n /\ DOMAIN Compressions(p) = 1 .. BlockCount(p)
    BY DEF Compressions
  <2> HIDE DEF n
  <2>2. 1 .. n = 1 .. BlockCount(p)
    BY <2>1
  <2> QED BY <1>1, <2>2, SMT
<1>3. \A i \in 1 .. n : Compressions(m)[i].block = BlockOf(m, i)
                        /\ Compressions(p)[i].block = BlockOf(p, i)
  BY <1>2 DEF Compressions, Compression
<1>4. Len(m) = Len(p)
  <2>1. n \in 1 .. n /\ ~ n < n
    <3> HIDE DEF n
    <3> QED BY <1>1, SMT
  <2>2. /\ Compressions(m)[n] = Compression(BlockOf(m, n), Len(m), TRUE)
        /\ Compressions(p)[n] = Compression(BlockOf(p, n), Len(p), TRUE)
    BY <1>2, <2>1 DEF Compressions
  <2>3. Len(m) % Word = Len(p) % Word /\ Len(m) \div Word = Len(p) \div Word
    <3> HIDE DEF n
    <3>1. Compression(BlockOf(m, n), Len(m), TRUE) = Compression(BlockOf(p, n), Len(p), TRUE)
      BY <2>2
    <3>2. /\ Compression(BlockOf(m, n), Len(m), TRUE).t0 = Len(m) % Word
          /\ Compression(BlockOf(m, n), Len(m), TRUE).t1 = Len(m) \div Word
          /\ Compression(BlockOf(p, n), Len(p), TRUE).t0 = Len(p) % Word
          /\ Compression(BlockOf(p, n), Len(p), TRUE).t1 = Len(p) \div Word
      BY DEF Compression
    <3> QED BY <3>1, <3>2
  <2>4. /\ Len(m) = Word * (Len(m) \div Word) + (Len(m) % Word)
        /\ Len(p) = Word * (Len(p) \div Word) + (Len(p) % Word)
    BY <1>1, Sizes, DivModOf
  <2> QED BY <2>3, <2>4
<1>5. ASSUME NEW k \in 1 .. Len(m) PROVE m[k] = p[k]
  <2> DEFINE i == ((k - 1) \div B) + 1
             j == ((k - 1) % B) + 1
  <2>1. i \in 1 .. n /\ BlockOf(m, i)[j] = m[k]
    BY ByteInBlock
  <2>2. BlockOf(p, i)[j] = p[k]
    BY <1>4, ByteInBlock
  <2> HIDE DEF i, j, n
  <2>3. BlockOf(m, i) = BlockOf(p, i)
    BY <1>3, <2>1
  <2> QED BY <2>1, <2>2, <2>3
<1> QED BY <1>4, <1>5, SeqEqual

(* Two messages with the same digest, of any length but zero, are the same:
   the number of bytes tells padding from zeros, the flag the last block from
   the others (passe_blake2b_final).                                        *)
THEOREM HashInjective ==
  ASSUME NEW n \in Nat, n >= 1, NEW m \in Seq(Byte), NEW p \in Seq(Byte),
         Hash(n, m) = Hash(n, p)
  PROVE  m = p
<1>1. 1 \in 1 .. n
  BY SMT
<1>2. /\ Hash(n, m)[1].of.blocks = Compressions(m)
      /\ Hash(n, p)[1].of.blocks = Compressions(p)
  BY <1>1 DEF Hash, DigestBytes, Chained
<1> QED BY <1>2, SameCompressions

LEMMA DigestLength ==
  ASSUME NEW n \in Nat, NEW c
  PROVE  /\ DigestBytes(n, c) \in Seq([of : {c}, i : Nat])
         /\ Len(DigestBytes(n, c)) = n
<1> DEFINE S == [of : {c}, i : Nat]
           d == DigestBytes(n, c)
<1>1. d \in [1 .. n -> S] /\ DOMAIN d = 1 .. n
  BY SMT DEF DigestBytes
<1> HIDE DEF d, S
<1>2. d \in Seq(S)
  BY <1>1, SeqDef
<1>3. Len(d) = n
  BY <1>1, <1>2, LenProperties
<1> QED BY <1>2, <1>3 DEF d, S

(* A digest that final has given belongs to no other message
   (passe_blake2b_final).                                                   *)
THEOREM DigestsIdentify == Spec => []DigestIdentifiesMessage
<1>1. IInv => DigestIdentifiesMessage
  <2> SUFFICES ASSUME IInv, digest # <<>>, NEW m \in Messages,
                      digest = Hash(digest_length, m)
               PROVE  m = msg
    BY DEF DigestIdentifiesMessage
  <2>1. /\ msg \in Seq(Byte) /\ digest_length \in 0 .. BLAKE2B_OUTBYTES
        /\ digest = Hash(digest_length, msg)
    BY DEF IInv, StreamTypeOK, DigestOfMessage
  <2>2. m \in Seq(Byte)
    <3>1. PICK n \in 0 .. MaxMessage : m \in [1 .. n -> Byte]
      BY DEF Messages
    <3>2. n \in Nat
      BY Sizes, SMT
    <3> QED BY <3>1, <3>2, SeqDef
  <2>3. digest_length \in Nat /\ digest_length >= 1
    <3>1. digest_length \in Nat
      BY <2>1, Sizes, SMT
    <3>2. /\ digest \in Seq([of : {Chained(digest_length, Compressions(msg))}, i : Nat])
          /\ Len(digest) = digest_length
      BY <2>1, <3>1, DigestLength DEF Hash
    <3>3. Len(digest) # 0
      BY <3>2, EmptySeq
    <3> QED BY <3>1, <3>2, <3>3, SMT
  <2> QED BY <2>1, <2>2, <2>3, HashInjective
<1> QED BY <1>1, Invariance, PTL

(***************************************************************************)
(* passe_blake2b_long.                                                       *)
(***************************************************************************)

(* The output grows by digests, whose bytes name what they are made from. *)
OutIsSequence == \E S : out \in Seq(S)

LongSafe == IInv /\ LongLengths /\ OutIsSequence

LEMMA Halves ==
  /\ Half \in Nat /\ Half <= BLAKE2B_OUTBYTES
  /\ BLAKE2B_OUTBYTES \in Nat /\ BLAKE2B_OUTBYTES >= 1
<1>1. BLAKE2B_OUTBYTES \in Nat /\ BLAKE2B_OUTBYTES >= 1
  BY Sizes
<1>2. BLAKE2B_OUTBYTES \div 2 \in Nat /\ BLAKE2B_OUTBYTES \div 2 <= BLAKE2B_OUTBYTES
  BY <1>1, SMT
<1> QED BY <1>1, <1>2 DEF Half

LEMMA MaxType == UINT32_MAX \in Int
<1>1. Base \in Nat
  BY LongAssumption
<1>2. Base * Base * Base * Base \in Nat
  BY <1>1, SMT
<1> QED BY <1>2, SMT DEF UINT32_MAX

LEMMA FirstIsGood ==
  ASSUME NEW n \in Nat, n <= UINT32_MAX
  PROVE  /\ FirstLength(n) \in Nat
         /\ BadLength(FirstLength(n)) <=> n \notin 1 .. UINT32_MAX
         /\ BadLength(FirstLength(n)) <=> n = 0
BY Halves, MaxType, SMT DEF FirstLength, BadLength

(* Half of a digest is added to the output. *)
LEMMA HalfOf ==
  ASSUME NEW c
  PROVE  LET d == DigestBytes(BLAKE2B_OUTBYTES, c)
         IN  /\ SubSeq(d, 1, Half) \in Seq([of : {c}, i : Nat])
             /\ Len(SubSeq(d, 1, Half)) = Half
<1> DEFINE S == [of : {c}, i : Nat]
           d == DigestBytes(BLAKE2B_OUTBYTES, c)
<1>1. d \in Seq(S) /\ Len(d) = BLAKE2B_OUTBYTES
  BY Halves, DigestLength
<1> HIDE DEF S, d
<1>2. CASE Half = 0
  <2>1. SubSeq(d, 1, Half) = <<>>
    BY <1>1, <1>2, SubSeqProperties, Halves, SMT
  <2> QED BY <1>2, <2>1, EmptySeq DEF d, S
<1>3. CASE Half >= 1
  <2>1. SubSeq(d, 1, Half) \in Seq(S) /\ Len(SubSeq(d, 1, Half)) = Half
    BY <1>1, <1>3, SubSeqProperties, Halves, SMT
  <2> QED BY <2>1 DEF d, S
<1> QED BY <1>2, <1>3, Halves, SMT

LEMMA Joined ==
  ASSUME NEW S, NEW s \in Seq(S), NEW T, NEW t \in Seq(T)
  PROVE  /\ s \o t \in Seq(S \union T)
         /\ Len(s \o t) = Len(s) + Len(t)
<1>1. s \in Seq(S \union T) /\ t \in Seq(S \union T)
  BY SeqDef
<1> QED BY <1>1, ConcatProperties

LEMMA LongInitInv == Init => LongSafe
<1> SUFFICES ASSUME Init PROVE LongSafe OBVIOUS
<1>1. IInv
  BY InitInv
<1>2. out = <<>> /\ outlen = 0 /\ toproduce = 0 /\ pc = "start"
  BY DEF Init
<1>3. OutIsSequence /\ Len(out) = 0
  BY <1>2, EmptySeq DEF OutIsSequence
<1>4. TypeOK
  BY <1>1, <1>2, <1>3 DEF TypeOK, IInv
<1> QED BY <1>1, <1>2, <1>3, <1>4 DEF LongSafe, LongLengths, LongSucceeds

(* A step of a streaming caller, or of an update. *)
LEMMA KeepsOutput ==
  ASSUME LongSafe, IInv', UNCHANGED long,
         \/ pc \in {"start", "stream"} /\ pc' \in {"start", "stream"}
         \/ /\ pc \in {"length", "input", "final"} /\ pc' \in {"length", "input", "final"}
            /\ UNCHANGED <<f0, digest_length>> /\ ret' = 0
  PROVE  LongSafe'
<1>1. TypeOK'
  BY DEF LongSafe, LongLengths, TypeOK, IInv, long
<1>2. LongLengths'
  BY <1>1 DEF LongSafe, LongLengths, LongSucceeds, long
<1>3. OutIsSequence'
  BY DEF LongSafe, OutIsSequence, long
<1> QED BY <1>2, <1>3 DEF LongSafe

LEMMA LongUpdate ==
  ASSUME LongSafe, IInv', LongLength \/ LongInput
  PROVE  LongSafe'
<1>1. pc \in {"length", "input"} /\ ~ f0 /\ ret = 0
  BY DEF LongLength, LongInput, LongSafe, LongLengths
<1>2. PICK data : UpdateCall(data)
  BY DEF LongLength, LongInput
<1>3. UNCHANGED <<f0, digest_length>> /\ ret' = 0
  BY <1>1, <1>2 DEF UpdateCall, UpdateNothing, UpdateRefused, UpdateBuffers,
                    UpdateCompletes, state
<1>4. pc' \in {"length", "input", "final"} /\ UNCHANGED long
  BY <1>3 DEF LongLength, LongInput, Try
<1> QED BY <1>1, <1>3, <1>4, KeepsOutput

LEMMA LongStart ==
  ASSUME LongSafe, IInv', NEW n \in OutLens, NEW m \in Inputs,
         LongTooLong(n, m) \/ LongInit(n, m)
  PROVE  LongSafe'
<1>1. /\ n \in Nat /\ pc = "start" /\ inlen = 0
      /\ out = <<>> /\ Len(out) = 0 /\ toproduce \in Nat
  BY LongAssumption, EmptySeq
     DEF LongTooLong, LongInit, LongSafe, LongLengths, TypeOK, IInv, StreamInv
<1>2. /\ outlen' = n /\ out' = out /\ toproduce' = toproduce /\ inlen' = 0
  BY <1>1 DEF LongTooLong, LongInit, InitCall
<1>3. OutIsSequence'
  BY <1>2 DEF LongSafe, OutIsSequence
<1>4. Len(out') <= outlen'
  BY <1>1, <1>2, SMT
<1>5. CASE LongTooLong(n, m)
  <2>1. pc' = "done" /\ ret' = -1 /\ n > UINT32_MAX
    BY <1>5 DEF LongTooLong
  <2>2. n \notin 1 .. UINT32_MAX
    BY <1>1, <2>1, MaxType, SMT
  <2>3. TypeOK'
    BY <1>1, <1>2, <1>4, <2>1 DEF TypeOK, IInv
  <2> QED BY <1>2, <1>3, <2>1, <2>2, <2>3 DEF LongSafe, LongLengths, LongSucceeds
<1>6. CASE LongInit(n, m)
  <2>1. /\ n <= UINT32_MAX /\ InitCall(FirstLength(n))
        /\ pc' = IF ret' = 0 THEN "length" ELSE "done"
    BY <1>6 DEF LongInit, Try
  <2>2. BadLength(FirstLength(n)) <=> n \notin 1 .. UINT32_MAX
    BY <1>1, <2>1, FirstIsGood
  <2>3. CASE BadLength(FirstLength(n))
    <3>1. ret' = -1 /\ pc' = "done"
      BY <2>1, <2>3 DEF InitCall
    <3>2. TypeOK'
      BY <1>1, <1>2, <1>4, <3>1 DEF TypeOK, IInv
    <3> QED BY <1>2, <1>3, <2>2, <2>3, <3>1, <3>2 DEF LongSafe, LongLengths, LongSucceeds
  <2>4. CASE ~ BadLength(FirstLength(n))
    <3>1. ret' = 0 /\ pc' = "length" /\ ~ f0' /\ digest_length' = FirstLength(n)
      BY <2>1, <2>4 DEF InitCall
    <3>2. TypeOK'
      BY <1>1, <1>2, <1>4, <3>1 DEF TypeOK, IInv
    <3> QED BY <1>1, <1>2, <1>3, <2>2, <2>4, <3>1, <3>2
            DEF LongSafe, LongLengths, LongSucceeds
  <2> QED BY <2>3, <2>4
<1> QED BY <1>5, <1>6

LEMMA LongFinish ==
  ASSUME LongSafe, IInv', LongFinal
  PROVE  LongSafe'
<1>1. /\ ~ f0 /\ outlen \in 1 .. UINT32_MAX /\ digest_length = FirstLength(outlen)
      /\ inlen = 0 /\ outlen \in Nat /\ FinalCall(FirstLength(outlen))
  BY DEF LongFinal, FinalCall, LongSafe, LongLengths, TypeOK
<1>2. FirstLength(outlen) \in Nat
  BY <1>1, Halves DEF FirstLength
<1>3. Finish(FirstLength(outlen))
  <2>1. ~ FirstLength(outlen) < digest_length
    BY <1>1, <1>2, SMT
  <2> QED BY <1>1, <2>1 DEF FinalCall, FinalRefused
<1> DEFINE c == Compressed(Padded, buflen, TRUE)
<1>4. /\ ret' = 0 /\ inlen' = 0 /\ outlen' = outlen
      /\ digest' = DigestBytes(FirstLength(outlen), c)
      /\ pc' = IF outlen <= BLAKE2B_OUTBYTES THEN "done" ELSE "expand"
  BY <1>1, <1>3 DEF Finish, LongFinal, Try
<1> HIDE DEF c
<1>5. CASE outlen <= BLAKE2B_OUTBYTES
  <2>1. pc' = "done" /\ out' = DigestBytes(outlen, c) /\ toproduce' = 0
    BY <1>4, <1>5 DEF LongFinal, FirstLength
  <2>2. OutIsSequence' /\ Len(out') = outlen
    BY <1>1, <2>1, DigestLength DEF OutIsSequence
  <2>3. TypeOK'
    BY <1>1, <1>4, <2>1, <2>2, SMT DEF TypeOK, IInv
  <2> QED BY <1>1, <1>4, <2>1, <2>2, <2>3 DEF LongSafe, LongLengths, LongSucceeds
<1>6. CASE ~ outlen <= BLAKE2B_OUTBYTES
  <2>1. /\ pc' = "expand" /\ toproduce' = outlen - Half
        /\ out' = SubSeq(DigestBytes(BLAKE2B_OUTBYTES, c), 1, Half)
    BY <1>4, <1>6 DEF LongFinal, FirstLength
  <2>2. OutIsSequence' /\ Len(out') = Half
    BY <2>1, HalfOf DEF OutIsSequence
  <2>3. /\ toproduce' \in Nat /\ toproduce' >= 1
        /\ Len(out') + toproduce' = outlen /\ Len(out') <= outlen
    BY <1>1, <1>6, <2>1, <2>2, Halves, SMT
  <2>4. TypeOK'
    BY <1>1, <1>4, <2>1, <2>3 DEF TypeOK, IInv
  <2> QED BY <1>1, <1>4, <2>1, <2>2, <2>3, <2>4 DEF LongSafe, LongLengths, LongSucceeds
<1> QED BY <1>5, <1>6

LEMMA LongMore ==
  ASSUME LongSafe, IInv', LongExpand \/ LongLast
  PROVE  LongSafe'
<1>1. /\ pc = "expand" /\ outlen \in 1 .. UINT32_MAX /\ outlen \in Nat
      /\ toproduce \in Nat /\ toproduce >= 1 /\ Len(out) + toproduce = outlen
      /\ inlen = 0
  BY DEF LongExpand, LongLast, LongSafe, LongLengths, TypeOK
<1>2. inlen' = 0 /\ outlen' = outlen
  BY <1>1 DEF LongExpand, LongLast
<1>3. PICK S : out \in Seq(S)
  BY DEF LongSafe, OutIsSequence
<1>4. Len(out) \in Nat
  BY <1>3, LenProperties
<1>5. CASE LongExpand
  <2>1. ~ BadLength(BLAKE2B_OUTBYTES)
    BY Halves, SMT DEF BadLength
  <2> DEFINE c == Chained(BLAKE2B_OUTBYTES, Compressions(out_buffer))
             half == SubSeq(DigestBytes(BLAKE2B_OUTBYTES, c), 1, Half)
  <2>2. /\ ret' = 0 /\ pc' = "expand" /\ out' = out \o half
        /\ toproduce' = toproduce - Half /\ toproduce > BLAKE2B_OUTBYTES
    BY <1>5, <2>1 DEF LongExpand, MoreToProduce, Blake2bCall, Try, Hash
  <2>3. half \in Seq([of : {c}, i : Nat]) /\ Len(half) = Half
    <3> HIDE DEF c
    <3> QED BY HalfOf
  <2> HIDE DEF half, c
  <2>4. /\ out' \in Seq(S \union [of : {c}, i : Nat])
        /\ Len(out') = Len(out) + Half
    BY <1>3, <2>2, <2>3, Joined
  <2>5. /\ toproduce' \in Nat /\ toproduce' >= 1
        /\ Len(out') + toproduce' = outlen /\ Len(out') <= outlen
    <3> DEFINE o == Len(out)
               u == Len(out')
    <3>1. /\ o \in Nat /\ u = o + Half /\ Half \in Nat /\ Half <= BLAKE2B_OUTBYTES
          /\ BLAKE2B_OUTBYTES \in Nat /\ toproduce \in Nat /\ outlen \in Nat
          /\ toproduce > BLAKE2B_OUTBYTES /\ toproduce' = toproduce - Half
          /\ o + toproduce = outlen
      BY <1>1, <1>4, <2>2, <2>4, Halves
    <3> HIDE DEF o, u
    <3>2. /\ toproduce' \in Nat /\ toproduce' >= 1
          /\ u + toproduce' = outlen /\ u <= outlen
      BY <3>1, SMT
    <3> QED BY <3>2 DEF u
  <2>6. TypeOK'
    BY <1>1, <1>2, <2>2, <2>5 DEF TypeOK, IInv
  <2>7. OutIsSequence'
    BY <2>4 DEF OutIsSequence
  <2> QED BY <1>1, <1>2, <2>2, <2>5, <2>6, <2>7 DEF LongSafe, LongLengths, LongSucceeds
<1>6. CASE LongLast
  <2>1. toproduce <= BLAKE2B_OUTBYTES /\ ~ BadLength(toproduce)
    BY <1>1, <1>6, Halves, SMT DEF LongLast, MoreToProduce, BadLength
  <2> DEFINE c == Chained(toproduce, Compressions(out_buffer))
             last == DigestBytes(toproduce, c)
  <2>2. /\ ret' = 0 /\ pc' = "done" /\ out' = out \o last
        /\ toproduce' = toproduce
    BY <1>6, <2>1 DEF LongLast, Blake2bCall, Hash
  <2>3. last \in Seq([of : {c}, i : Nat]) /\ Len(last) = toproduce
    <3> HIDE DEF c
    <3> QED BY <1>1, DigestLength
  <2> HIDE DEF last, c
  <2>4. /\ out' \in Seq(S \union [of : {c}, i : Nat])
        /\ Len(out') = Len(out) + toproduce
    BY <1>3, <2>2, <2>3, Joined
  <2>5. Len(out') <= outlen
    BY <1>1, <2>4, SMT
  <2>6. TypeOK'
    BY <1>1, <1>2, <2>2, <2>5 DEF TypeOK, IInv
  <2>7. OutIsSequence'
    BY <2>4 DEF OutIsSequence
  <2> QED BY <1>1, <1>2, <2>2, <2>6, <2>7 DEF LongSafe, LongLengths, LongSucceeds
<1> QED BY <1>5, <1>6

LEMMA LongNextInv == LongSafe /\ [Next]_vars => LongSafe'
<1> SUFFICES ASSUME LongSafe, [Next]_vars PROVE LongSafe' OBVIOUS
<1>1. IInv /\ IInv'
  BY NextInv DEF LongSafe
<1>2. ASSUME NEW n \in StreamLens, StreamInit(n) PROVE LongSafe'
  BY <1>1, <1>2, KeepsOutput DEF StreamInit
<1>3. ASSUME NEW n \in StreamLens, StreamFinal(n) PROVE LongSafe'
  BY <1>1, <1>3, KeepsOutput DEF StreamFinal
<1>4. ASSUME NEW data \in Inputs, StreamUpdate(data) PROVE LongSafe'
  BY <1>1, <1>4, KeepsOutput DEF StreamUpdate
<1>5. CASE Update
  <2>1. inlen # 0
    BY <1>5, BlockSize, SMT DEF Update, UpdateLoop, UpdateCopy
  <2>2. pc' = pc /\ UNCHANGED long
    BY <1>5 DEF Update
  <2>3. pc \in {"start", "stream", "length", "input", "final"}
    BY <2>1 DEF LongSafe, LongLengths, TypeOK
  <2>4. CASE pc \in {"length", "input", "final"}
    <3>1. ret = 0
      BY <2>4 DEF LongSafe, LongLengths
    <3>2. ret' = 0 /\ UNCHANGED <<f0, digest_length>>
      BY <1>5, <3>1 DEF Update, UpdateLoop, UpdateCopy
    <3> QED BY <1>1, <2>2, <2>4, <3>2, KeepsOutput
  <2> QED BY <1>1, <2>2, <2>3, <2>4, KeepsOutput
<1>6. ASSUME NEW n \in OutLens, NEW m \in Inputs, LongTooLong(n, m) \/ LongInit(n, m)
      PROVE  LongSafe'
  BY <1>1, <1>6, LongStart
<1>7. CASE LongLength \/ LongInput
  BY <1>1, <1>7, LongUpdate
<1>8. CASE LongFinal
  BY <1>1, <1>8, LongFinish
<1>9. CASE LongExpand \/ LongLast
  BY <1>1, <1>9, LongMore
<1>10. CASE UNCHANGED vars
  BY <1>1, <1>10 DEF vars, stream, state, long, LongSafe, LongLengths, TypeOK, StreamTypeOK,
                     LongSucceeds, OutIsSequence
<1> QED BY <1>2, <1>3, <1>4, <1>5, <1>6, <1>7, <1>8, <1>9, <1>10
        DEF Next, Stream, Long, Returned

(* The digests of which the output is made. *)
DigestsFrom(V, first, r) ==
  V = [i \in 1 .. r |-> Hash(BLAKE2B_OUTBYTES, IF i = 1 THEN first ELSE V[i - 1])]

LEMMA DigestsExist ==
  ASSUME NEW first
  PROVE  \A r \in Nat : \E V : DigestsFrom(V, first, r)
<1> DEFINE S == {r \in Nat : \E V : DigestsFrom(V, first, r)}
<1>1. 0 \in S
  <2> DEFINE V == [i \in 1 .. 0 |-> Hash(BLAKE2B_OUTBYTES, first)]
  <2>1. 0 \in Nat /\ \A i \in 1 .. 0 : FALSE
    BY SMT
  <2>2. V = [i \in 1 .. 0 |-> Hash(BLAKE2B_OUTBYTES, IF i = 1 THEN first ELSE V[i - 1])]
    BY <2>1
  <2> HIDE DEF V
  <2> QED BY <2>1, <2>2 DEF DigestsFrom
<1>2. ASSUME NEW r \in Nat, r \in S PROVE r + 1 \in S
  <2>1. PICK W : DigestsFrom(W, first, r)
    BY <1>2
  <2> DEFINE H(m) == Hash(BLAKE2B_OUTBYTES, m)
  <2> HIDE DEF H
  <2> DEFINE V == [i \in 1 .. r + 1 |-> IF i = r + 1 THEN H(IF i = 1 THEN first ELSE W[r])
                                        ELSE W[i]]
  <2>2. /\ r + 1 \in Nat
        /\ \A i \in 1 .. r + 1 : (i # r + 1) => i \in 1 .. r
        /\ \A i \in 1 .. r + 1 : (i # 1) => /\ i - 1 \in 1 .. r + 1 /\ i - 1 # r + 1
        /\ (r + 1) - 1 = r
    BY SMT
  <2>3. \A i \in 1 .. r : W[i] = H(IF i = 1 THEN first ELSE W[i - 1])
    BY <2>1 DEF DigestsFrom, H
  <2>4. \A i \in 1 .. r + 1 : V[i] = H(IF i = 1 THEN first ELSE V[i - 1])
    <3> SUFFICES ASSUME NEW i \in 1 .. r + 1
                 PROVE  V[i] = H(IF i = 1 THEN first ELSE V[i - 1])
      OBVIOUS
    <3>1. (i # 1) => V[i - 1] = W[i - 1]
      BY <2>2
    <3>2. CASE i = r + 1
      <4>1. V[i] = H(IF i = 1 THEN first ELSE W[r])
        BY <3>2
      <4>2. i - 1 = r
        BY <2>2, <3>2
      <4> HIDE DEF V
      <4> QED BY <3>1, <4>1, <4>2
    <3>3. CASE i # r + 1
      <4>1. V[i] = W[i] /\ i \in 1 .. r
        BY <2>2, <3>3
      <4> HIDE DEF V
      <4> QED BY <2>3, <3>1, <4>1
    <3> QED BY <3>2, <3>3
  <2>5. V = [i \in 1 .. r + 1 |-> V[i]]
    OBVIOUS
  <2> HIDE DEF V
  <2>6. DigestsFrom(V, first, r + 1)
    BY <2>4, <2>5 DEF DigestsFrom, H
  <2> QED BY <2>2, <2>6
<1> HIDE DEF S
<1>3. \A r \in Nat : r \in S
  BY <1>1, <1>2, NatInductionOnSets
<1> QED BY <1>3 DEF S

LEMMA DigestsAgree ==
  ASSUME NEW first, NEW r \in Nat, NEW q \in Nat, NEW V, NEW W,
         DigestsFrom(V, first, r), DigestsFrom(W, first, q)
  PROVE  \A i \in Nat : i \in 1 .. r /\ i \in 1 .. q => V[i] = W[i]
<1> DEFINE S == {i \in Nat : i \in 1 .. r /\ i \in 1 .. q => V[i] = W[i]}
           H(m) == Hash(BLAKE2B_OUTBYTES, m)
<1> HIDE DEF H
<1>1. /\ \A i \in 1 .. r : V[i] = H(IF i = 1 THEN first ELSE V[i - 1])
      /\ \A i \in 1 .. q : W[i] = H(IF i = 1 THEN first ELSE W[i - 1])
  BY DEF DigestsFrom, H
<1>2. 0 \in S
  <2>1. 0 \in Nat /\ 0 \notin 1 .. r
    BY SMT
  <2> QED BY <2>1
<1>3. ASSUME NEW i \in Nat, i \in S PROVE i + 1 \in S
  <2> SUFFICES ASSUME i + 1 \in 1 .. r, i + 1 \in 1 .. q PROVE V[i + 1] = W[i + 1]
    BY SMT
  <2>1. (i + 1) - 1 = i /\ ((i + 1) # 1 => (i \in 1 .. r /\ i \in 1 .. q))
    BY SMT
  <2>2. (i + 1) # 1 => V[i] = W[i]
    BY <1>3, <2>1
  <2> QED BY <1>1, <2>1, <2>2
<1> HIDE DEF S
<1>4. \A i \in Nat : i \in S
  BY <1>2, <1>3, NatInductionOnSets
<1> QED BY <1>4 DEF S

LEMMA DigestsAre ==
  ASSUME NEW first, NEW r \in Nat
  PROVE  DigestsFrom(Digests(first, r), first, r)
<1>1. \E V : DigestsFrom(V, first, r)
  BY DigestsExist
<1> QED BY <1>1 DEF Digests, DigestsFrom

(* One more digest, and the half that it adds. *)
LEMMA NextDigest ==
  ASSUME NEW first, NEW r \in Nat
  PROVE  /\ Digests(first, r + 1)[r + 1] =
              Hash(BLAKE2B_OUTBYTES, IF r = 0 THEN first ELSE Digests(first, r)[r])
         /\ \A i \in 1 .. r : Digests(first, r + 1)[i] = Digests(first, r)[i]
<1> DEFINE V == Digests(first, r)
           W == Digests(first, r + 1)
           H(m) == Hash(BLAKE2B_OUTBYTES, m)
<1>1. r + 1 \in Nat /\ r + 1 \in 1 .. r + 1 /\ ((r + 1) - 1 = r) /\ (r + 1 = 1 <=> r = 0)
  BY SMT
<1>2. DigestsFrom(V, first, r) /\ DigestsFrom(W, first, r + 1)
  BY <1>1, DigestsAre
<1> HIDE DEF V, W, H
<1>3. \A i \in Nat : i \in 1 .. r /\ i \in 1 .. r + 1 => V[i] = W[i]
  BY <1>1, <1>2, DigestsAgree
<1>4. \A i \in 1 .. r : i \in Nat /\ i \in 1 .. r + 1
  BY SMT
<1>5. W[r + 1] = H(IF r + 1 = 1 THEN first ELSE W[r])
  BY <1>1, <1>2 DEF DigestsFrom, H
<1>6. r # 0 => r \in 1 .. r
  BY SMT
<1> QED BY <1>1, <1>3, <1>4, <1>5, <1>6 DEF V, W, H

LEMMA EvenHalf ==
  /\ Half \in Nat /\ Half >= 1 /\ BLAKE2B_OUTBYTES = Half + Half
<1>1. BLAKE2B_OUTBYTES \in Nat /\ BLAKE2B_OUTBYTES >= 1 /\ BLAKE2B_OUTBYTES % 2 = 0
  BY Sizes, LongAssumption
<1> QED BY <1>1, SMT DEF Half

(* Byte j of the output is byte y + 1 of digest x + 1. *)
LEMMA HalfPosition ==
  ASSUME NEW j \in Nat, j >= 1
  PROVE  LET x == (j - 1) \div Half
             y == (j - 1) % Half
         IN  /\ x \in Nat /\ y \in Nat /\ y < Half /\ j = x * Half + y + 1
             /\ y + 1 \in 1 .. Half
<1>1. j - 1 \in Nat
  BY SMT
<1> DEFINE p == j - 1
           x == p \div Half
           y == p % Half
<1>2. x \in Nat /\ y \in 0 .. Half - 1 /\ p = Half * x + y
  BY <1>1, EvenHalf, DivModOf
<1>3. p = j - 1
  OBVIOUS
<1> HIDE DEF x, y, p
<1>4. Half * x = x * Half /\ x * Half \in Nat
  BY <1>2, EvenHalf, SMT
<1>5. y \in Nat /\ y < Half /\ j = x * Half + y + 1 /\ y + 1 \in 1 .. Half
  BY <1>2, <1>3, <1>4, EvenHalf, SMT
<1> QED BY <1>2, <1>5 DEF x, y, p

LEMMA HalfIndex ==
  ASSUME NEW r \in Nat, NEW i \in 1 .. Half
  PROVE  /\ ((r * Half + i) - 1) \div Half = r
         /\ ((r * Half + i) - 1) % Half = i - 1
         /\ r * Half + i \in 1 .. (r + 1) * Half /\ r * Half \in Nat
         /\ (r + 1) * Half = r * Half + Half
<1> DEFINE a == i - 1
<1>1. a \in 0 .. Half - 1
  BY EvenHalf, SMT
<1>2. (a + Half * r) % Half = a /\ (a + Half * r) \div Half = r
  <2> HIDE DEF a
  <2> QED BY <1>1, EvenHalf, DivMod
<1>3. /\ r * Half \in Nat /\ (r * Half + i) - 1 = a + Half * r
      /\ (r + 1) * Half = r * Half + Half
  BY EvenHalf, SMT
<1>4. r * Half + i \in 1 .. (r + 1) * Half
  BY <1>3, EvenHalf, SMT
<1> QED BY <1>2, <1>3, <1>4

LEMMA OneHalfMore ==
  ASSUME NEW r \in Nat, NEW V, NEW W, \A i \in 1 .. r : W[i] = V[i]
  PROVE  FirstHalves(W, r + 1) = FirstHalves(V, r) \o SubSeq(W[r + 1], 1, Half)
<1> DEFINE at(U, j) == U[((j - 1) \div Half) + 1][((j - 1) % Half) + 1]
           n == r * Half
           all == FirstHalves(W, r + 1)
           old == FirstHalves(V, r)
           half == SubSeq(W[r + 1], 1, Half)
           S == {all[j] : j \in 1 .. n + Half}
<1>1. n \in Nat /\ Half \in Nat /\ Half >= 1 /\ (r + 1) * Half = n + Half /\ n + Half \in Nat
  BY EvenHalf, SMT
<1>2. /\ DOMAIN all = 1 .. n + Half /\ all \in [1 .. n + Half -> S]
      /\ \A j \in 1 .. n + Half : all[j] = at(W, j)
  BY <1>1 DEF FirstHalves
<1>3. /\ DOMAIN old = 1 .. n /\ \A j \in 1 .. n : old[j] = at(V, j)
      /\ old = [j \in 1 .. n |-> old[j]]
  BY <1>1 DEF FirstHalves
<1>4. ASSUME NEW j \in 1 .. n PROVE old[j] = all[j] /\ j \in 1 .. n + Half
  <2> DEFINE x == (j - 1) \div Half
             y == (j - 1) % Half
  <2>1. j \in Nat /\ j >= 1 /\ j <= n /\ j \in 1 .. n + Half
    BY <1>1, SMT
  <2>2. x \in Nat /\ y \in Nat /\ j = x * Half + y + 1
    BY <2>1, HalfPosition
  <2>3. at(V, j) = V[x + 1][y + 1] /\ at(W, j) = W[x + 1][y + 1]
    OBVIOUS
  <2>4. x < r
    <3> HIDE DEF x, y, n
    <3>1. ~ r <= x
      <4> SUFFICES ASSUME r <= x PROVE FALSE
        OBVIOUS
      <4> DEFINE q == x * Half
      <4>1. n <= q
        BY <2>2, <1>1, Monotone DEF n
      <4>2. q \in Nat /\ j = q + y + 1
        BY <2>2, <1>1, SMT
      <4> HIDE DEF q
      <4> QED BY <2>1, <2>2, <4>1, <4>2, <1>1, SMT
    <3> QED BY <3>1, <2>2, SMT
  <2>5. x + 1 \in 1 .. r
    <3> HIDE DEF x
    <3> QED BY <2>2, <2>4, SMT
  <2> HIDE DEF x, y, n, old, all, at
  <2>6. W[x + 1] = V[x + 1]
    BY <2>5
  <2> QED BY <1>2, <1>3, <2>1, <2>3, <2>6
<1>5. ASSUME NEW i \in 1 .. Half
      PROVE  W[r + 1][i] = all[n + i] /\ n + i \in 1 .. n + Half
  <2>1. /\ ((n + i) - 1) \div Half = r /\ ((n + i) - 1) % Half = i - 1
        /\ n + i \in 1 .. (r + 1) * Half /\ (r + 1) * Half = n + Half
    BY HalfIndex
  <2>2. (i - 1) + 1 = i
    BY <1>1, SMT
  <2>3. at(W, n + i) = W[r + 1][i]
    <3> DEFINE j == n + i
    <3>1. (j - 1) \div Half = r /\ (j - 1) % Half = i - 1
      BY <2>1
    <3> HIDE DEF j
    <3>2. at(W, j) = W[r + 1][i]
      BY <2>2, <3>1
    <3> QED BY <3>2 DEF j
  <2> HIDE DEF n, all, at
  <2> QED BY <1>2, <2>1, <2>3
<1> HIDE DEF S, n, all, old, at
<1>6. all \in Seq(S) /\ Len(all) = n + Half
  <2>1. all \in Seq(S)
    BY <1>1, <1>2, SeqDef
  <2> QED BY <1>1, <1>2, <2>1, LenProperties
<1>7. old \in Seq(S) /\ Len(old) = n
  <2>1. \A j \in 1 .. n : old[j] \in S
    BY <1>4 DEF S
  <2>2. old \in [1 .. n -> S]
    BY <1>3, <2>1
  <2>3. old \in Seq(S)
    BY <1>1, <2>2, SeqDef
  <2> QED BY <1>1, <1>3, <2>3, LenProperties
<1>8. /\ half \in Seq(S) /\ Len(half) = Half
      /\ \A i \in 1 .. Half : half[i] = W[r + 1][i]
  <2>1. 1 \in Int /\ Half \in Int /\ 1 <= Half /\ Half - 1 + 1 = Half
        /\ \A i \in 1 .. Half : 1 + i - 1 = i
    BY <1>1, SMT
  <2>2. \A i \in 1 .. Half : W[r + 1][i] \in S
    BY <1>5 DEF S
  <2>3. /\ SubSeq(W[r + 1], 1, Half) \in Seq(S)
        /\ Len(SubSeq(W[r + 1], 1, Half)) = IF 1 <= Half THEN Half - 1 + 1 ELSE 0
        /\ \A i \in 1 .. Half - 1 + 1 : SubSeq(W[r + 1], 1, Half)[i] = W[r + 1][1 + i - 1]
    BY <2>1, <2>2, SubSeqProperties
  <2> QED BY <2>1, <2>3
<1> HIDE DEF half
<1>9. /\ old \o half \in Seq(S) /\ Len(old \o half) = n + Half
      /\ \A i \in 1 .. n + Half : (old \o half)[i] = IF i <= n THEN old[i] ELSE half[i - n]
  BY <1>7, <1>8, ConcatProperties
<1>10. \A i \in 1 .. n + Half : all[i] = (old \o half)[i]
  <2> SUFFICES ASSUME NEW i \in 1 .. n + Half PROVE all[i] = (old \o half)[i]
    OBVIOUS
  <2>1. CASE i <= n
    <3>1. i \in 1 .. n
      BY <1>1, <2>1, SMT
    <3> QED BY <1>4, <1>9, <2>1, <3>1
  <2>2. CASE ~ i <= n
    <3>1. i - n \in 1 .. Half /\ n + (i - n) = i
      BY <1>1, <2>2, SMT
    <3>2. half[i - n] = all[i]
      BY <1>5, <1>8, <3>1
    <3> QED BY <1>9, <2>2, <3>2
  <2> QED BY <2>1, <2>2
<1> QED BY <1>6, <1>9, <1>10, SeqEqual DEF all, old, half

(* The number of digests that have been made, from what is to be produced. *)
LEMMA Produced ==
  ASSUME NEW k \in Nat, NEW n \in Nat, NEW t \in Nat, t = n - k * Half
  PROVE  /\ (n - t) \div Half = k
         /\ (n - (t - Half)) \div Half = k + 1
         /\ t - Half = n - (k + 1) * Half
         /\ t > Half /\ t <= BLAKE2B_OUTBYTES => ((n + Half - 1) \div Half) - 2 = k
<1> DEFINE p == Half * k
<1>1. p \in Nat /\ k * Half = p /\ (k + 1) * Half = p + Half /\ Half * (k + 1) = p + Half
      /\ Half * (k + 2) = p + Half + Half /\ k + 1 \in Nat /\ k + 2 \in Nat
  BY EvenHalf, SMT
<1>2. 0 \in 0 .. Half - 1
  BY EvenHalf, SMT
<1>3. (0 + Half * k) \div Half = k
  BY <1>2, EvenHalf, DivMod
<1>4. (0 + Half * (k + 1)) \div Half = k + 1
  BY <1>1, <1>2, EvenHalf, DivMod
<1>5. \A a \in 0 .. Half - 1 : (a + Half * (k + 2)) \div Half = k + 2
  BY <1>1, EvenHalf, DivMod
<1> HIDE DEF p
<1>6. n - t = 0 + p /\ n - (t - Half) = 0 + (p + Half)
  BY <1>1, EvenHalf, SMT
<1>7. t - Half = n - (p + Half)
  BY <1>1, EvenHalf, SMT
<1>8. ASSUME t > Half, t <= BLAKE2B_OUTBYTES
      PROVE  ((n + Half - 1) \div Half) - 2 = k
  <2> DEFINE a == (t - Half) - 1
  <2>1. a \in 0 .. Half - 1 /\ (n + Half - 1) = a + (p + Half + Half)
    BY <1>1, <1>8, EvenHalf, SMT
  <2> HIDE DEF a
  <2>2. (n + Half - 1) \div Half = k + 2
    BY <1>1, <1>5, <2>1
  <2> QED BY <2>2, SMT
<1>9. (n - t) \div Half = k
  BY <1>3, <1>6 DEF p
<1>10. (n - (t - Half)) \div Half = k + 1
  BY <1>1, <1>4, <1>6
<1> QED BY <1>1, <1>7, <1>8, <1>9, <1>10

LEMMA NoHalves ==
  ASSUME NEW V
  PROVE  FirstHalves(V, 0) = <<>>
<1>1. 0 * Half = 0 /\ \A j \in 1 .. 0 : FALSE
  BY EvenHalf, SMT
<1>2. FirstHalves(V, 0) \in [1 .. 0 -> {}] /\ DOMAIN FirstHalves(V, 0) = 1 .. 0
  BY <1>1 DEF FirstHalves
<1>3. 0 \in Nat
  OBVIOUS
<1> HIDE DEF FirstHalves
<1>4. FirstHalves(V, 0) \in Seq({})
  BY <1>2, <1>3, SeqDef
<1>5. Len(FirstHalves(V, 0)) = 0
  BY <1>2, <1>3, <1>4, LenProperties
<1> QED BY <1>4, <1>5, EmptySeq

LEMMA FirstHalf ==
  ASSUME NEW first
  PROVE  /\ Digests(first, 1)[1] = Hash(BLAKE2B_OUTBYTES, first)
         /\ FirstHalves(Digests(first, 1), 1) = SubSeq(Hash(BLAKE2B_OUTBYTES, first), 1, Half)
<1> DEFINE d == Hash(BLAKE2B_OUTBYTES, first)
           half == SubSeq(d, 1, Half)
<1>1. 0 \in Nat /\ 0 + 1 = 1
  BY SMT
<1>2. Digests(first, 1)[1] = d
  BY <1>1, NextDigest
<1>3. \A i \in 1 .. 0 : Digests(first, 1)[i] = Digests(first, 0)[i]
  BY SMT
<1>4. FirstHalves(Digests(first, 1), 0 + 1) =
        FirstHalves(Digests(first, 0), 0) \o SubSeq(Digests(first, 1)[0 + 1], 1, Half)
  BY <1>1, <1>3, OneHalfMore
<1>5. half \in Seq([of : {Chained(BLAKE2B_OUTBYTES, Compressions(first))}, i : Nat])
  BY HalfOf DEF Hash
<1> HIDE DEF d, half
<1>6. <<>> \o half = half
  BY <1>5, ConcatEmptySeq
<1> QED BY <1>1, <1>2, <1>4, <1>6, NoHalves DEF d, half

LongExact == LongSafe /\ LongContents /\ LongIsExact

(* The steps of streaming callers and of updates. *)
LEMMA KeepsContents ==
  ASSUME LongExact, UNCHANGED <<msg, long>>,
         \/ pc' = pc /\ pc \in {"start", "stream", "length", "input", "final"}
         \/ pc' = "stream"
  PROVE  LongContents' /\ LongIsExact'
<1>1. LongIsExact'
  BY DEF LongIsExact
<1>2. LongContents'
  BY DEF LongExact, LongContents, long
<1> QED BY <1>1, <1>2

LEMMA StartContents ==
  ASSUME LongExact, NEW n \in OutLens, NEW m \in Inputs,
         LongTooLong(n, m) \/ LongInit(n, m)
  PROVE  LongContents' /\ LongIsExact'
<1>1. msg = <<>>
  BY DEF LongExact, LongSafe, IInv, LongTooLong, LongInit
<1>2. CASE LongTooLong(n, m)
  <2>1. pc' = "done" /\ ret' # 0
    BY <1>2 DEF LongTooLong
  <2> QED BY <2>1 DEF LongContents, LongIsExact
<1>3. CASE LongInit(n, m)
  <2>1. /\ msg' = <<>> /\ pc' = IF ret' = 0 THEN "length" ELSE "done"
    BY <1>1, <1>3 DEF LongInit, InitCall, Try
  <2> QED BY <2>1 DEF LongContents, LongIsExact
<1> QED BY <1>2, <1>3

LEMMA Absorbed ==
  ASSUME LongSafe, pc \in {"length", "input", "final"}, NEW data \in Seq(Byte),
         UpdateCall(data)
  PROVE  msg' = msg \o data /\ ret' = 0
<1>1. ~ f0 /\ msg \in Seq(Byte)
  BY DEF LongSafe, LongLengths, IInv, StreamTypeOK
<1>2. CASE data = <<>>
  <2>1. msg' = msg
    BY <1>2 DEF UpdateCall, UpdateNothing, UpdateRefused, UpdateBuffers, UpdateCompletes
  <2>2. ret' = 0
    BY <1>2 DEF UpdateCall, UpdateNothing, UpdateRefused, UpdateBuffers, UpdateCompletes
  <2> QED BY <1>1, <1>2, <2>1, <2>2, ConcatEmptySeq
<1>3. CASE data # <<>>
  <2>1. msg' = msg \o data
    BY <1>1, <1>3 DEF UpdateCall, UpdateNothing, UpdateRefused, UpdateBuffers, UpdateCompletes
  <2>2. ret' = 0 \/ ret' = ret
    BY <1>1, <1>3 DEF UpdateCall, UpdateNothing, UpdateRefused, UpdateBuffers, UpdateCompletes
  <2>3. ret = 0
    BY DEF LongSafe, LongLengths
  <2> QED BY <2>1, <2>2, <2>3
<1> QED BY <1>2, <1>3

LEMMA UpdateContents ==
  ASSUME LongExact, LongLength \/ LongInput
  PROVE  LongContents' /\ LongIsExact'
<1>1. /\ in \in Seq(Byte) /\ LengthBytes(outlen) \in Seq(Byte) /\ LongSafe
      /\ UNCHANGED <<outlen, in>>
  BY LengthBytesType DEF LongExact, LongSafe, IInv, LongLength, LongInput, long
<1>2. CASE LongLength
  <2>1. /\ msg = <<>> /\ msg' = msg \o LengthBytes(outlen) /\ ret' = 0
        /\ pc' = "input"
    <3>1. pc = "length" /\ UpdateCall(LengthBytes(outlen)) /\ msg = <<>>
      BY <1>2 DEF LongLength, LongExact, LongContents
    <3>2. msg' = msg \o LengthBytes(outlen) /\ ret' = 0
      BY <1>1, <3>1, Absorbed
    <3> QED BY <1>2, <3>1, <3>2 DEF LongLength, Try
  <2>2. msg' = LengthBytes(outlen')
    BY <1>1, <2>1, ConcatEmptySeq
  <2> QED BY <2>1, <2>2 DEF LongContents, LongIsExact
<1>3. CASE LongInput
  <2>1. /\ msg = LengthBytes(outlen) /\ msg' = msg \o in /\ ret' = 0
        /\ pc' = "final"
    <3>1. pc = "input" /\ UpdateCall(in) /\ msg = LengthBytes(outlen)
      BY <1>3 DEF LongInput, LongExact, LongContents
    <3>2. msg' = msg \o in /\ ret' = 0
      BY <1>1, <3>1, Absorbed
    <3> QED BY <1>3, <3>1, <3>2 DEF LongInput, Try
  <2>2. msg' = LengthBytes(outlen') \o in'
    BY <1>1, <2>1
  <2> QED BY <2>1, <2>2 DEF LongContents, LongIsExact
<1> QED BY <1>2, <1>3

LEMMA FinishContents ==
  ASSUME LongExact, IInv', LongFinal
  PROVE  LongContents' /\ LongIsExact'
<1> DEFINE first == LengthBytes(outlen) \o in
           len == FirstLength(outlen)
<1>1. /\ ~ f0 /\ outlen \in 1 .. UINT32_MAX /\ outlen \in Nat /\ digest_length = len
      /\ msg = first /\ UNCHANGED <<outlen, in>> /\ FinalCall(len)
  BY DEF LongFinal, LongExact, LongContents, LongSafe, LongLengths, TypeOK
<1>2. len \in Nat /\ len >= 1
  BY <1>1, EvenHalf, SMT DEF FirstLength
<1>3. Finish(len)
  <2>1. ~ len < digest_length
    BY <1>1, <1>2, SMT
  <2> QED BY <1>1, <2>1 DEF FinalCall, FinalRefused
<1>4. /\ ret' = 0 /\ msg' = msg /\ digest_length' = len
      /\ digest' = DigestBytes(len, Compressed(Padded, buflen, TRUE))
  BY <1>1, <1>3 DEF Finish
<1>5. digest' # <<>>
  <2> DEFINE c == Compressed(Padded, buflen, TRUE)
  <2> HIDE DEF c
  <2>1. Len(DigestBytes(len, c)) = len
    BY <1>2, DigestLength
  <2>2. DigestBytes(len, c) # <<>>
    BY <1>2, <2>1, EmptySeq, SMT
  <2> QED BY <1>4, <2>2 DEF c
<1>6. digest' = Hash(len, first)
  BY <1>1, <1>4, <1>5 DEF IInv, DigestOfMessage
<1> HIDE DEF first
<1>7. CASE outlen <= BLAKE2B_OUTBYTES
  <2>1. len = outlen /\ pc' = "done" /\ out' = Hash(outlen, first)
    BY <1>4, <1>6, <1>7 DEF LongFinal, Try, FirstLength
  <2>2. LongIsExact'
    BY <1>1, <1>7, <2>1 DEF LongIsExact, LongHash, first
  <2> QED BY <2>1, <2>2 DEF LongContents
<1>8. CASE ~ outlen <= BLAKE2B_OUTBYTES
  <2> DEFINE d == Hash(BLAKE2B_OUTBYTES, first)
  <2>1. /\ pc' = "expand" /\ toproduce' = outlen - Half /\ out' = SubSeq(d, 1, Half)
        /\ out_buffer' = d
    BY <1>4, <1>6, <1>8 DEF LongFinal, Try, FirstLength
  <2>2. d = Digests(first, 1)[1] /\ SubSeq(d, 1, Half) = FirstHalves(Digests(first, 1), 1)
    BY FirstHalf
  <2> HIDE DEF d
  <2>3. /\ toproduce' \in Nat /\ toproduce' > Half /\ outlen > BLAKE2B_OUTBYTES
        /\ 1 \in Nat /\ toproduce' = outlen - 1 * Half /\ 1 >= 1
    BY <1>1, <1>8, <2>1, EvenHalf, SMT
  <2>4. (outlen - toproduce') \div Half = 1
    BY <1>1, <2>3, Produced
  <2>5. LongContents'
    BY <1>1, <2>1, <2>2, <2>3, <2>4 DEF LongContents, first
  <2>6. LongIsExact'
    BY <2>1 DEF LongIsExact
  <2> QED BY <2>5, <2>6
<1> QED BY <1>7, <1>8

LEMMA MoreContents ==
  ASSUME LongExact, LongExpand \/ LongLast
  PROVE  LongContents' /\ LongIsExact'
<1> DEFINE first == LengthBytes(outlen) \o in
           k == (outlen - toproduce) \div Half
<1>1. /\ pc = "expand" /\ outlen \in 1 .. UINT32_MAX /\ outlen \in Nat
      /\ toproduce \in Nat /\ UNCHANGED <<outlen, in>>
      /\ k >= 1 /\ toproduce = outlen - k * Half
      /\ toproduce > Half /\ outlen > BLAKE2B_OUTBYTES
      /\ out_buffer = Digests(first, k)[k]
      /\ out = FirstHalves(Digests(first, k), k)
  BY DEF LongExpand, LongLast, LongExact, LongContents, LongSafe, LongLengths, TypeOK
<1>2. k \in Nat
  <2>1. k \in Int
    BY <1>1, EvenHalf, SMT
  <2> HIDE DEF k
  <2> QED BY <1>1, <2>1, SMT
<1> HIDE DEF first, k
<1>3. CASE LongExpand
  <2>1. ~ BadLength(BLAKE2B_OUTBYTES)
    BY EvenHalf, SMT DEF BadLength
  <2> DEFINE d == Hash(BLAKE2B_OUTBYTES, out_buffer)
  <2>2. /\ ret' = 0 /\ pc' = "expand" /\ out_buffer' = d
        /\ out' = out \o SubSeq(d, 1, Half)
        /\ toproduce' = toproduce - Half /\ toproduce > BLAKE2B_OUTBYTES
    BY <1>3, <2>1 DEF LongExpand, MoreToProduce, Blake2bCall, Try
  <2>3. k # 0 /\ k + 1 >= 1
    BY <1>1, <1>2, SMT
  <2>4. /\ d = Digests(first, k + 1)[k + 1]
        /\ \A i \in 1 .. k : Digests(first, k + 1)[i] = Digests(first, k)[i]
    BY <1>1, <1>2, <2>3, NextDigest
  <2> HIDE DEF d
  <2>5. out' = FirstHalves(Digests(first, k + 1), k + 1)
    BY <1>1, <1>2, <2>2, <2>4, OneHalfMore
  <2>6. /\ (outlen - toproduce') \div Half = k + 1
        /\ toproduce' = outlen - (k + 1) * Half
    BY <1>1, <1>2, <2>2, Produced
  <2>7. toproduce' > Half
    BY <1>1, <2>2, EvenHalf, SMT
  <2>8. LongContents'
    BY <1>1, <2>2, <2>3, <2>4, <2>5, <2>6, <2>7 DEF LongContents, first
  <2> QED BY <2>2, <2>8 DEF LongIsExact
<1>4. CASE LongLast
  <2>1. toproduce <= BLAKE2B_OUTBYTES /\ ~ BadLength(toproduce)
    BY <1>1, <1>4, EvenHalf, SMT DEF LongLast, MoreToProduce, BadLength
  <2>2. /\ ret' = 0 /\ pc' = "done" /\ out' = out \o Hash(toproduce, out_buffer)
    BY <1>4, <2>1 DEF LongLast, Blake2bCall
  <2>3. ((outlen + Half - 1) \div Half) - 2 = k
    BY <1>1, <1>2, <2>1, Produced
  <2>4. ~ outlen <= BLAKE2B_OUTBYTES
    BY <1>1, EvenHalf, SMT
  <2>5. LongHash(outlen, in) =
          FirstHalves(Digests(first, k), k) \o Hash(toproduce, Digests(first, k)[k])
    BY <1>1, <2>3, <2>4 DEF LongHash, first
  <2>6. LongIsExact'
    BY <1>1, <2>2, <2>5 DEF LongIsExact
  <2> QED BY <2>2, <2>6 DEF LongContents
<1> QED BY <1>3, <1>4

LEMMA LongExactNext == LongExact /\ [Next]_vars => LongExact'
<1> SUFFICES ASSUME LongExact, [Next]_vars PROVE LongExact' OBVIOUS
<1>1. LongSafe /\ LongSafe' /\ IInv'
  BY LongNextInv DEF LongExact, LongSafe
<1> SUFFICES LongContents' /\ LongIsExact'
  BY <1>1 DEF LongExact
<1>2. ASSUME NEW n \in StreamLens, StreamInit(n) \/ StreamFinal(n)
      PROVE  LongContents' /\ LongIsExact'
  <2>1. UNCHANGED <<msg, long>> /\ pc' = "stream"
    BY <1>2 DEF StreamInit, StreamFinal, InitCall, FinalCall, FinalRefused, Finish
  <2> QED BY <2>1, KeepsContents
<1>3. ASSUME NEW data \in Inputs, StreamUpdate(data)
      PROVE  LongContents' /\ LongIsExact'
  <2>1. pc' = "stream"
    BY <1>3 DEF StreamUpdate
  <2> QED BY <2>1 DEF LongContents, LongIsExact
<1>4. CASE Update
  <2>1. inlen # 0
    BY <1>4, BlockSize, SMT DEF Update, UpdateLoop, UpdateCopy
  <2>2. UNCHANGED <<pc, msg, long>>
    BY <1>4 DEF Update, UpdateLoop, UpdateCopy
  <2>3. pc \in {"start", "stream", "length", "input", "final"}
    BY <1>1, <2>1 DEF LongSafe, LongLengths, TypeOK
  <2> QED BY <2>2, <2>3, KeepsContents
<1>5. ASSUME NEW n \in OutLens, NEW m \in Inputs, LongTooLong(n, m) \/ LongInit(n, m)
      PROVE  LongContents' /\ LongIsExact'
  BY <1>5, StartContents
<1>6. CASE LongLength \/ LongInput
  BY <1>6, UpdateContents
<1>7. CASE LongFinal
  BY <1>1, <1>7, FinishContents
<1>8. CASE LongExpand \/ LongLast
  BY <1>8, MoreContents
<1>9. CASE UNCHANGED vars
  BY <1>9 DEF LongExact, LongContents, LongIsExact, vars, stream, long
<1> QED BY <1>2, <1>3, <1>4, <1>5, <1>6, <1>7, <1>8, <1>9
        DEF Next, Stream, Long, Returned

LEMMA LongExactInit == Init => LongExact
<1> SUFFICES ASSUME Init PROVE LongExact OBVIOUS
<1>1. pc = "start"
  BY DEF Init
<1> QED BY <1>1, LongInitInv DEF LongExact, LongContents, LongIsExact

(* Until it returns, a call of passe_blake2b_long has had no error; it has
   produced, or has still to produce, all that was asked for, and what it has
   produced are the first halves of the digests made so far.                *)
THEOREM LongInvariance == Spec => []LongInv
<1>1. LongExact => LongInv
  BY DEF LongExact, LongSafe, LongInv
<1> QED BY <1>1, LongExactInit, LongExactNext, PTL DEF Spec

(* It fails for a length of zero or beyond 32 bits, and never else. *)
THEOREM LongNeverFails == Spec => []LongSucceeds
<1>1. LongInv => LongSucceeds
  BY DEF LongInv, LongLengths
<1> QED BY <1>1, LongInvariance, PTL

(* It fills its buffer with the variable-length hash of its input: no half of a
   digest is lost or repeated, whatever the length asked for.               *)
THEOREM LongOutput == Spec => []LongIsExact
<1>1. LongExact => LongIsExact
  BY DEF LongExact
<1> QED BY <1>1, LongExactInit, LongExactNext, PTL DEF Spec

=============================================================================
