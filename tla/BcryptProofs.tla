---------------------------- MODULE BcryptProofs ----------------------------
(***************************************************************************)
(* What the key schedule and the base64 of bcrypt do to every input, and     *)
(* what follows for the calls: a bcrypt hash verifies for its password and   *)
(* for no other, for every password, salt and cost that bcrypt.ml and        *)
(* bcrypt.c let through, and any sequence of calls.                          *)
(***************************************************************************)
EXTENDS Bcrypt, SequenceTheorems, TLAPS

(***************************************************************************)
(* The key schedule.                                                         *)
(***************************************************************************)

(* The passwords that reach bcrypt: bcrypt.ml refuses the longer ones and
   bcrypt_stub.c those with a NUL.                                          *)
Password(p) ==
  /\ p \in Seq(1 .. Byte - 1)
  /\ Len(p) <= MaxPassword

LEMMA PasswordByte ==
  ASSUME NEW p, Password(p), NEW i \in 1 .. Len(p)
  PROVE  Len(p) \in Nat /\ p[i] \in 1 .. Byte - 1
<1> DEFINE S == 1 .. Byte - 1
<1>1. p \in Seq(S)
  BY DEF Password
<1> HIDE DEF S
<1>2. p[i] \in S /\ Len(p) \in Nat
  BY <1>1, ElementOfSeq
<1> QED
  BY <1>2 DEF S

(* Such a password is read to its end, and its length is not cut short. *)
LEMMA KeyLengthIsLength ==
  ASSUME NEW p, Password(p), NEW minor \in {"a", "b"}
  PROVE  KeyLength(minor, p) = Len(p) + 1
<1>1. Len(p) \in Nat /\ \A i \in 1 .. Len(p) : p[i] \in 1 .. Byte - 1
  BY PasswordByte DEF Password
<1>2. strlen(p) = Len(p)
  BY <1>1, KeyAssumption DEF strlen, HasNul
<1>3. (Len(p) + 1) % Byte = Len(p) + 1
  <2>1. Len(p) + 1 \in 0 .. Byte - 1
    BY <1>1, KeyAssumption DEF Password
  <2> QED
    BY <2>1, KeyAssumption
<1> QED
  BY <1>1, <1>2, <1>3, KeyAssumption DEF KeyLength, Password

(* The stream begins with the password and its NUL. *)
LEMMA StreamStarts ==
  ASSUME NEW p, Password(p), NEW minor \in {"a", "b"},
         NEW j \in 0 .. MaxPassword - 1, j <= Len(p)
  PROVE  KeyStream(minor, p)[j] = IF j < Len(p) THEN p[j + 1] ELSE 0
<1>1. Len(p) \in Nat /\ p \in Seq(1 .. Byte - 1)
  BY DEF Password
<1>2. KeyLength(minor, p) = Len(p) + 1
  BY KeyLengthIsLength
<1>3. j % (Len(p) + 1) = j
  BY <1>1, KeyAssumption, SMT
<1>4. StreamIndex(KeyLength(minor, p), j) = j
  BY <1>1, <1>2, <1>3 DEF StreamIndex
<1>5. Append(p, 0)[j + 1] = IF j < Len(p) THEN p[j + 1] ELSE 0
  BY <1>1, KeyAssumption
<1> QED
  BY <1>4, <1>5 DEF KeyStream, CString

(* No two passwords hash alike: the streams that bcrypt expands, cyclic as they
   are, differ for different passwords, whichever minor version each is
   hashed under (bcrypt.c, bcrypt.ml's limit of 72, bcrypt_stub.c's NULs).  *)
THEOREM KeyStreamInjective ==
  ASSUME NEW p, Password(p), NEW q, Password(q),
         NEW m \in {"a", "b"}, NEW n \in {"a", "b"},
         KeyStream(m, p) = KeyStream(n, q)
  PROVE  p = q
<1>1. /\ p \in Seq(1 .. Byte - 1) /\ q \in Seq(1 .. Byte - 1)
      /\ Len(p) \in Nat /\ Len(q) \in Nat
      /\ Len(p) <= MaxPassword /\ Len(q) <= MaxPassword
  BY DEF Password
<1>2. ~ Len(p) < Len(q)
  <2> SUFFICES ASSUME Len(p) < Len(q) PROVE FALSE
    OBVIOUS
  <2>1. Len(p) \in 0 .. MaxPassword - 1
    BY <1>1, KeyAssumption
  <2>2. KeyStream(m, p)[Len(p)] = 0
    BY <1>1, <2>1, StreamStarts
  <2>3. KeyStream(n, q)[Len(p)] = q[Len(p) + 1]
    BY <1>1, <2>1, StreamStarts
  <2>4. q[Len(p) + 1] \in 1 .. Byte - 1
    BY <1>1, PasswordByte
  <2> QED
    BY <2>2, <2>3, <2>4, KeyAssumption
<1>3. ~ Len(q) < Len(p)
  <2> SUFFICES ASSUME Len(q) < Len(p) PROVE FALSE
    OBVIOUS
  <2>1. Len(q) \in 0 .. MaxPassword - 1
    BY <1>1, KeyAssumption
  <2>2. KeyStream(n, q)[Len(q)] = 0
    BY <1>1, <2>1, StreamStarts
  <2>3. KeyStream(m, p)[Len(q)] = p[Len(q) + 1]
    BY <1>1, <2>1, StreamStarts
  <2>4. p[Len(q) + 1] \in 1 .. Byte - 1
    BY <1>1, PasswordByte
  <2> QED
    BY <2>2, <2>3, <2>4, KeyAssumption
<1>4. Len(p) = Len(q)
  BY <1>1, <1>2, <1>3
<1>5. ASSUME NEW i \in 1 .. Len(p) PROVE p[i] = q[i]
  <2>1. i - 1 \in 0 .. MaxPassword - 1 /\ i - 1 < Len(p) /\ i - 1 < Len(q)
    BY <1>1, <1>4, KeyAssumption
  <2>2. KeyStream(m, p)[i - 1] = p[i - 1 + 1]
    BY <1>1, <2>1, StreamStarts
  <2>3. KeyStream(n, q)[i - 1] = q[i - 1 + 1]
    BY <1>1, <2>1, StreamStarts
  <2> QED
    BY <1>1, <2>2, <2>3
<1> QED
  BY <1>1, <1>4, <1>5

(* The buffers of bcrypt_stub.c and BCRYPT_HASHSPACE have room for what is
   encoded into them and its NUL.                                           *)
THEOREM BuffersHaveRoom ==
  /\ \A n \in Nat : EncodedLength(n) + 1 <= 4 * ((n + 2) \div 3) + 1
  /\ 7 + EncodedLength(16) + EncodedLength(23) + 1 <= 61
BY SMT DEF EncodedLength

(***************************************************************************)
(* Base64: encoding and decoding again gives the same bytes.                 *)
(***************************************************************************)

LEMMA BytesAreSeq ==
  ASSUME NEW n \in Nat, NEW S, NEW d \in [1 .. n -> S]
  PROVE  d \in Seq(S) /\ Len(d) = n
<1>1. d \in Seq(S)
  BY SeqDef
<1>2. DOMAIN d = 1 .. n
  OBVIOUS
<1>3. Len(d) = n
  BY <1>1, <1>2, LenProperties
<1> QED BY <1>1, <1>3

LEMMA EncodedLengthFits ==
  ASSUME NEW n \in Nat
  PROVE  /\ EncodedLength(n) \in Nat
         /\ (EncodedLength(n) * 3) \div 4 >= n
BY SMT DEF EncodedLength

LEMMA ItemIsByte ==
  ASSUME NEW n \in Nat, NEW d \in [1 .. n -> Bytes], NEW i \in Nat, i >= 1
  PROVE  ItemAt(d, i) \in 0 .. 255
<1>1. Len(d) = n
  BY BytesAreSeq
<1> QED BY <1>1, SMT DEF ItemAt, Bytes

LEMMA EncodedChar ==
  ASSUME NEW n \in Nat, NEW d \in [1 .. n -> Bytes], NEW k \in Nat, k >= 1
  PROVE  EncodeAt(d, k) \in Chars
<1> DEFINE g == 3 * ((k - 1) \div 4)
           a == ItemAt(d, g + 1)
           b == ItemAt(d, g + 2)
           c == ItemAt(d, g + 3)
<1>1. g \in Nat /\ g + 1 \in Nat /\ g + 1 >= 1 /\ g + 2 \in Nat /\ g + 2 >= 1
      /\ g + 3 \in Nat /\ g + 3 >= 1
  BY SMT
<1>2. a \in 0 .. 255 /\ b \in 0 .. 255 /\ c \in 0 .. 255
  <2> HIDE DEF g
  <2> QED BY <1>1, ItemIsByte
<1>3. EncodeAt(d, k) = CASE (k - 1) % 4 = 0 -> a \div 4
                         [] (k - 1) % 4 = 1 -> (a % 4) * 16 + b \div 16
                         [] (k - 1) % 4 = 2 -> (b % 16) * 4 + c \div 64
                         [] (k - 1) % 4 = 3 -> c % 64
  BY DEF EncodeAt
<1> HIDE DEF a, b, c
<1>4. (k - 1) % 4 \in {0, 1, 2, 3}
  BY SMT
<1>5. /\ a \div 4 \in 0 .. 63
      /\ (a % 4) * 16 + b \div 16 \in 0 .. 63
      /\ (b % 16) * 4 + c \div 64 \in 0 .. 63
      /\ c % 64 \in 0 .. 63
  BY <1>2, SMT
<1> QED BY <1>3, <1>4, <1>5 DEF Chars

LEMMA EncodeType ==
  ASSUME NEW n \in Nat, NEW d \in [1 .. n -> Bytes]
  PROVE  /\ Encode(d) \in [1 .. EncodedLength(n) -> Chars]
         /\ Encode(d) \in Seq(Chars) /\ Len(Encode(d)) = EncodedLength(n)
         /\ \A k \in 1 .. EncodedLength(n) : Encode(d)[k] = EncodeAt(d, k)
         /\ Decodable(n, Encode(d))
<1>1. Len(d) = n /\ EncodedLength(n) \in Nat
  BY BytesAreSeq, EncodedLengthFits
<1>2. Encode(d) = [k \in 1 .. EncodedLength(n) |-> EncodeAt(d, k)]
  BY <1>1 DEF Encode
<1>3. \A k \in 1 .. EncodedLength(n) : EncodeAt(d, k) \in Chars
  <2> TAKE k \in 1 .. EncodedLength(n)
  <2>1. k \in Nat /\ k >= 1
    BY <1>1, SMT
  <2> QED BY <2>1, EncodedChar
<1>4. Encode(d) \in [1 .. EncodedLength(n) -> Chars]
  BY <1>2, <1>3
<1>5. Encode(d) \in Seq(Chars) /\ Len(Encode(d)) = EncodedLength(n)
  BY <1>1, <1>4, BytesAreSeq
<1>6. Decodable(n, Encode(d))
  BY <1>1, <1>4, <1>5, SMT DEF Decodable
<1> QED BY <1>2, <1>4, <1>5, <1>6

(* Four characters carry the three bytes they were made from. *)
LEMMA Carried ==
  ASSUME NEW a \in 0 .. 255, NEW b \in 0 .. 255, NEW c \in 0 .. 255
  PROVE  /\ (a \div 4) * 4 + ((a % 4) * 16 + b \div 16) \div 16 = a
         /\ (((a % 4) * 16 + b \div 16) % 16) * 16 + ((b % 16) * 4 + c \div 64) \div 4 = b
         /\ (((b % 16) * 4 + c \div 64) % 4) * 64 + (c % 64) = c
<1>1. (a \div 4) * 4 + (a % 4) = a /\ a % 4 \in 0 .. 3 /\ a \div 4 \in Nat
  BY SMT
<1>2. (b \div 16) * 16 + (b % 16) = b /\ b % 16 \in 0 .. 15 /\ b \div 16 \in 0 .. 15
  BY SMT
<1>3. (c \div 64) * 64 + (c % 64) = c /\ c % 64 \in 0 .. 63 /\ c \div 64 \in 0 .. 3
  BY SMT
<1>4. ((a % 4) * 16 + b \div 16) \div 16 = a % 4
  BY <1>1, <1>2, SMT
<1>5. ((a % 4) * 16 + b \div 16) % 16 = b \div 16
  BY <1>1, <1>2, SMT
<1>6. ((b % 16) * 4 + c \div 64) \div 4 = b % 16
  BY <1>2, <1>3, SMT
<1>7. ((b % 16) * 4 + c \div 64) % 4 = c \div 64
  BY <1>2, <1>3, SMT
<1> QED BY <1>1, <1>2, <1>3, <1>4, <1>5, <1>6, <1>7, SMT

(* Where byte i and its characters are. *)
LEMMA Groups ==
  ASSUME NEW n \in Nat, NEW i \in 1 .. n
  PROVE  \E q \in Nat, r \in {0, 1, 2} :
            /\ i = 3 * q + r + 1 /\ (i - 1) \div 3 = q /\ (i - 1) % 3 = r
            /\ 4 * q + r + 2 <= EncodedLength(n)
<1> DEFINE q == (i - 1) \div 3
           r == (i - 1) % 3
<1>1. q \in Nat /\ r \in {0, 1, 2} /\ i = 3 * q + r + 1
  BY SMT
<1>2. 4 * q + r + 2 <= EncodedLength(n)
  <2>1. 3 * q + r + 1 <= n
    BY <1>1, SMT
  <2> HIDE DEF q, r
  <2> QED BY <1>1, <2>1, SMT DEF EncodedLength
<1> QED BY <1>1, <1>2

(* EncodeAt and DecodeAt by group. *)
LEMMA EncodeAtGroup ==
  ASSUME NEW d, NEW q \in Nat
  PROVE  LET a == ItemAt(d, 3 * q + 1)
             b == ItemAt(d, 3 * q + 2)
             c == ItemAt(d, 3 * q + 3)
         IN  /\ EncodeAt(d, 4 * q + 1) = a \div 4
             /\ EncodeAt(d, 4 * q + 2) = (a % 4) * 16 + b \div 16
             /\ EncodeAt(d, 4 * q + 3) = (b % 16) * 4 + c \div 64
             /\ EncodeAt(d, 4 * q + 4) = c % 64
<1> DEFINE a == ItemAt(d, 3 * q + 1)
           b == ItemAt(d, 3 * q + 2)
           c == ItemAt(d, 3 * q + 3)
<1>1. ASSUME NEW k \in Nat, (k - 1) \div 4 = q, NEW r, (k - 1) % 4 = r
      PROVE  EncodeAt(d, k) = CASE r = 0 -> a \div 4
                                [] r = 1 -> (a % 4) * 16 + b \div 16
                                [] r = 2 -> (b % 16) * 4 + c \div 64
                                [] r = 3 -> c % 64
  BY <1>1 DEF EncodeAt
<1> HIDE DEF a, b, c
<1>2. /\ 4 * q + 1 \in Nat /\ 4 * q + 2 \in Nat /\ 4 * q + 3 \in Nat /\ 4 * q + 4 \in Nat
      /\ ((4 * q + 1) - 1) \div 4 = q /\ ((4 * q + 1) - 1) % 4 = 0
      /\ ((4 * q + 2) - 1) \div 4 = q /\ ((4 * q + 2) - 1) % 4 = 1
      /\ ((4 * q + 3) - 1) \div 4 = q /\ ((4 * q + 3) - 1) % 4 = 2
      /\ ((4 * q + 4) - 1) \div 4 = q /\ ((4 * q + 4) - 1) % 4 = 3
  BY SMT
<1>3. EncodeAt(d, 4 * q + 1) = a \div 4
  <2>1. EncodeAt(d, 4 * q + 1) = CASE 0 = 0 -> a \div 4
                                   [] 0 = 1 -> (a % 4) * 16 + b \div 16
                                   [] 0 = 2 -> (b % 16) * 4 + c \div 64
                                   [] 0 = 3 -> c % 64
    BY <1>1, <1>2
  <2> QED BY <2>1, SMT
<1>4. EncodeAt(d, 4 * q + 2) = (a % 4) * 16 + b \div 16
  <2>1. EncodeAt(d, 4 * q + 2) = CASE 1 = 0 -> a \div 4
                                   [] 1 = 1 -> (a % 4) * 16 + b \div 16
                                   [] 1 = 2 -> (b % 16) * 4 + c \div 64
                                   [] 1 = 3 -> c % 64
    BY <1>1, <1>2
  <2> QED BY <2>1, SMT
<1>5. EncodeAt(d, 4 * q + 3) = (b % 16) * 4 + c \div 64
  <2>1. EncodeAt(d, 4 * q + 3) = CASE 2 = 0 -> a \div 4
                                   [] 2 = 1 -> (a % 4) * 16 + b \div 16
                                   [] 2 = 2 -> (b % 16) * 4 + c \div 64
                                   [] 2 = 3 -> c % 64
    BY <1>1, <1>2
  <2> QED BY <2>1, SMT
<1>6. EncodeAt(d, 4 * q + 4) = c % 64
  <2>1. EncodeAt(d, 4 * q + 4) = CASE 3 = 0 -> a \div 4
                                   [] 3 = 1 -> (a % 4) * 16 + b \div 16
                                   [] 3 = 2 -> (b % 16) * 4 + c \div 64
                                   [] 3 = 3 -> c % 64
    BY <1>1, <1>2
  <2> QED BY <2>1, SMT
<1> QED BY <1>3, <1>4, <1>5, <1>6 DEF a, b, c

LEMMA DecodeAtGroup ==
  ASSUME NEW chars, NEW i, NEW q \in Nat, (i - 1) \div 3 = q
  PROVE  LET a == ItemAt(chars, 4 * q + 1)
             b == ItemAt(chars, 4 * q + 2)
             c == ItemAt(chars, 4 * q + 3)
             e == ItemAt(chars, 4 * q + 4)
         IN  /\ (i - 1) % 3 = 0 => DecodeAt(chars, i) = a * 4 + b \div 16
             /\ (i - 1) % 3 = 1 => DecodeAt(chars, i) = (b % 16) * 16 + c \div 4
             /\ (i - 1) % 3 = 2 => DecodeAt(chars, i) = (c % 4) * 64 + e
<1> DEFINE a == ItemAt(chars, 4 * q + 1)
           b == ItemAt(chars, 4 * q + 2)
           c == ItemAt(chars, 4 * q + 3)
           e == ItemAt(chars, 4 * q + 4)
           r == (i - 1) % 3
<1>1. DecodeAt(chars, i) = CASE r = 0 -> a * 4 + b \div 16
                             [] r = 1 -> (b % 16) * 16 + c \div 4
                             [] r = 2 -> (c % 4) * 64 + e
  BY DEF DecodeAt
<1> HIDE DEF a, b, c, e, r
<1>2. /\ r = 0 => DecodeAt(chars, i) = a * 4 + b \div 16
      /\ r = 1 => DecodeAt(chars, i) = (b % 16) * 16 + c \div 4
      /\ r = 2 => DecodeAt(chars, i) = (c % 4) * 64 + e
  BY <1>1, SMT
<1> QED BY <1>2 DEF a, b, c, e, r

THEOREM RoundTrip ==
  ASSUME NEW n \in Nat, NEW d \in [1 .. n -> Bytes]
  PROVE  Decode(n, Encode(d)) = d
<1> SUFFICES ASSUME NEW i \in 1 .. n PROVE DecodeAt(Encode(d), i) = d[i]
  BY DEF Decode
<1>1. PICK q \in Nat, r \in {0, 1, 2} :
        /\ i = 3 * q + r + 1 /\ (i - 1) \div 3 = q /\ (i - 1) % 3 = r
        /\ 4 * q + r + 2 <= EncodedLength(n)
  BY Groups
<1> DEFINE a == ItemAt(d, 3 * q + 1)
           b == ItemAt(d, 3 * q + 2)
           c == ItemAt(d, 3 * q + 3)
           e == Encode(d)
<1>2. a \in 0 .. 255 /\ b \in 0 .. 255 /\ c \in 0 .. 255
  <2>1. /\ 3 * q + 1 \in Nat /\ 3 * q + 2 \in Nat /\ 3 * q + 3 \in Nat
        /\ 3 * q + 1 >= 1 /\ 3 * q + 2 >= 1 /\ 3 * q + 3 >= 1
    BY SMT
  <2> QED BY <2>1, ItemIsByte
<1>3. /\ EncodedLength(n) \in Nat /\ Len(e) = EncodedLength(n) /\ Len(d) = n
      /\ \A k \in 1 .. EncodedLength(n) : e[k] = EncodeAt(d, k)
  BY EncodeType, EncodedLengthFits, BytesAreSeq
<1> HIDE DEF e
<1>4. \A k \in Nat : k >= 1 /\ k <= EncodedLength(n) => ItemAt(e, k) = EncodeAt(d, k)
  BY <1>3, SMT DEF ItemAt
<1>5. /\ EncodeAt(d, 4 * q + 1) = a \div 4
      /\ EncodeAt(d, 4 * q + 2) = (a % 4) * 16 + b \div 16
      /\ EncodeAt(d, 4 * q + 3) = (b % 16) * 4 + c \div 64
      /\ EncodeAt(d, 4 * q + 4) = c % 64
  BY EncodeAtGroup
<1>6. /\ (a \div 4) * 4 + ((a % 4) * 16 + b \div 16) \div 16 = a
      /\ (((a % 4) * 16 + b \div 16) % 16) * 16 + ((b % 16) * 4 + c \div 64) \div 4 = b
      /\ (((b % 16) * 4 + c \div 64) % 4) * 64 + (c % 64) = c
  <2> HIDE DEF a, b, c
  <2>1. \A x, y, z \in 0 .. 255 :
          /\ (x \div 4) * 4 + ((x % 4) * 16 + y \div 16) \div 16 = x
          /\ (((x % 4) * 16 + y \div 16) % 16) * 16 + ((y % 16) * 4 + z \div 64) \div 4 = y
          /\ (((y % 16) * 4 + z \div 64) % 4) * 64 + (z % 64) = z
    BY Carried
  <2> QED BY <1>2, <2>1, ZenonT(60)
<1>7. CASE r = 0
  <2>1. a = d[i]
    BY <1>1, <1>3, <1>7, SMT DEF ItemAt
  <2>2. ItemAt(e, 4 * q + 1) = a \div 4 /\ ItemAt(e, 4 * q + 2) = (a % 4) * 16 + b \div 16
    <3>1. 4 * q + 1 <= EncodedLength(n) /\ 4 * q + 2 <= EncodedLength(n)
      BY <1>1, <1>3, <1>7, SMT
    <3> HIDE DEF a, b, c
    <3> QED BY <1>4, <1>5, <3>1
  <2>3. DecodeAt(e, i) = ItemAt(e, 4 * q + 1) * 4 + ItemAt(e, 4 * q + 2) \div 16
    BY <1>1, <1>7, DecodeAtGroup
  <2> HIDE DEF a, b, c
  <2> QED BY <1>6, <2>1, <2>2, <2>3 DEF e
<1>8. CASE r = 1
  <2>1. b = d[i]
    BY <1>1, <1>3, <1>8, SMT DEF ItemAt
  <2>2. /\ ItemAt(e, 4 * q + 2) = (a % 4) * 16 + b \div 16
        /\ ItemAt(e, 4 * q + 3) = (b % 16) * 4 + c \div 64
    <3>1. 4 * q + 2 <= EncodedLength(n) /\ 4 * q + 3 <= EncodedLength(n)
      BY <1>1, <1>3, <1>8, SMT
    <3> HIDE DEF a, b, c
    <3> QED BY <1>4, <1>5, <3>1
  <2>3. DecodeAt(e, i) = (ItemAt(e, 4 * q + 2) % 16) * 16 + ItemAt(e, 4 * q + 3) \div 4
    BY <1>1, <1>8, DecodeAtGroup
  <2> HIDE DEF a, b, c
  <2> QED BY <1>6, <2>1, <2>2, <2>3 DEF e
<1>9. CASE r = 2
  <2>1. c = d[i]
    BY <1>1, <1>3, <1>9, SMT DEF ItemAt
  <2>2. /\ ItemAt(e, 4 * q + 3) = (b % 16) * 4 + c \div 64
        /\ ItemAt(e, 4 * q + 4) = c % 64
    <3>1. 4 * q + 3 <= EncodedLength(n) /\ 4 * q + 4 <= EncodedLength(n)
      BY <1>1, <1>3, <1>9, SMT
    <3> HIDE DEF a, b, c
    <3> QED BY <1>4, <1>5, <3>1
  <2>3. DecodeAt(e, i) = (ItemAt(e, 4 * q + 3) % 4) * 64 + ItemAt(e, 4 * q + 4)
    BY <1>1, <1>9, DecodeAtGroup
  <2> HIDE DEF a, b, c
  <2> QED BY <1>6, <2>1, <2>2, <2>3 DEF e
<1> QED BY <1>7, <1>8, <1>9

(* What is decoded from characters of the alphabet are bytes. *)
LEMMA DecodeType ==
  ASSUME NEW n \in Nat, NEW chars, Decodable(n, chars), Len(chars) \in Nat
  PROVE  Decode(n, chars) \in [1 .. n -> Bytes]
<1> SUFFICES ASSUME NEW i \in 1 .. n PROVE DecodeAt(chars, i) \in 0 .. 255
  BY DEF Decode, Bytes
<1>1. PICK q \in Nat, r \in {0, 1, 2} :
        /\ i = 3 * q + r + 1 /\ (i - 1) \div 3 = q /\ (i - 1) % 3 = r
        /\ 4 * q + r + 2 <= EncodedLength(n)
  BY Groups
<1>2. \A k \in Nat : k >= 1 /\ k <= EncodedLength(n) => ItemAt(chars, k) \in 0 .. 63
  BY EncodedLengthFits, SMT DEF Decodable, ItemAt, Chars
<1> DEFINE a == ItemAt(chars, 4 * q + 1)
           b == ItemAt(chars, 4 * q + 2)
           c == ItemAt(chars, 4 * q + 3)
           e == ItemAt(chars, 4 * q + 4)
<1>3. CASE r = 0
  <2>1. a \in 0 .. 63 /\ b \in 0 .. 63
    <3>1. 4 * q + 1 \in Nat /\ 4 * q + 2 \in Nat /\ 4 * q + 1 >= 1 /\ 4 * q + 2 >= 1
          /\ 4 * q + 1 <= EncodedLength(n) /\ 4 * q + 2 <= EncodedLength(n)
      BY <1>1, <1>3, EncodedLengthFits, SMT
    <3> QED BY <1>2, <3>1
  <2>2. DecodeAt(chars, i) = a * 4 + b \div 16
    BY <1>1, <1>3, DecodeAtGroup
  <2> HIDE DEF a, b
  <2> QED BY <2>1, <2>2, SMT
<1>4. CASE r = 1
  <2>1. b \in 0 .. 63 /\ c \in 0 .. 63
    <3>1. 4 * q + 2 \in Nat /\ 4 * q + 3 \in Nat /\ 4 * q + 2 >= 1 /\ 4 * q + 3 >= 1
          /\ 4 * q + 2 <= EncodedLength(n) /\ 4 * q + 3 <= EncodedLength(n)
      BY <1>1, <1>4, EncodedLengthFits, SMT
    <3> QED BY <1>2, <3>1
  <2>2. DecodeAt(chars, i) = (b % 16) * 16 + c \div 4
    BY <1>1, <1>4, DecodeAtGroup
  <2> HIDE DEF b, c
  <2> QED BY <2>1, <2>2, SMT
<1>5. CASE r = 2
  <2>1. c \in 0 .. 63 /\ e \in 0 .. 63
    <3>1. 4 * q + 3 \in Nat /\ 4 * q + 4 \in Nat /\ 4 * q + 3 >= 1 /\ 4 * q + 4 >= 1
          /\ 4 * q + 3 <= EncodedLength(n) /\ 4 * q + 4 <= EncodedLength(n)
      BY <1>1, <1>5, EncodedLengthFits, SMT
    <3> QED BY <1>2, <3>1
  <2>2. DecodeAt(chars, i) = (c % 4) * 64 + e
    BY <1>1, <1>5, DecodeAtGroup
  <2> HIDE DEF c, e
  <2> QED BY <2>1, <2>2, SMT
<1> QED BY <1>3, <1>4, <1>5

(***************************************************************************)
(* Making a hash.                                                            *)
(***************************************************************************)

LEMMA PlainIsPassword ==
  ASSUME NEW p \in Plains, ~ TooLong(p), ~ HasNul(p)
  PROVE  Password(p)
<1>1. p \in Seq(0 .. Byte - 1)
  BY TextAssumption
<1>2. Len(p) \in Nat /\ Len(p) <= MaxPassword /\ p \in [1 .. Len(p) -> 0 .. Byte - 1]
  <2>1. Len(p) \in Nat /\ p \in [1 .. Len(p) -> 0 .. Byte - 1]
    BY <1>1, LenProperties, ElementOfSeq
  <2> QED BY <2>1, KeyAssumption DEF TooLong
<1>3. \A i \in 1 .. Len(p) : p[i] \in 1 .. Byte - 1
  BY <1>2, KeyAssumption DEF HasNul
<1>4. p \in [1 .. Len(p) -> 1 .. Byte - 1]
  BY <1>2, <1>3
<1>5. p \in Seq(1 .. Byte - 1)
  BY <1>2, <1>4, BytesAreSeq
<1> QED BY <1>2, <1>5 DEF Password

LEMMA KeyStreamType ==
  ASSUME NEW p, Password(p), NEW minor \in {"a", "b"}
  PROVE  KeyStream(minor, p) \in [0 .. MaxPassword - 1 -> 0 .. Byte - 1]
<1>1. /\ Len(p) \in Nat /\ p \in Seq(1 .. Byte - 1)
      /\ KeyLength(minor, p) = Len(p) + 1
  BY KeyLengthIsLength DEF Password
<1>2. \A j \in 0 .. MaxPassword - 1 : StreamIndex(Len(p) + 1, j) \in 0 .. Len(p)
  BY <1>1, KeyAssumption, SMT DEF StreamIndex
<1>3. \A i \in 0 .. Len(p) : CString(p)[i + 1] \in 0 .. Byte - 1
  <2> SUFFICES ASSUME NEW i \in 0 .. Len(p) PROVE CString(p)[i + 1] \in 0 .. Byte - 1
    OBVIOUS
  <2>1. CASE i = Len(p)
    <3>1. CString(p)[i + 1] = 0
      BY <1>1, <2>1 DEF CString
    <3> QED BY <3>1, KeyAssumption
  <2>2. CASE i # Len(p)
    <3>1. i + 1 \in 1 .. Len(p)
      BY <1>1, <2>2
    <3>2. CString(p)[i + 1] = p[i + 1]
      BY <1>1, <3>1 DEF CString
    <3>3. p[i + 1] \in 1 .. Byte - 1
      BY <3>1, PasswordByte
    <3> QED BY <3>2, <3>3, KeyAssumption
  <2> QED BY <2>1, <2>2
<1> QED BY <1>1, <1>2, <1>3 DEF KeyStream

LEMMA Sizes ==
  /\ SaltChars \in Nat /\ salt_size = SaltChars + 7
  /\ hash_size = salt_size + EncodedLength(CipherBytes)
  /\ salt_size \in Nat /\ hash_size \in Nat /\ SaltBytes \in Nat
BY TextAssumption, EncodedLengthFits, SMT
   DEF salt_size, hash_size, SaltChars, PrefixLength, EncodedLength, CipherBytes

LEMMA NormalizedSalt ==
  ASSUME NEW salt \in Texts
  PROVE  /\ Normalized(salt) \in Texts
         /\ Normalized(salt).cost = salt.cost /\ Normalized(salt).salt = salt.salt
         /\ Normalized(salt).length = salt.length
         /\ salt.prefix # "$2y$" => Normalized(salt) = salt
BY DEF Normalized, Texts, Variants

LEMMA OkSays ==
  ASSUME NEW salt, NEW p, WithSalt(salt, p) = "Ok"
  PROVE  /\ ~ TooLong(p) /\ ~ HasNul(p)
         /\ Parses(Normalized(salt))
BY DEF WithSalt, CSafe

LEMMA MadeFields ==
  ASSUME NEW salt, NEW p
  PROVE  LET s == Normalized(salt)
             h == MadeWith(salt, p)
         IN  /\ h.length = hash_size /\ h.prefix = s.prefix /\ h.cost = s.cost
             /\ h.salt = Encode(Decode(SaltBytes, s.salt))
             /\ h.digest = [key |-> KeyStream(Minor(s), p),
                            salt |-> Decode(SaltBytes, s.salt), cost |-> s.cost]
             /\ h = [length |-> hash_size, prefix |-> h.prefix, cost |-> h.cost,
                     salt |-> h.salt, digest |-> h.digest]
BY Sizes DEF MadeWith, HashPass

(* What bcrypt.c makes of a salt that it accepts. *)
LEMMA Made ==
  ASSUME NEW p \in Plains, NEW salt \in Texts, WithSalt(salt, p) = "Ok"
  PROVE  LET h == MadeWith(salt, p)
         IN  /\ Password(p)
             /\ h \in Texts /\ h # NoText
             /\ h.length = hash_size /\ h.prefix \in {"$2a$", "$2b$"}
             /\ h.cost \in min_cost .. max_cost
             /\ h.digest \in Digests
             /\ h.digest = [key |-> KeyStream(Minor(h), p), salt |-> h.digest.salt,
                            cost |-> h.cost]
             /\ h.salt = Encode(h.digest.salt)
             /\ Decodable(SaltBytes, h.salt)
<1> DEFINE s == Normalized(salt)
           h == MadeWith(salt, p)
           d == Decode(SaltBytes, s.salt)
<1>1. s \in Texts /\ Parses(s) /\ Password(p)
  BY OkSays, NormalizedSalt, PlainIsPassword
<1>2. s.prefix \in {"$2a$", "$2b$"} /\ s.cost \in 4 .. 31 /\ Decodable(SaltBytes, s.salt)
  <2>1. s.cost \in Int
    BY <1>1 DEF Texts
  <2> HIDE DEF s
  <2>2. /\ s.prefix \in {"$2a$", "$2b$"} /\ Decodable(SaltBytes, s.salt)
        /\ s.cost >= 4 /\ s.cost <= 31
    BY <1>1 DEF Parses
  <2>3. s.cost \in 4 .. 31
    BY <2>1, <2>2, SMT
  <2> QED BY <2>2, <2>3
<1>3. Len(s.salt) \in Nat
  BY <1>1 DEF Texts
<1>4. d \in [1 .. SaltBytes -> Bytes]
  BY <1>2, <1>3, Sizes, DecodeType
<1>5. /\ Encode(d) \in Seq(Chars)
      /\ Decodable(SaltBytes, Encode(d))
  BY <1>4, Sizes, EncodeType
<1>6. /\ h.length = hash_size /\ h.prefix = s.prefix /\ h.cost = s.cost
      /\ h.salt = Encode(d)
      /\ h.digest = [key |-> KeyStream(Minor(s), p), salt |-> d, cost |-> s.cost]
      /\ h = [length |-> hash_size, prefix |-> h.prefix, cost |-> h.cost,
              salt |-> h.salt, digest |-> h.digest]
  BY MadeFields
<1>7. Minor(s) \in {"a", "b"} /\ Minor(h) = Minor(s)
  <2> HIDE DEF s, h
  <2> QED BY <1>6 DEF Minor
<1>8. KeyStream(Minor(s), p) \in [0 .. MaxPassword - 1 -> 0 .. Byte - 1]
  BY <1>1, <1>7, KeyStreamType
<1> HIDE DEF s, h, d
<1>9. h.digest \in Digests
  BY <1>2, <1>4, <1>6, <1>8 DEF Digests, min_cost, max_cost
<1>10. h.digest.salt = d /\ h.digest = [key |-> KeyStream(Minor(h), p), salt |-> d,
                                        cost |-> h.cost]
  BY <1>6, <1>7
<1>11. h \in Texts
  <2>1. Encode(d) \in Seq(Chars \union {255, NulChar})
    <3>1. Chars \subseteq Chars \union {255, NulChar}
      OBVIOUS
    <3> HIDE DEF Chars
    <3>2. Encode(d) \in [1 .. EncodedLength(SaltBytes) -> Chars]
      BY <1>4, Sizes, EncodeType
    <3>3. Encode(d) \in [1 .. EncodedLength(SaltBytes) -> Chars \union {255, NulChar}]
      BY <3>1, <3>2
    <3> QED BY <3>3, Sizes, EncodedLengthFits, BytesAreSeq
  <2>2. h.cost \in Int /\ h.prefix \in Variants \union {"other"}
    BY <1>2, <1>6 DEF Variants
  <2>3. [length |-> hash_size, prefix |-> h.prefix, cost |-> h.cost,
         salt |-> h.salt, digest |-> h.digest] \in Texts
    BY <1>6, <1>9, <2>1, <2>2, Sizes DEF Texts
  <2> QED BY <1>6, <2>3
<1>12. h # NoText
  BY <1>11, TextAssumption
<1>13. h.cost \in min_cost .. max_cost
  BY <1>2, <1>6 DEF min_cost, max_cost
<1> QED BY <1>1, <1>2, <1>5, <1>6, <1>9, <1>10, <1>11, <1>12, <1>13 DEF h

(***************************************************************************)
(* Verifying a hash.                                                         *)
(***************************************************************************)

LEMMA SaltOfText ==
  ASSUME NEW hash \in Texts
  PROVE  /\ SaltOf(hash) \in Texts
         /\ SaltOf(hash).length = salt_size /\ SaltOf(hash).prefix = hash.prefix
         /\ SaltOf(hash).cost = hash.cost /\ SaltOf(hash).salt = hash.salt
BY Sizes DEF SaltOf, Texts

LEMMA Outcomes ==
  ASSUME NEW salt, NEW hash, NEW p
  PROVE  /\ WithSalt(salt, p) \in Errors \union
              {"Ok", "raises Invalid_argument", "raises Failure"}
         /\ VerifyOutcome(hash, p) \in Errors \union
              {"Ok true", "Ok false", "raises Invalid_argument", "raises Failure"}
<1>1. \A s : WithSalt(s, p) \in Errors \union
                {"Ok", "raises Invalid_argument", "raises Failure"}
  BY DEF WithSalt, Errors
<1>2. VerifyOutcome(hash, p) \in Errors \union
         {"Ok true", "Ok false", "raises Invalid_argument", "raises Failure"}
  <2>1. WithSalt(SaltOf(hash), p) \in Errors \union
          {"Ok", "raises Invalid_argument", "raises Failure"}
    BY <1>1
  <2> QED BY <2>1 DEF VerifyOutcome, Errors
<1> QED BY <1>1, <1>2

(* A text that verifies is what bcrypt.c makes of it. *)
LEMMA AcceptedIsMade ==
  ASSUME NEW hash, NEW p, VerifyOutcome(hash, p) = "Ok true"
  PROVE  /\ WithSalt(SaltOf(hash), p) = "Ok"
         /\ MadeWith(SaltOf(hash), p) = hash
BY Outcomes DEF VerifyOutcome, Errors

(* What was made verifies for its password: hashing again with the first 29
   characters leads back to the same hash.                                  *)
LEMMA MadeVerifies ==
  ASSUME IInv, stored # NoText
  PROVE  VerifyOutcome(stored, origin) = "Ok true"
<1>1. /\ stored \in Texts /\ Decodable(SaltBytes, stored.salt)
      /\ origin \in Plains /\ ~ TooLong(origin) /\ ~ HasNul(origin)
      /\ stored.length = hash_size /\ stored.prefix \in {"$2a$", "$2b$"}
      /\ stored.cost \in min_cost .. max_cost
      /\ stored.digest \in Digests
      /\ stored.digest = [key |-> KeyStream(Minor(stored), origin),
                          salt |-> stored.digest.salt, cost |-> stored.cost]
      /\ stored.salt = Encode(stored.digest.salt)
  BY DEF IInv, TypeOK, StoredInv
<1> DEFINE d == stored.digest.salt
           s == SaltOf(stored)
           h == MadeWith(s, origin)
<1>2. d \in [1 .. SaltBytes -> Bytes]
  BY <1>1 DEF Digests
<1>3. /\ Len(stored.salt) = SaltChars /\ stored.salt \in [1 .. SaltChars -> Chars]
      /\ Decode(SaltBytes, stored.salt) = d
  <2> HIDE DEF d
  <2>1. /\ Encode(d) \in [1 .. EncodedLength(SaltBytes) -> Chars]
        /\ Len(Encode(d)) = EncodedLength(SaltBytes)
        /\ Decode(SaltBytes, Encode(d)) = d
    BY <1>2, Sizes, EncodeType, RoundTrip
  <2> QED BY <1>1, <2>1 DEF SaltChars, d
<1>4. /\ s \in Texts /\ s.length = salt_size /\ s.prefix = stored.prefix
      /\ s.cost = stored.cost /\ s.salt = stored.salt
  BY <1>1, SaltOfText
<1> HIDE DEF s
<1>5. Normalized(s) = s
  BY <1>1, <1>4, NormalizedSalt
<1>6. Parses(s)
  <2>1. (Len(s.salt) * 3) \div 4 >= SaltBytes
    BY <1>3, <1>4, Sizes, EncodedLengthFits DEF SaltChars
  <2>2. s.cost # NoCost /\ s.cost >= 4 /\ s.cost <= 31
    BY <1>1, <1>4, SMT DEF NoCost, min_cost, max_cost
  <2> QED BY <1>1, <1>4, <2>1, <2>2 DEF Parses
<1>7. is_salt_valid(s) /\ ~ s.length < PrefixLength
  <2>1. s.prefix \in Variants
    BY <1>1, <1>4 DEF Variants
  <2>2. ~ s.length < PrefixLength
    BY <1>4, Sizes, SMT DEF PrefixLength
  <2> QED BY <1>4, <2>1, <2>2 DEF is_salt_valid
<1>8. CSafe(origin, s)
  <2>1. \A i \in 1 .. Len(s.salt) : s.salt[i] \in Chars
    BY <1>3, <1>4
  <2>2. \A i \in 1 .. Len(s.salt) : s.salt[i] # NulChar
    <3>1. \A c \in Chars : c # NulChar
      BY SMT DEF Chars, NulChar
    <3> HIDE DEF s
    <3> QED BY <2>1, <3>1, Zenon
  <2>3. s.prefix # NulPrefix
    BY <1>1, <1>4 DEF NulPrefix
  <2>4. s.cost # NulCost
    BY <1>1, <1>4, SMT DEF NulCost, min_cost, max_cost
  <2> QED BY <1>1, <2>2, <2>3, <2>4 DEF CSafe
<1>9. WithSalt(s, origin) = "Ok"
  BY <1>1, <1>5, <1>6, <1>7, <1>8 DEF WithSalt
<1>10. h = stored
  <2>1. /\ h.prefix = stored.prefix /\ h.cost = stored.cost
        /\ h.salt = Encode(d)
        /\ h.digest = [key |-> KeyStream(Minor(s), origin), salt |-> d,
                       cost |-> stored.cost]
        /\ h = [length |-> hash_size, prefix |-> h.prefix, cost |-> h.cost,
                salt |-> h.salt, digest |-> h.digest]
    <3> HIDE DEF d
    <3> QED BY <1>3, <1>4, <1>5, MadeFields
  <2>2. Minor(s) = Minor(stored)
    BY <1>4 DEF Minor
  <2>3. stored = [length |-> stored.length, prefix |-> stored.prefix,
                  cost |-> stored.cost, salt |-> stored.salt, digest |-> stored.digest]
    BY <1>1 DEF Texts
  <2> HIDE DEF h
  <2> QED BY <1>1, <2>1, <2>2, <2>3
<1>11. stored.prefix \in Variants
  BY <1>1 DEF Variants
<1> QED BY <1>1, <1>9, <1>10, <1>11 DEF VerifyOutcome, s

(***************************************************************************)
(* The invariant.                                                            *)
(***************************************************************************)

LEMMA InitInv == Init => IInv
BY DEF Init, IInv, TypeOK, StoredInv, ResultInv, Verifying

(* What a call that keeps a new hash, and one that does not, have to show. *)
LEMMA KeepsMade ==
  ASSUME NEW p \in Plains, NEW salt \in Texts, WithSalt(salt, p) = "Ok",
         op' \in {"hash", "hash_with_salt"}, plain' = p, text' = salt, result' = "Ok",
         Kept(MadeWith(salt, p), p)
  PROVE  IInv'
<1> DEFINE h == MadeWith(salt, p)
<1>1. /\ Password(p)
      /\ h \in Texts /\ h # NoText
      /\ h.length = hash_size /\ h.prefix \in {"$2a$", "$2b$"}
      /\ h.cost \in min_cost .. max_cost
      /\ h.digest \in Digests
      /\ h.digest = [key |-> KeyStream(Minor(h), p), salt |-> h.digest.salt,
                     cost |-> h.cost]
      /\ h.salt = Encode(h.digest.salt)
      /\ Decodable(SaltBytes, h.salt)
  BY Made
<1>2. stored' = h /\ origin' = p
  BY DEF Kept
<1>3. ~ TooLong(p) /\ ~ HasNul(p)
  BY OkSays
<1> HIDE DEF h
<1>4. TypeOK'
  <2>1. h.prefix \in Variants
    BY <1>1 DEF Variants
  <2>2. op' \in {"none", "hash", "hash_with_salt", "verify", "verify_exn"}
    OBVIOUS
  <2> QED BY <1>1, <1>2, <2>1, <2>2 DEF TypeOK
<1>5. StoredInv'
  BY <1>1, <1>2, <1>3 DEF StoredInv
<1>6. ResultInv'
  BY DEF ResultInv, Verifying
<1> QED BY <1>4, <1>5, <1>6 DEF IInv

LEMMA KeepsStored ==
  ASSUME IInv, UNCHANGED <<stored, origin>>, ResultInv',
         op' \in {"none", "hash", "hash_with_salt", "verify", "verify_exn"},
         plain' \in Plains \union {<<>>}, text' \in Texts \union {NoText},
         result' \in Errors \union {"none", "Ok", "Ok true", "Ok false",
                                    "raises Invalid_argument", "raises Failure"}
  PROVE  IInv'
<1>1. TypeOK'
  BY DEF IInv, TypeOK
<1>2. StoredInv'
  BY DEF IInv, StoredInv
<1> QED BY <1>1, <1>2 DEF IInv

LEMMA HashInv ==
  ASSUME IInv, NEW p \in Plains, NEW cost \in Costs, NEW bytes \in RandomSalts,
         Hash(p, cost, bytes)
  PROVE  IInv'
<1> DEFINE salt == GenerateSalt(cost, bytes)
<1>1. salt \in Texts
  <2>1. bytes \in [1 .. SaltBytes -> Bytes] /\ cost \in Int
    BY TextAssumption
  <2>2. Encode(bytes) \in [1 .. EncodedLength(SaltBytes) -> Chars]
    BY <2>1, Sizes, EncodeType
  <2>3. Encode(bytes) \in [1 .. EncodedLength(SaltBytes) -> Chars \union {255, NulChar}]
    BY <2>2
  <2>4. Encode(bytes) \in Seq(Chars \union {255, NulChar})
    BY <2>3, Sizes, EncodedLengthFits, BytesAreSeq
  <2> QED BY <2>1, <2>4, Sizes DEF GenerateSalt, Texts, Variants
<1> HIDE DEF salt
<1>2. CASE Called("hash", p, salt, WithSalt(salt, p)) /\ result' = "Ok"
           /\ Kept(MadeWith(salt, p), p)
  BY <1>1, <1>2, KeepsMade DEF Called
<1>3. CASE /\ Called("hash", p, salt, WithSalt(salt, p)) \/ Called("hash", p, salt, "raises Failure")
           /\ UNCHANGED <<stored, origin>>
  <2>1. ResultInv'
    BY <1>3 DEF ResultInv, Verifying, Called
  <2>2. result' \in Errors \union {"none", "Ok", "Ok true", "Ok false",
                                   "raises Invalid_argument", "raises Failure"}
    BY <1>3, Outcomes DEF Called
  <2> QED BY <1>1, <1>3, <2>1, <2>2, KeepsStored DEF Called
<1> QED BY <1>2, <1>3 DEF Hash, salt

LEMMA HashWithSaltInv ==
  ASSUME IInv, NEW p \in Plains, NEW salt \in SaltTexts, HashWithSalt(p, salt)
  PROVE  IInv'
<1>1. salt \in Texts
  BY TextAssumption
<1>2. CASE result' = "Ok" /\ Kept(MadeWith(salt, p), p)
  BY <1>1, <1>2, KeepsMade DEF HashWithSalt, Called
<1>3. CASE UNCHANGED <<stored, origin>>
  <2>1. ResultInv'
    BY DEF ResultInv, Verifying, HashWithSalt, Called
  <2>2. result' \in Errors \union {"none", "Ok", "Ok true", "Ok false",
                                   "raises Invalid_argument", "raises Failure"}
    BY Outcomes DEF HashWithSalt, Called
  <2> QED BY <1>1, <1>3, <2>1, <2>2, KeepsStored DEF HashWithSalt, Called
<1> QED BY <1>2, <1>3 DEF HashWithSalt

LEMMA VerifyInv ==
  ASSUME IInv, NEW p \in Plains, NEW hash \in Presented,
         Verify(p, hash) \/ VerifyExn(p, hash)
  PROVE  IInv'
<1>1. /\ stored # NoText /\ hash \in Texts
      /\ hash.digest \in {stored.digest, OtherDigest}
  BY DEF Presented
<1>2. /\ op' \in {"verify", "verify_exn"} /\ plain' = p /\ text' = hash
      /\ UNCHANGED <<stored, origin>>
  BY DEF Verify, VerifyExn, Called
<1>3. /\ result' \in Errors \union {"none", "Ok", "Ok true", "Ok false",
                                    "raises Invalid_argument", "raises Failure"}
      /\ (result' = "Ok true") <=> (VerifyOutcome(hash, p) = "Ok true")
  <2>1. VerifyOutcome(hash, p) \in Errors \union
          {"Ok true", "Ok false", "raises Invalid_argument", "raises Failure"}
    BY Outcomes
  <2>2. result' = VerifyOutcome(hash, p)
        \/ (VerifyOutcome(hash, p) \in Errors /\ result' = "raises Invalid_argument")
    BY DEF Verify, VerifyExn, Called
  <2> QED BY <2>1, <2>2 DEF Errors
<1>4. ResultInv'
  BY <1>1, <1>2, <1>3 DEF ResultInv
<1> QED BY <1>1, <1>2, <1>3, <1>4, KeepsStored

LEMMA NextInv == IInv /\ [Next]_vars => IInv'
<1> SUFFICES ASSUME IInv, [Next]_vars PROVE IInv'
  OBVIOUS
<1>1. ASSUME NEW p \in Plains, NEW cost \in Costs, HashRefused(p, cost) PROVE IInv'
  <2>1. ResultInv'
    BY <1>1 DEF ResultInv, Verifying, HashRefused, Called
  <2>2. "Invalid_cost" \in Errors
    BY DEF Errors
  <2> QED BY <1>1, <2>1, <2>2, KeepsStored DEF HashRefused, Called
<1>2. ASSUME NEW p \in Plains, NEW cost \in Costs, NEW bytes \in RandomSalts,
             Hash(p, cost, bytes)
      PROVE IInv'
  BY <1>2, HashInv
<1>3. ASSUME NEW p \in Plains, NEW salt \in SaltTexts, HashWithSalt(p, salt)
      PROVE IInv'
  BY <1>3, HashWithSaltInv
<1>4. ASSUME NEW p \in Plains, NEW hash \in Presented,
             Verify(p, hash) \/ VerifyExn(p, hash)
      PROVE IInv'
  BY <1>4, VerifyInv
<1>5. CASE Done
  <2>1. ResultInv'
    BY <1>5 DEF ResultInv, Verifying, Done
  <2> QED BY <1>5, <2>1, KeepsStored DEF Done
<1>6. CASE UNCHANGED vars
  BY <1>6 DEF vars, IInv, TypeOK, StoredInv, ResultInv, Verifying
<1> QED BY <1>1, <1>2, <1>3, <1>4, <1>5, <1>6 DEF Next

(* Every sequence of calls keeps what IInv says: the stored hash is one that
   bcrypt.c made from a password it reads to its end, and the two verifying
   calls agree.                                                             *)
THEOREM Invariance == Spec => []IInv
BY InitInv, NextInv, PTL DEF Spec

(***************************************************************************)
(* The properties.                                                           *)
(***************************************************************************)

LEMMA AcceptsStored ==
  ASSUME IInv, Verifying, result = "Ok true"
  PROVE  /\ plain = origin /\ text.digest = stored.digest
         /\ text.salt = stored.salt /\ text.cost = stored.cost
<1>1. /\ stored # NoText /\ plain \in Plains /\ text \in Texts
      /\ text.digest \in {stored.digest, OtherDigest}
      /\ VerifyOutcome(text, plain) = "Ok true"
  BY DEF IInv, ResultInv
<1>2. /\ origin \in Plains /\ ~ TooLong(origin) /\ ~ HasNul(origin)
      /\ stored.digest = [key |-> KeyStream(Minor(stored), origin),
                          salt |-> stored.digest.salt, cost |-> stored.cost]
      /\ stored.salt = Encode(stored.digest.salt)
  BY <1>1 DEF IInv, StoredInv
<1> DEFINE s == SaltOf(text)
<1>3. WithSalt(s, plain) = "Ok" /\ MadeWith(s, plain) = text /\ s \in Texts
  BY <1>1, AcceptedIsMade, SaltOfText
<1>4. /\ Password(plain) /\ text.digest \in Digests
      /\ text.digest = [key |-> KeyStream(Minor(text), plain),
                        salt |-> text.digest.salt, cost |-> text.cost]
      /\ text.salt = Encode(text.digest.salt)
  <2> DEFINE h == MadeWith(s, plain)
  <2>1. /\ Password(plain) /\ h.digest \in Digests
        /\ h.digest = [key |-> KeyStream(Minor(h), plain), salt |-> h.digest.salt,
                       cost |-> h.cost]
        /\ h.salt = Encode(h.digest.salt)
    <3> HIDE DEF s
    <3> QED BY <1>1, <1>3, Made
  <2>2. h = text
    BY <1>3
  <2> HIDE DEF h
  <2> QED BY <2>1, <2>2
<1>5. text.digest = stored.digest
  BY <1>1, <1>4, TextAssumption
<1>6. text.salt = stored.salt
  BY <1>2, <1>4, <1>5
<1>7. /\ text.cost = stored.cost
      /\ KeyStream(Minor(text), plain) = KeyStream(Minor(stored), origin)
  <2>1. \A k1, s1, c1, k2, s2, c2 :
          [key |-> k1, salt |-> s1, cost |-> c1] = [key |-> k2, salt |-> s2, cost |-> c2]
          => k1 = k2 /\ c1 = c2
    <3> TAKE k1, s1, c1, k2, s2, c2
    <3> HAVE [key |-> k1, salt |-> s1, cost |-> c1] = [key |-> k2, salt |-> s2, cost |-> c2]
    <3>1. [key |-> k1, salt |-> s1, cost |-> c1].key = [key |-> k2, salt |-> s2, cost |-> c2].key
          /\ [key |-> k1, salt |-> s1, cost |-> c1].cost = [key |-> k2, salt |-> s2, cost |-> c2].cost
      OBVIOUS
    <3> QED BY <3>1
  <2>2. [key |-> KeyStream(Minor(text), plain), salt |-> text.digest.salt, cost |-> text.cost]
        = [key |-> KeyStream(Minor(stored), origin), salt |-> stored.digest.salt,
           cost |-> stored.cost]
    BY <1>2, <1>4, <1>5
  <2> QED BY <2>1, <2>2
<1>8. Minor(text) \in {"a", "b"} /\ Minor(stored) \in {"a", "b"}
  BY DEF Minor
<1>9. plain = origin
  BY <1>2, <1>4, <1>7, <1>8, PlainIsPassword, KeyStreamInjective
<1> QED BY <1>5, <1>6, <1>7, <1>9

(* An untouched hash verifies for the password it was made from, and for no
   other (bcrypt.ml, hash and verify).                                      *)
THEOREM VerifiesItsPassword == Spec => []VerifyAgrees
<1>1. IInv => VerifyAgrees
  <2> SUFFICES ASSUME IInv, Verifying, text = stored
               PROVE  (result = "Ok true") <=> (plain = origin)
    BY DEF VerifyAgrees
  <2>1. result = "Ok true" => plain = origin
    BY AcceptsStored
  <2>2. ASSUME plain = origin PROVE result = "Ok true"
    BY <2>2, MadeVerifies DEF IInv, ResultInv
  <2> QED BY <2>1, <2>2
<1> QED BY <1>1, Invariance, PTL

(* No change of a stored hash makes it verify for another password, salt or
   cost (bcrypt.ml, verify).                                                *)
THEOREM AcceptsNoOther == Spec => []NoFalseAccept
<1>1. IInv => NoFalseAccept
  BY AcceptsStored DEF NoFalseAccept
<1> QED BY <1>1, Invariance, PTL

(* A stored hash is spelt in the one way that verify accepts, and costs what
   bcrypt.ml allows (bcrypt.ml, bcrypt.c).                                  *)
THEOREM StoredCanonical == Spec => []StoredIsCanonical
<1>1. IInv => StoredIsCanonical
  <2> SUFFICES ASSUME IInv, stored # NoText
               PROVE  /\ stored.cost \in min_cost .. max_cost
                      /\ stored.salt = Encode(Decode(SaltBytes, stored.salt))
                      /\ stored.prefix # "$2y$"
    BY DEF StoredIsCanonical
  <2>1. /\ stored.cost \in min_cost .. max_cost /\ stored.prefix \in {"$2a$", "$2b$"}
        /\ stored.digest \in Digests /\ stored.salt = Encode(stored.digest.salt)
    BY DEF IInv, StoredInv
  <2>2. stored.digest.salt \in [1 .. SaltBytes -> Bytes]
    BY <2>1 DEF Digests
  <2>3. Decode(SaltBytes, Encode(stored.digest.salt)) = stored.digest.salt
    BY <2>2, Sizes, RoundTrip
  <2> QED BY <2>1, <2>3
<1> QED BY <1>1, Invariance, PTL

=============================================================================
