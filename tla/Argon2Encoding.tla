--------------------------- MODULE Argon2Encoding ---------------------------
(***************************************************************************)
(* Hash strings (argon2/encoding.c): the base64 and decimal codecs,          *)
(* passe_encode_string and passe_decode_string, and a program that encodes a *)
(* context, stores the string, and later decodes what has become of it.      *)
(*                                                                           *)
(* A string is a sequence of characters without its NUL; a pointer into it   *)
(* is an index, and the one behind the last character points to the NUL.     *)
(* Three bytes are four base64 characters, as in the code, but bytes, base64 *)
(* digits and the accumulator have ByteBits, CharBits and AccBits bits, and  *)
(* the alphabets are shorter.                                                *)
(***************************************************************************)
EXTENDS Argon2Context

CONSTANTS ByteBits, CharBits, AccBits,   \* 8, 6 and 32
          ULONG_MAX,
          Alphabet,      \* the base64 characters, in the order of their values
          Digits,        \* the decimal digits, likewise
          Char,          \* all characters
          Contexts,      \* what is encoded: costs, version, salt and out
          Rooms(_, _),   \* lengths of the buffer that a context is encoded into
          SmallRooms,    \* lengths of the buffers decoded into, besides the usual
          Changed(_),    \* what a stored string may have become
          NoString, NoContext

(* 1 << n *)
exp2[n \in Nat] == IF n = 0 THEN 1 ELSE 2 * exp2[n - 1]

CharsOf(alphabet) == {alphabet[i] : i \in DOMAIN alphabet}

(* "$" ends a base64 field, and "$" or "," a number. *)
ASSUME CodecAssumption ==
  /\ {ByteBits, CharBits, AccBits, ULONG_MAX} \subseteq Nat
  /\ CharBits > 0 /\ 3 * ByteBits = 4 * CharBits /\ AccBits >= ByteBits + CharBits
  /\ ULONG_MAX >= UINT32_MAX /\ Radix <= ARGON2_VERSION_10
  /\ {Alphabet, Digits} \subseteq Seq(Char)
  /\ Len(Alphabet) = exp2[CharBits] /\ Len(Digits) = Radix
  /\ \A a \in {Alphabet, Digits} : \A i, j \in DOMAIN a : a[i] = a[j] => i = j
  /\ "$" \notin CharsOf(Alphabet) /\ {"$", ","} \cap CharsOf(Digits) = {}

VARIABLES
  made,    \* the context that was encoded, with its type, and the result
  text,    \* the stored string, or NoString
  read     \* what the last passe_decode_string gave, and what it was given

vars == <<made, text, read>>

NULL == 0
Byte == 0 .. exp2[ByteBits] - 1
ValueOf(alphabet, c) == (CHOOSE i \in DOMAIN alphabet : alphabet[i] = c) - 1

(* Every loop over characters ends at the first one of another kind. *)
RunLength(str, i, chars) ==
  CHOOSE n \in 0 .. Len(str) - i + 1 :
    /\ \A k \in 0 .. n - 1 : str[i + k] \in chars
    /\ i + n > Len(str) \/ str[i + n] \notin chars

Run(str, i, chars) == SubSeq(str, i, i + RunLength(str, i, chars) - 1)

(***************************************************************************)
(* base64.  Both loops shift into an accumulator that is never cleared: its  *)
(* high bits overflow, its low acc_len bits are those still to be written.   *)
(***************************************************************************)
Shifted(acc, bits, value) == (acc * exp2[bits] + value) % exp2[AccBits]

(* The value of the `bits` bits of acc above the lowest `above` ones. *)
Bits(acc, above, bits) == (acc \div exp2[above]) % exp2[bits]

b64_byte_to_char(x) == Alphabet[x + 1]

EncodedByte(s, byte) ==
  LET acc == Shifted(s.acc, ByteBits, byte)
      acc_len == s.acc_len + ByteBits
      turns == acc_len \div CharBits
  IN  [acc |-> acc, acc_len |-> acc_len % CharBits,
       dst |-> s.dst \o [k \in 1 .. turns |->
                           b64_byte_to_char(Bits(acc, acc_len - k * CharBits, CharBits))]]

(* The first loop of to_base64. *)
EncodedBytes(src) ==
  LET after[n \in 0 .. Len(src)] ==
        IF n = 0 THEN [acc |-> 0, acc_len |-> 0, dst |-> <<>>]
        ELSE EncodedByte(after[n - 1], src[n])
  IN  after[Len(src)]

(* Wrong on purpose: the last bits are written at the wrong end. *)
LastCharUnaligned(s) == b64_byte_to_char(Bits(s.acc, 0, CharBits))

(* The last bits, followed by zeros. *)
LastChar(s) ==
  b64_byte_to_char((s.acc * exp2[CharBits - s.acc_len]) % exp2[CharBits])

(* The characters that to_base64 writes. *)
to_base64(src) ==
  LET end == EncodedBytes(src)
  IN  IF end.acc_len = 0 THEN end.dst ELSE Append(end.dst, LastChar(end))

(* One character; full, once a byte would not fit into the buffer. *)
DecodedChar(s, dst_len, c) ==
  LET acc == Shifted(s.acc, CharBits, ValueOf(Alphabet, c))
      acc_len == s.acc_len + CharBits
  IN  IF s.full THEN s
      ELSE IF acc_len < ByteBits
           THEN [acc |-> acc, acc_len |-> acc_len, full |-> FALSE, dst |-> s.dst]
      ELSE IF Len(s.dst) >= dst_len
           THEN [acc |-> s.acc, acc_len |-> s.acc_len, full |-> TRUE, dst |-> s.dst]
      ELSE [acc |-> acc, acc_len |-> acc_len - ByteBits, full |-> FALSE,
            dst |-> Append(s.dst, Bits(acc, acc_len - ByteBits, ByteBits))]

SpareBits == 2 * (ByteBits - CharBits)    \* 4: after one byte

(* Wrong on purpose: spare bits that are set are ignored. *)
LeftOverAnything(s) == s.acc_len <= SpareBits

(* What may be left when the characters end: few bits, all of them zero. *)
LeftOverNothing(s) == s.acc_len <= SpareBits /\ s.acc % exp2[s.acc_len] = 0

DecodedChars(dst_len, run) ==
  LET after[k \in 0 .. Len(run)] ==
        IF k = 0 THEN [acc |-> 0, acc_len |-> 0, full |-> FALSE, dst |-> <<>>]
        ELSE DecodedChar(after[k - 1], dst_len, run[k])
  IN  after[Len(run)]

from_base64(dst_len, str, i) ==
  LET run == Run(str, i, CharsOf(Alphabet))
      end == DecodedChars(dst_len, run)
  IN  IF ~ end.full /\ LeftOverNothing(end)
      THEN [next |-> i + Len(run), data |-> end.dst] ELSE [next |-> NULL, data |-> <<>>]

(***************************************************************************)
(* Decimal numbers.                                                          *)
(***************************************************************************)
Overflow == -1

AppendDigit(acc, c) ==
  IF acc = Overflow \/ acc > ULONG_MAX \div Radix THEN Overflow
  ELSE IF c > ULONG_MAX - acc * Radix THEN Overflow
  ELSE acc * Radix + c

DecimalValue(run) ==
  LET after[k \in 0 .. Len(run)] ==
        IF k = 0 THEN 0 ELSE AppendDigit(after[k - 1], ValueOf(Digits, run[k]))
  IN  after[Len(run)]

Minimal(run) == run # <<>> /\ (run[1] = Digits[1] => Len(run) = 1)

Unread == [next |-> NULL, value |-> 0]

decode_decimal(str, i) ==
  LET run == Run(str, i, CharsOf(Digits))
  IN  IF DecimalValue(run) # Overflow /\ Minimal(run)
      THEN [next |-> i + Len(run), value |-> DecimalValue(run)] ELSE Unread

(* sprintf of SX. *)
Decimal[n \in Nat] ==
  IF n < Radix THEN <<Digits[n + 1]>>
  ELSE Append(Decimal[n \div Radix], Digits[(n % Radix) + 1])

(***************************************************************************)
(* passe_decode_string.  After a failure the pointer is NULL, and stays so.  *)
(***************************************************************************)
StartsWith(prefix, str, i) ==
  /\ i + Len(prefix) - 1 <= Len(str)
  /\ \A k \in DOMAIN prefix : str[i + k - 1] = prefix[k]

CC(prefix, str, i) ==
  IF i # NULL /\ StartsWith(prefix, str, i) THEN i + Len(prefix) ELSE NULL

(* Wrong on purpose: the macro without the limit. *)
DECIMAL(str, i) == IF i = NULL THEN Unread ELSE decode_decimal(str, i)

DECIMAL_U32(str, i) ==
  IF i = NULL \/ decode_decimal(str, i).value > UINT32_MAX
  THEN Unread ELSE decode_decimal(str, i)

BIN(max_len, str, i) ==
  LET bin == from_base64(max_len, str, i)
  IN  IF i = NULL THEN [next |-> NULL, data |-> <<>>]
      ELSE IF Len(bin.data) > UINT32_MAX THEN [next |-> NULL, data |-> <<>>]
      ELSE bin

Literal == [version |-> <<"$", "v", "=">>, memory |-> <<"$", "m", "=">>,
            time |-> <<",", "t", "=">>, lanes |-> <<",", "p", "=">>]

(* The version may be missing: such strings are of version 0x10. *)
VersionField(str, i) ==
  IF i # NULL /\ StartsWith(Literal.version, str, i)
  THEN DECIMAL_U32(str, i + Len(Literal.version))
  ELSE [next |-> i, value |-> ARGON2_VERSION_10]

Failed(code) == [ret |-> code, ctx |-> NoContext]

passe_decode_string(maxsaltlen, maxoutlen, str, type) ==
  LET type_end == CC(<<"$">> \o passe_argon2_type2string(type), str, 1)
      version == VersionField(str, type_end)
      m_cost  == DECIMAL_U32(str, CC(Literal.memory, str, version.next))
      t_cost  == DECIMAL_U32(str, CC(Literal.time, str, m_cost.next))
      lanes   == DECIMAL_U32(str, CC(Literal.lanes, str, t_cost.next))
      salt    == BIN(maxsaltlen, str, CC(<<"$">>, str, lanes.next))
      out     == BIN(maxoutlen, str, CC(<<"$">>, str, salt.next))
      ctx == [version |-> version.value, m_cost |-> m_cost.value, t_cost |-> t_cost.value,
              lanes |-> lanes.value, threads |-> lanes.value,
              salt |-> salt.data, saltlen |-> Len(salt.data),
              out |-> out.data, outlen |-> Len(out.data)]
  IN  IF out.next = NULL THEN Failed("ARGON2_DECODING_FAIL")
      ELSE IF ValidateInputs(ctx) # OK THEN Failed(ValidateInputs(ctx))
      ELSE IF out.next # Len(str) + 1 THEN Failed("ARGON2_DECODING_FAIL")
      ELSE [ret |-> OK, ctx |-> ctx]

(***************************************************************************)
(* passe_encode_string.  dst holds what has been written, room is dst_len,   *)
(* less what was written; the macros leave the function when they fail.      *)
(***************************************************************************)

Stopped(s) == [ok |-> FALSE, room |-> s.room, dst |-> s.dst]

(* Wrong on purpose: the NUL is forgotten. *)
SSWithoutNul(s, str) ==
  IF ~ s.ok \/ Len(str) > s.room THEN Stopped(s)
  ELSE [ok |-> TRUE, room |-> s.room - Len(str), dst |-> s.dst \o str]

SS(s, str) ==
  IF ~ s.ok \/ Len(str) >= s.room THEN Stopped(s)
  ELSE [ok |-> TRUE, room |-> s.room - Len(str), dst |-> s.dst \o str]

SX(s, x) == SS(s, Decimal[x])

SB(s, bin) ==
  IF ~ s.ok \/ s.room <= passe_b64len(Len(bin)) THEN Stopped(s)
  ELSE [ok |-> TRUE, room |-> s.room - passe_b64len(Len(bin)),
        dst |-> s.dst \o to_base64(bin)]

(* A number behind what announces it, and bytes behind their "$". *)
NumberField(s, literal, x) == SX(SS(s, literal), x)
BytesField(s, bin) == SB(SS(s, <<"$">>), bin)

passe_encode_string(dst_len, ctx, type) ==
  LET start   == SS([ok |-> TRUE, room |-> dst_len, dst |-> <<>>], <<"$">>)
      version == NumberField(SS(start, passe_argon2_type2string(type)),
                             Literal.version, ctx.version)
      m_cost  == NumberField(version, Literal.memory, ctx.m_cost)
      t_cost  == NumberField(m_cost, Literal.time, ctx.t_cost)
      lanes   == NumberField(t_cost, Literal.lanes, ctx.lanes)
      end     == BytesField(BytesField(lanes, ctx.salt), ctx.out)
  IN  IF ValidateInputs(ctx) # OK THEN [ret |-> ValidateInputs(ctx), dst |-> <<>>]
      ELSE [ret |-> IF end.ok THEN OK ELSE "ARGON2_ENCODING_FAIL", dst |-> end.dst]

(* What a caller of passe_argon2_hash may ask for. *)
Asked ==
  [version : {ARGON2_VERSION_10, ARGON2_VERSION_NUMBER}, m_cost : UInt32, t_cost : UInt32,
   lanes : UInt32, threads : UInt32, salt : Seq(Byte), saltlen : UInt32,
   out : Seq(Byte), outlen : UInt32]

FixedParts ==
  {<<"$">>, Literal.version, Literal.memory, Literal.time, Literal.lanes}
  \union {passe_argon2_type2string(type) : type \in Types}

ASSUME ProgramAssumption ==
  /\ FixedParts \subseteq Seq(Char)
  /\ Contexts \subseteq Asked
  /\ \A ctx \in Contexts :
        /\ ctx.threads = ctx.lanes
        /\ ctx.saltlen = Len(ctx.salt) /\ ctx.outlen = Len(ctx.out)
        /\ \A type \in Types : \A dst_len \in Rooms(ctx, type) :
             LET result == passe_encode_string(dst_len, ctx, type)
             IN  /\ dst_len \in Nat
                 /\ result.ret = OK => Changed(result.dst) \subseteq Seq(Char)
  /\ SmallRooms \subseteq Nat

(***************************************************************************)
(* The program.                                                              *)
(***************************************************************************)
NotMade == [ret |-> "none", ctx |-> NoContext, type |-> "none", dst_len |-> 0, dst |-> <<>>]
NotRead == [ret |-> "none", ctx |-> NoContext, type |-> "none", room |-> 0]

Init == made = NotMade /\ text = NoString /\ read = NotRead

Encode(ctx, type, dst_len) ==
  /\ made = NotMade
  /\ LET result == passe_encode_string(dst_len, ctx, type)
     IN  /\ made' = [ret |-> result.ret, ctx |-> ctx, type |-> type,
                     dst_len |-> dst_len, dst |-> result.dst]
         /\ text' = IF result.ret = OK THEN result.dst ELSE NoString
  /\ UNCHANGED read

(* The stored string comes back as another one. *)
Change ==
  /\ text # NoString /\ text = made.dst /\ read = NotRead
  /\ text' \in Changed(text)
  /\ UNCHANGED <<made, read>>

FixedLengthField(str) == ARGON2_MIN_SALT_LENGTH    \* wrong on purpose

(* passe_argon2_verify gives both buffers the length of the string. *)
max_field_len(str) == Len(str)

Decode(type, room) ==
  /\ text # NoString /\ read = NotRead
  /\ LET result == passe_decode_string(room, room, text, type)
     IN  read' = [ret |-> result.ret, ctx |-> result.ctx, type |-> type, room |-> room]
  /\ UNCHANGED <<made, text>>

Forget ==
  /\ made.ret # "none"
  /\ made' = NotMade /\ text' = NoString /\ read' = NotRead

Next ==
  \/ \E ctx \in Contexts, type \in Types : \E dst_len \in Rooms(ctx, type) :
       Encode(ctx, type, dst_len)
  \/ Change
  \/ text # NoString /\ \E type \in Types, room \in SmallRooms \union {max_field_len(text)} :
       Decode(type, room)
  \/ Forget

Spec == Init /\ [][Next]_vars

(***************************************************************************)
(* Properties.                                                               *)
(***************************************************************************)
Fields == [version : UInt32, m_cost : UInt32, t_cost : UInt32, lanes : 1 .. MaxLanes,
           threads : 1 .. MaxLanes, salt : Seq(Byte), saltlen : UInt32,
           out : Seq(Byte), outlen : UInt32]

(* Types.  What is read has been validated, and no field was cut. *)
TypeOK ==
  /\ made.ctx \in Contexts \union {NoContext}
  /\ read.ret = OK =>
       /\ read.ctx \in Fields
       /\ Len(read.ctx.salt) = read.ctx.saltlen /\ Len(read.ctx.out) = read.ctx.outlen
  /\ read.ret # OK => read.ctx = NoContext

(* What passe_encode_string wrote, passe_decode_string reads back: the same
   context, under the same type and no other, whenever the buffers for salt and
   output have room for them, and never a part of it (argon2/encoding.c).   *)
RoundTrip ==
  read # NotRead /\ text = made.dst =>
    /\ read.ret = OK <=>
         /\ read.type = made.type
         /\ read.room >= made.ctx.saltlen /\ read.room >= made.ctx.outlen
    /\ read.ret = OK => read.ctx = made.ctx

Prefix(type) == <<"$">> \o passe_argon2_type2string(type)
VersionPart(ctx) == Literal.version \o Decimal[ctx.version]
Enough == 2 * Len(text) + 20    \* more room than any string here needs

(* A context has one spelling, and a second one without its version if that is
   0x10: no leading zeros, no spare bits, nothing behind the output.  Whatever
   string passe_decode_string accepts is the one passe_encode_string would
   write; two strings never stand for the same hash (argon2/encoding.c).    *)
Canonical ==
  read.ret = OK =>
    LET again   == passe_encode_string(Enough, read.ctx, read.type).dst
        version == Prefix(read.type) \o VersionPart(read.ctx)
        rest    == SubSeq(again, Len(version) + 1, Len(again))
    IN  \/ text = again
        \/ read.ctx.version = ARGON2_VERSION_10 /\ text = Prefix(read.type) \o rest

(* Encoding a valid context succeeds exactly when the buffer has the length
   that passe_argon2_encodedlen asks for, and never writes past its end, also
   when it fails half way (argon2/encoding.c, argon2/argon2.c).             *)
EncodesWhenItFits ==
  made # NotMade =>
    /\ made.dst = <<>> \/ Len(made.dst) + 1 <= made.dst_len
    /\ ValidateInputs(made.ctx) = OK =>
         made.ret = OK <=> made.dst_len >= passe_argon2_encodedlen(made.ctx, made.type)

(* argon2/argon2.c: "No field can be longer than the encoded length".  Buffers of
   the length of the string never are what makes decoding fail.             *)
FieldsFit ==
  read # NotRead /\ read.room = max_field_len(text) =>
    read.ret = passe_decode_string(Enough, Enough, text, read.type).ret

=============================================================================
