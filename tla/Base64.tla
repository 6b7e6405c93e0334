------------------------------- MODULE Base64 -------------------------------
(***************************************************************************)
(* decode_base64 and passe_encode_base64 of bcrypt.c: base64 without padding *)
(* in bcrypt's own alphabet.  A character is its value in that alphabet,     *)
(* 0 .. 63; anything else (the code's 255) is not in the alphabet.           *)
(* Sequences start at 1: byte i sits in the group of 3 that starts at        *)
(* Group(3, i), character k in the group of 4 that starts at Group(4, k).    *)
(***************************************************************************)
EXTENDS Integers, Sequences

Bytes == 0 .. 255
Chars == 0 .. 63

(* The characters that n bytes take; BCRYPT_SALTSPACE has the same formula. *)
EncodedLength(n) == (4 * n + 2) \div 3

(* The item at i, or nothing but zero bits after the end. *)
ItemAt(seq, i) == IF i <= Len(seq) THEN seq[i] ELSE 0

(* Four characters from three bytes. *)
EncodeAt(data, k) ==
  LET g == 3 * ((k - 1) \div 4)
      c1 == ItemAt(data, g + 1)
      c2 == ItemAt(data, g + 2)
      c3 == ItemAt(data, g + 3)
  IN  CASE (k - 1) % 4 = 0 -> c1 \div 4
        [] (k - 1) % 4 = 1 -> (c1 % 4) * 16 + c2 \div 16
        [] (k - 1) % 4 = 2 -> (c2 % 16) * 4 + c3 \div 64
        [] (k - 1) % 4 = 3 -> c3 % 64

Encode(data) == [k \in 1 .. EncodedLength(Len(data)) |-> EncodeAt(data, k)]

(* Three bytes from four characters. *)
DecodeAt(chars, i) ==
  LET g == 4 * ((i - 1) \div 3)
      c1 == ItemAt(chars, g + 1)
      c2 == ItemAt(chars, g + 2)
      c3 == ItemAt(chars, g + 3)
      c4 == ItemAt(chars, g + 4)
  IN  CASE (i - 1) % 3 = 0 -> c1 * 4 + c2 \div 16
        [] (i - 1) % 3 = 1 -> (c2 % 16) * 16 + c3 \div 4
        [] (i - 1) % 3 = 2 -> (c3 % 4) * 64 + c4

(* The decoder reads just the characters that n bytes take: what follows them,
   and the spare low bits of the last one, are ignored.                     *)
Decodable(n, chars) ==
  /\ Len(chars) >= EncodedLength(n)
  /\ \A k \in 1 .. EncodedLength(n) : chars[k] \in Chars

Decode(n, chars) == [i \in 1 .. n |-> DecodeAt(chars, i)]

=============================================================================
