-------------------------- MODULE MCArgon2Encoding --------------------------
(***************************************************************************)
(* Bytes of four bits, base64 digits of three, an accumulator of eight;      *)
(* numbers in base three, uint32_t below 27 and unsigned long up to 39.      *)
(* Letters and digits of the alphabet also occur in the fixed parts of a     *)
(* string.  Salts and outputs have all lengths modulo three, from the least to *)
(* the largest that fits a word.                                             *)
(***************************************************************************)
EXTENDS Argon2Encoding, FiniteSets, Functions

MCAlphabet == <<"A", "d", "m", "v", "0", "1", "2", "/">>
MCDigits == <<"0", "1", "2">>

Bytes(n, first, step) == [i \in 1 .. n |-> (first + step * i) % 16]
Context(version, m, t, p, salt, out) ==
  [version |-> version, m_cost |-> m, t_cost |-> t, lanes |-> p, threads |-> p,
   salt |-> salt, saltlen |-> Len(salt), out |-> out, outlen |-> Len(out)]

MCContexts ==
  {Context(19, 8, 1, 1, Bytes(8, 0, 0), Bytes(4, 15, 0)),
   Context(16, 26, 13, 3, Bytes(9, 3, 5), Bytes(5, 1, 7)),
   Context(19, 24, 3, 3, Bytes(26, 15, 0), Bytes(6, 8, 3)),
   Context(19, 26, 1, 4, Bytes(8, 0, 0), Bytes(4, 0, 0)),      \* too many lanes
   Context(19, 8, 1, 1, Bytes(7, 0, 0), Bytes(4, 0, 0)),       \* salt too short
   Context(19, 8, 1, 1, Bytes(8, 0, 0), Bytes(3, 0, 0))}       \* output too short

(* The empty buffer, some that end in the first fields, one that is a character
   too short, and the least that will do.                                   *)
MCRooms(ctx, type) ==
  LET least == passe_argon2_encodedlen(ctx, type)
  IN  {0, 1, 2, 9, 10, 23, least - 1, least}

(* The characters that a change may bring. *)
MCChars == {"A", "d", "m", "0", "1", "2", "/", "$", "=", " "}

(* All characters: these, and those of the alphabets and of the fixed parts. *)
MCChar ==
  MCChars \union Range(MCAlphabet) \union Range(MCDigits)
  \union {"a", "r", "g", "o", "n", "i", "v", "t", "p", ","}

(* The string without its version, which ends at the third "$". *)
OldSpelling(str) ==
  LET dollars == {i \in DOMAIN str : str[i] = "$"}
      second == CHOOSE i \in dollars : Cardinality({j \in dollars : j < i}) = 1
      third  == CHOOSE i \in dollars : Cardinality({j \in dollars : j < i}) = 2
  IN  SubSeq(str, 1, second - 1) \o SubSeq(str, third, Len(str))

Edits(str) ==
  {[str EXCEPT ![i] = c] : i \in DOMAIN str, c \in MCChars}
  \union {SubSeq(str, 1, i - 1) \o SubSeq(str, i + 1, Len(str)) : i \in DOMAIN str}
  \union {SubSeq(str, 1, i) \o <<c>> \o SubSeq(str, i + 1, Len(str)) :
            i \in 0 .. Len(str), c \in MCChars}

(* One character replaced, removed or inserted, with or without the version. *)
MCChanged(str) == Edits(str) \union {OldSpelling(str)} \union Edits(OldSpelling(str))

=============================================================================
