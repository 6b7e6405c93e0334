------------------------------- MODULE Bcrypt -------------------------------
(***************************************************************************)
(* An application that calls Passe.Bcrypt: bcrypt.ml, bcrypt_stub.c and      *)
(* passe_bcrypt_hashpass (bcrypt.c).  It keeps the last hash it made and     *)
(* verifies passwords against it, or against what became of it.              *)
(*                                                                           *)
(* A text is a salt or a hash: its length, prefix, cost, salt characters and *)
(* digest.  Blowfish is abstract: a digest is the record of everything it is *)
(* computed from, so digests are equal when all of that is.                  *)
(***************************************************************************)
EXTENDS BcryptKey, Base64

CONSTANTS SaltBytes,      \* BCRYPT_MAXSALT
          Plains,         \* the passwords: OCaml strings
          Costs,          \* the costs given to hash
          RandomSalts,    \* what Crypto.generate returns
          SaltTexts,      \* the salts given to hash_with_salt
          Changed(_),     \* what a stored hash may have become
          OtherDigest,    \* a digest that was not computed
          NoText, NoDigest

VARIABLES
  op,      \* the call that has returned, or "none"
  plain,   \* its password
  text,    \* its salt or hash
  result,  \* its result
  stored,  \* the last hash made, or NoText
  origin   \* the password it was made from

vars == <<op, plain, text, result, stored, origin>>

SaltChars == EncodedLength(SaltBytes)
AllWords == 4 * 6   \* wrong on purpose

CipherBytes == 4 * 6 - 1   \* all BCRYPT_WORDS but the last byte
PrefixLength == 4
salt_size == PrefixLength + 3 + SaltChars       \* 29
hash_size == salt_size + 31                     \* 60

min_cost == 4
max_cost == 31
NulChar == -1    \* a NUL among the salt characters, ...
NulCost == -2    \* ... in the cost, ...
NulPrefix == "with a NUL"    \* ... in the prefix
Variants == {"$2a$", "$2y$", "$2b$"}

Digests == [key : [0 .. MaxPassword - 1 -> 0 .. Byte - 1],
            salt : [1 .. SaltBytes -> Bytes], cost : min_cost .. max_cost]

(* A character outside the alphabet is 255, or NulChar. *)
Texts == [length : Nat, prefix : Variants \union {"other", NulPrefix}, cost : Int,
          salt : Seq(Chars \union {255, NulChar}),
          digest : Digests \union {OtherDigest, NoDigest}]

ASSUME TextAssumption ==
  /\ SaltBytes \in Nat \ {0}
  /\ RandomSalts \subseteq [1 .. SaltBytes -> Bytes]
  /\ Costs \subseteq Int
  /\ Plains \subseteq Seq(0 .. Byte - 1)
  /\ SaltTexts \subseteq Texts
  /\ NoText \notin Texts /\ OtherDigest \notin Digests /\ NoDigest \notin Digests

Errors == {"Truncated", "Invalid_cost", "Invalid_prefix", "Invalid_hash",
           "Salt_generation_failure", "Hash_failure", "Invalid_salt_length"}

Init ==
  /\ op = "none" /\ plain = <<>> /\ text = NoText /\ result = "none"
  /\ stored = NoText /\ origin = <<>>

(***************************************************************************)
(* passe_bcrypt_hashpass.                                                    *)
(***************************************************************************)

(* The minor version, the cost and the salt are checked and decoded in turn;
   a cost that is not two digits and a '$' is NoCost.                       *)
NoCost == -1
Minor(salt) == IF salt.prefix = "$2a$" THEN "a" ELSE "b"

Parses(salt) ==
  /\ salt.prefix \in {"$2a$", "$2b$"}
  /\ salt.cost # NoCost /\ salt.cost >= 4 /\ salt.cost <= 31
  /\ (Len(salt.salt) * 3) \div 4 >= SaltBytes
  /\ Decodable(SaltBytes, salt.salt)

(* Wrong on purpose: the salt is copied to the output as it was given. *)
HashPassCopies(salt, password) ==
  LET csalt == Decode(SaltBytes, salt.salt)
  IN  [length |-> salt_size + EncodedLength(CipherBytes),
       prefix |-> salt.prefix, cost |-> salt.cost,
       salt |-> salt.salt,
       digest |-> [key |-> KeyStream(Minor(salt), password), salt |-> csalt,
                   cost |-> salt.cost]]

(* The salt is decoded, and encoded again for the output. *)
HashPass(salt, password) ==
  LET csalt == Decode(SaltBytes, salt.salt)
  IN  [length |-> salt_size + EncodedLength(CipherBytes),
       prefix |-> salt.prefix, cost |-> salt.cost,
       salt |-> Encode(csalt),
       digest |-> [key |-> KeyStream(Minor(salt), password), salt |-> csalt,
                   cost |-> salt.cost]]

(***************************************************************************)
(* hash_with_salt: its result for a salt and a password, and its hash.       *)
(***************************************************************************)
is_salt_valid(salt) ==
  \/ salt.prefix \in Variants /\ salt.length = salt_size
  \/ salt.prefix \notin Variants /\ salt.length = SaltChars

(* The backend does not know 2y, and hashes it as 2b. *)
Normalized(salt) ==
  IF salt.length # SaltChars /\ salt.prefix = "$2y$"
  THEN [salt EXCEPT !.prefix = "$2b$"] ELSE salt

TooLongByOne(password) == Len(password) > MaxPassword + 1   \* wrong on purpose

TooLong(password) == Len(password) > MaxPassword

(* bcrypt_stub.c refuses a password or a salt with a NUL anywhere in it. *)
CSafe(password, salt) ==
  /\ ~ HasNul(password)
  /\ salt.prefix # NulPrefix /\ salt.cost # NulCost
  /\ \A i \in 1 .. Len(salt.salt) : salt.salt[i] # NulChar

(* What is_salt_valid lets through always has a variant, and no hash is empty:
   the branches for the opposite are left out.                              *)
WithSalt(salt, password) ==
  IF salt.length < PrefixLength THEN "raises Invalid_argument"    \* String.sub
  ELSE IF ~ is_salt_valid(salt) THEN "Invalid_salt_length"
  ELSE IF TooLong(password) THEN "Truncated"
  ELSE IF ~ CSafe(password, salt) THEN "raises Invalid_argument"
  ELSE IF ~ Parses(Normalized(salt)) THEN "raises Failure"
  ELSE "Ok"

(* A salt without a prefix does not parse, so the prefix is the variant's. *)
MadeWith(salt, password) == HashPass(Normalized(salt), password)

(***************************************************************************)
(* The calls, which start when the last one has been dealt with.             *)
(***************************************************************************)
Called(name, p, t, r) ==
  /\ op = "none"
  /\ op' = name /\ plain' = p /\ text' = t /\ result' = r

Kept(made, p) == stored' = made /\ origin' = p

(* hash: a salt of its own, after the cost is checked. *)
GenerateSalt(cost, bytes) ==
  [length |-> salt_size, prefix |-> "$2b$", cost |-> cost,
   salt |-> Encode(bytes), digest |-> NoDigest]

CostAllowed(cost) == cost >= min_cost /\ cost <= max_cost

Hash(p, cost, bytes) ==
  LET salt == GenerateSalt(cost, bytes)
  IN  /\ CostAllowed(cost)
      /\ \/ /\ Called("hash", p, salt, WithSalt(salt, p))
            /\ IF result' = "Ok" THEN Kept(MadeWith(salt, p), p) ELSE UNCHANGED <<stored, origin>>
         \/ /\ Called("hash", p, salt, "raises Failure")   \* malloc for the base64
            /\ UNCHANGED <<stored, origin>>

HashRefused(p, cost) ==
  /\ ~ CostAllowed(cost)
  /\ Called("hash", p, NoText, "Invalid_cost")
  /\ UNCHANGED <<stored, origin>>

HashWithSalt(p, salt) ==
  /\ Called("hash_with_salt", p, salt, WithSalt(salt, p))
  /\ IF result' = "Ok" THEN Kept(MadeWith(salt, p), p) ELSE UNCHANGED <<stored, origin>>

(* verify: the first 29 characters are the salt to hash with. *)
SaltOf(hash) == [hash EXCEPT !.length = salt_size, !.digest = NoDigest]

VerifyOutcome(hash, p) ==
  IF hash.length # hash_size THEN "Invalid_hash"
  ELSE IF hash.prefix \notin Variants THEN "Invalid_prefix"
  ELSE IF WithSalt(SaltOf(hash), p) # "Ok" THEN WithSalt(SaltOf(hash), p)
  ELSE IF MadeWith(SaltOf(hash), p) = hash THEN "Ok true" ELSE "Ok false"

Verify(p, hash) ==
  /\ Called("verify", p, hash, VerifyOutcome(hash, p))
  /\ UNCHANGED <<stored, origin>>

(* verify_exn: every Error becomes an exception. *)
VerifyExn(p, hash) ==
  /\ Called("verify_exn", p, hash,
            IF VerifyOutcome(hash, p) \in Errors THEN "raises Invalid_argument"
            ELSE VerifyOutcome(hash, p))
  /\ UNCHANGED <<stored, origin>>

(* What the application gives to verify: the stored hash, or one whose digest at
   most was replaced by one that is not computed from any password.         *)
Presented ==
  {hash \in Changed(stored) : /\ stored # NoText /\ hash \in Texts
                              /\ hash.digest \in {stored.digest, OtherDigest}}

(* The application has dealt with the result. *)
Done ==
  /\ op # "none"
  /\ op' = "none" /\ plain' = <<>> /\ text' = NoText /\ result' = "none"
  /\ UNCHANGED <<stored, origin>>

Next ==
  \/ \E p \in Plains :
       \/ \E cost \in Costs : HashRefused(p, cost) \/ \E bytes \in RandomSalts : Hash(p, cost, bytes)
       \/ \E salt \in SaltTexts : HashWithSalt(p, salt)
       \/ \E hash \in Presented : Verify(p, hash) \/ VerifyExn(p, hash)
  \/ Done

Spec == Init /\ [][Next]_vars

(***************************************************************************)
(* Properties.                                                               *)
(***************************************************************************)

Verifying == op \in {"verify", "verify_exn"}

(* Types; a stored hash has the form that verify asks for. *)
TypeOK ==
  /\ op \in {"none", "hash", "hash_with_salt", "verify", "verify_exn"}
  /\ plain \in Plains \union {<<>>} /\ origin \in Plains \union {<<>>}
  /\ text \in Texts \union {NoText} /\ stored \in Texts \union {NoText}
  /\ result \in Errors \union {"none", "Ok", "Ok true", "Ok false",
                               "raises Invalid_argument", "raises Failure"}
  /\ stored # NoText =>
       /\ stored.length = hash_size /\ stored.prefix \in Variants
       /\ Decodable(SaltBytes, stored.salt)

(* Verifying an untouched hash, whatever salt it was made with, is true for the
   password it was made from and for no other: two passwords never share a
   key stream, and the salt in a hash leads back to the same hash
   (bcrypt.ml, hash and verify).                                            *)
VerifyAgrees ==
  Verifying /\ text = stored =>
    (result = "Ok true") <=> (plain = origin)

(* A changed hash is accepted for no other password, salt or cost than the one
   its digest was computed from.  (Only 2a and 2b may be exchanged: bcrypt.c
   computes the same for both, up to the limit of bcrypt.ml.)               *)
NoFalseAccept ==
  Verifying /\ result = "Ok true" =>
    /\ plain = origin /\ text.digest = stored.digest
    /\ text.salt = stored.salt /\ text.cost = stored.cost

(* What is stored costs what bcrypt.ml allows, also when the caller of
   hash_with_salt chose the cost, and is spelt in the one way that verify
   accepts: no spare bits in the last character of the salt (bcrypt.c).     *)
StoredIsCanonical ==
  stored # NoText =>
    /\ stored.cost \in min_cost .. max_cost
    /\ stored.salt = Encode(Decode(SaltBytes, stored.salt))
    /\ stored.prefix # "$2y$"

(* bcrypt.mli: "[verify ~hash s] verifies that [s] matches the given [hash]":
   also when another program wrote the hash with the prefix $2y$, which
   hash_with_salt maps to $2b$.                                             *)
Verifies2y ==
  Verifying /\ stored # NoText /\ text = [stored EXCEPT !.prefix = "$2y$"] =>
    (result = "Ok true") <=> (plain = origin)

(* bcrypt.mli: verify_exn "is the same as [verify ~hash s] but raises
   Invalid_argument [s] on error".                                          *)
OnlyDeclaredErrors == op = "verify_exn" => result # "raises Failure"

(***************************************************************************)
(* The inductive invariant of BcryptProofs.                                  *)
(***************************************************************************)

(* What is stored was made by bcrypt.c from a password it can read to its end. *)
StoredInv ==
  stored # NoText =>
    /\ origin \in Plains /\ ~ TooLong(origin) /\ ~ HasNul(origin)
    /\ stored.length = hash_size /\ stored.prefix \in {"$2a$", "$2b$"}
    /\ stored.cost \in min_cost .. max_cost
    /\ stored.digest \in Digests
    /\ stored.digest = [key |-> KeyStream(Minor(stored), origin),
                        salt |-> stored.digest.salt, cost |-> stored.cost]
    /\ stored.salt = Encode(stored.digest.salt)

(* verify and verify_exn agree on what matches. *)
ResultInv ==
  Verifying =>
    /\ stored # NoText /\ plain \in Plains /\ text \in Texts
    /\ text.digest \in {stored.digest, OtherDigest}
    /\ (result = "Ok true") <=> (VerifyOutcome(text, plain) = "Ok true")

IInv == TypeOK /\ StoredInv /\ ResultInv

=============================================================================
