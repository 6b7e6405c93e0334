----------------------------- MODULE BcryptKey -----------------------------
(***************************************************************************)
(* What bcrypt makes of a password (passe_bcrypt_hashpass of bcrypt.c and    *)
(* the stream2word of blf.c): the C string with its NUL, repeated until it   *)
(* has filled the P-array.  Two passwords hash alike exactly when these      *)
(* streams are equal.                                                        *)
(*                                                                           *)
(* MaxPassword stands for 72, the bytes of the P-array (BLF_MAXUTILIZED) and *)
(* the limit of bcrypt.ml and of minor version b; Byte stands for 256.       *)
(***************************************************************************)
EXTENDS Integers, Sequences

CONSTANTS MaxPassword, Byte

ASSUME KeyAssumption ==
  /\ MaxPassword \in Nat /\ MaxPassword >= 1
  /\ Byte \in Nat /\ MaxPassword + 1 < Byte

(* An OCaml string is any sequence of bytes; the C code sees what is before
   the first NUL, and a NUL.                                                *)
HasNul(string) == \E i \in 1 .. Len(string) : string[i] = 0

strlen(string) ==
  IF HasNul(string)
  THEN CHOOSE n \in 0 .. Len(string) :
         string[n + 1] = 0 /\ \A i \in 1 .. n : string[i] # 0
  ELSE Len(string)

CString(string) == Append(string, 0)

KeyWithoutNul(minor, password) == strlen(password)   \* wrong on purpose

(* key_len: the length with the NUL, in one byte for minor version a. *)
KeyLength(minor, password) ==
  IF minor = "a"
  THEN (strlen(password) + 1) % Byte
  ELSE (IF strlen(password) > MaxPassword THEN MaxPassword ELSE strlen(password)) + 1

(* stream2word starts again when its index reaches the length; at a length of
   0 that is before every byte.                                             *)
StreamIndex(length, j) == IF length = 0 THEN 0 ELSE j % length

KeyStream(minor, password) ==
  [j \in 0 .. MaxPassword - 1 |->
     CString(password)[StreamIndex(KeyLength(minor, password), j) + 1]]

=============================================================================
