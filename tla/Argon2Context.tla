---------------------------- MODULE Argon2Context ----------------------------
(***************************************************************************)
(* What the parts of the Argon2 code agree on about an argon2_context: its   *)
(* limits (argon2/argon2.h), passe_validate_inputs (argon2/core.c), the      *)
(* memory layout that passe_argon2_ctx derives from it, and the length of    *)
(* its hash string (argon2/argon2.c, argon2/encoding.c).                     *)
(*                                                                           *)
(* Word and MaxLanes stand for 2^32 and 2^24 - 1, Radix for ten.  A context  *)
(* is a record; validation looks at version, t_cost, m_cost, lanes, threads, *)
(* saltlen and outlen.  Passwords are given, and there is no secret, no      *)
(* associated data and no allocator: their checks always pass.               *)
(***************************************************************************)
EXTENDS Integers, Sequences

CONSTANTS Word, MaxLanes, Radix

ARGON2_SYNC_POINTS == 4
ARGON2_MIN_OUTLEN == 4
ARGON2_MIN_MEMORY == 2 * ARGON2_SYNC_POINTS
ARGON2_MIN_TIME == 1
ARGON2_MIN_LANES == 1
ARGON2_MIN_SALT_LENGTH == 8
UINT32_MAX == Word - 1    \* and the largest length, cost and memory

ARGON2_VERSION_10 == 16
ARGON2_VERSION_NUMBER == 19

ASSUME ContextAssumption ==
  /\ Word \in Nat /\ MaxLanes \in Nat /\ Radix \in Nat
  /\ MaxLanes >= 1 /\ 8 * MaxLanes < Word
  /\ ARGON2_VERSION_NUMBER < Word /\ Radix > 1

U32(n) == n % Word
UInt32 == 0 .. UINT32_MAX

(* The result codes that callers tell apart. *)
OK == "ARGON2_OK"
MISMATCH == "ARGON2_VERIFY_MISMATCH"

(* Wrong on purpose: the number of lanes is not bounded. *)
ValidateWithoutBound(ctx) ==
  IF ctx.saltlen < ARGON2_MIN_SALT_LENGTH THEN "ARGON2_SALT_TOO_SHORT"
  ELSE IF ctx.m_cost < ARGON2_MIN_MEMORY \/ ctx.m_cost < U32(8 * ctx.lanes)
       THEN "ARGON2_MEMORY_TOO_LITTLE"
  ELSE IF ctx.t_cost < ARGON2_MIN_TIME THEN "ARGON2_TIME_TOO_SMALL"
  ELSE IF ctx.lanes < ARGON2_MIN_LANES THEN "ARGON2_LANES_TOO_FEW"
  ELSE OK

(* passe_validate_inputs: the first check that fails. *)
ValidateInputs(ctx) ==
  IF ctx.outlen < ARGON2_MIN_OUTLEN THEN "ARGON2_OUTPUT_TOO_SHORT"
  ELSE IF ctx.outlen > UINT32_MAX THEN "ARGON2_OUTPUT_TOO_LONG"
  ELSE IF ctx.saltlen < ARGON2_MIN_SALT_LENGTH THEN "ARGON2_SALT_TOO_SHORT"
  ELSE IF ctx.saltlen > UINT32_MAX THEN "ARGON2_SALT_TOO_LONG"
  ELSE IF ctx.m_cost < ARGON2_MIN_MEMORY THEN "ARGON2_MEMORY_TOO_LITTLE"
  ELSE IF ctx.m_cost > UINT32_MAX THEN "ARGON2_MEMORY_TOO_MUCH"
  ELSE IF ctx.m_cost < U32(8 * ctx.lanes) THEN "ARGON2_MEMORY_TOO_LITTLE"
  ELSE IF ctx.t_cost < ARGON2_MIN_TIME THEN "ARGON2_TIME_TOO_SMALL"
  ELSE IF ctx.t_cost > UINT32_MAX THEN "ARGON2_TIME_TOO_LARGE"
  ELSE IF ctx.lanes < ARGON2_MIN_LANES THEN "ARGON2_LANES_TOO_FEW"
  ELSE IF ctx.lanes > MaxLanes THEN "ARGON2_LANES_TOO_MANY"
  ELSE IF ctx.threads < ARGON2_MIN_LANES THEN "ARGON2_THREADS_TOO_FEW"
  ELSE IF ctx.threads > MaxLanes THEN "ARGON2_THREADS_TOO_MANY"
  ELSE OK

(* The memory layout that passe_argon2_ctx chooses. *)
Layout(ctx) ==
  LET least  == U32(2 * ARGON2_SYNC_POINTS * ctx.lanes)
      blocks == IF ctx.m_cost < least THEN least ELSE ctx.m_cost
      unit   == U32(ctx.lanes * ARGON2_SYNC_POINTS)
      length == blocks \div unit
  IN  [memory_blocks  |-> U32(length * unit),
       segment_length |-> length,
       passes  |-> ctx.t_cost,
       lanes   |-> ctx.lanes,
       threads |-> IF ctx.threads > ctx.lanes THEN ctx.lanes ELSE ctx.threads]

(***************************************************************************)
(* The length of a hash string, with its NUL.                                *)
(***************************************************************************)
Types == {"d", "i", "id"}

passe_argon2_type2string(type) ==
  <<"a", "r", "g", "o", "n", "2">> \o
  CASE type = "d" -> <<"d">> [] type = "i" -> <<"i">> [] type = "id" -> <<"i", "d">>

passe_numlen[n \in Nat] == IF n < Radix THEN 1 ELSE 1 + passe_numlen[n \div Radix]

(* Four characters for three bytes, two or three for what is left. *)
passe_b64len(len) == 4 * (len \div 3) + (IF len % 3 = 0 THEN 0 ELSE 1 + (len % 3))

FixedLength == 15    \* strlen("$$v=$m=,t=,p=$$")

passe_argon2_encodedlen(ctx, type) ==
  FixedLength + Len(passe_argon2_type2string(type))
  + passe_numlen[ctx.t_cost] + passe_numlen[ctx.m_cost] + passe_numlen[ctx.lanes]
  + passe_b64len(ctx.saltlen) + passe_b64len(ctx.outlen)
  + passe_numlen[ARGON2_VERSION_NUMBER] + 1

=============================================================================
