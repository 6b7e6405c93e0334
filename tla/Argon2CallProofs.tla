-------------------------- MODULE Argon2CallProofs --------------------------
(***************************************************************************)
(* What a caller of Passe.Argon2 may rely on, for all passwords, parameters, *)
(* salts, changes to a stored hash and word sizes: the layout of the  *)
(* memory is sound, buffers are freed once and the tag is wiped, and verify  *)
(* answers for the right password.                                           *)
(***************************************************************************)
EXTENDS Argon2Call, TLAPS

(***************************************************************************)
(* Validation and layout.                                                    *)
(***************************************************************************)
LEMMA SmallMod ==
  ASSUME NEW n \in Nat, n < Word
  PROVE  U32(n) = n
BY ContextAssumption DEF U32

LEMMA ValidationCodes ==
  ASSUME NEW ctx
  PROVE  ValidateInputs(ctx) \notin
           {MISMATCH, "ARGON2_MEMORY_ALLOCATION_ERROR", "ARGON2_THREAD_FAIL"}
BY DEF ValidateInputs, MISMATCH, OK

LEMMA Validated ==
  ASSUME NEW ctx \in Contexts, ValidateInputs(ctx) = OK
  PROVE  /\ ctx.lanes \in 1 .. MaxLanes /\ ctx.threads \in 1 .. MaxLanes
         /\ ctx.t_cost >= 1
         /\ ctx.m_cost \in 0 .. Word - 1 /\ ctx.m_cost >= 8 * ctx.lanes
<1>1. /\ ctx.lanes \in 0 .. Word - 1 /\ ctx.threads \in 0 .. Word - 1
      /\ ctx.m_cost \in 0 .. Word - 1 /\ ctx.t_cost \in 0 .. Word - 1
  BY DEF Contexts, UInt32, UINT32_MAX
<1>2. /\ ~ ctx.lanes < ARGON2_MIN_LANES /\ ~ ctx.lanes > MaxLanes
      /\ ~ ctx.threads < ARGON2_MIN_LANES /\ ~ ctx.threads > MaxLanes
      /\ ~ ctx.t_cost < ARGON2_MIN_TIME
      /\ ~ ctx.m_cost < U32(8 * ctx.lanes)
  BY DEF ValidateInputs, OK
<1>3. ctx.lanes \in 1 .. MaxLanes /\ ctx.threads \in 1 .. MaxLanes /\ ctx.t_cost >= 1
  BY <1>1, <1>2, ContextAssumption DEF ARGON2_MIN_LANES, ARGON2_MIN_TIME
<1>4. 8 * ctx.lanes \in Nat /\ 8 * ctx.lanes < Word
  BY <1>1, <1>3, ContextAssumption, SMT
<1>5. U32(8 * ctx.lanes) = 8 * ctx.lanes
  BY <1>4, SmallMod
<1> QED BY <1>1, <1>2, <1>3, <1>4, <1>5, SMT

LEMMA AtLeastOnce ==
  ASSUME NEW a \in Nat, NEW b \in Nat, a >= 1
  PROVE  a * b >= b
<1>1. (a - 1) * b >= 0
  <2> DEFINE d == a - 1
  <2>1. d \in Nat
    BY SMT
  <2> HIDE DEF d
  <2>2. d * b >= 0
    BY <2>1, SMT
  <2> QED BY <2>2 DEF d
<1>2. a * b = b + (a - 1) * b
  BY SMT
<1>3. a * b \in Nat /\ (a - 1) * b \in Int
  BY SMT
<1> QED BY <1>1, <1>2, <1>3, SMT

LEMMA LayoutOfValidated ==
  ASSUME NEW ctx \in Contexts, ValidateInputs(ctx) = OK
  PROVE  LET layout == Layout(ctx)
             lane_length == layout.segment_length * ARGON2_SYNC_POINTS
         IN  /\ layout.segment_length >= 2 /\ layout.passes >= 1
             /\ lane_length < Word
             /\ layout.lanes >= 1 /\ layout.threads \in 1 .. layout.lanes
             /\ layout.memory_blocks = layout.lanes * lane_length
             /\ layout.memory_blocks <= ctx.m_cost
<1> DEFINE n == ctx.lanes
           u == 4 * n
           q == ctx.m_cost \div u
<1>1. /\ n \in 1 .. MaxLanes /\ ctx.threads \in 1 .. MaxLanes /\ ctx.t_cost >= 1
      /\ ctx.m_cost \in Nat /\ ctx.m_cost < Word /\ ctx.m_cost >= 8 * n
  BY Validated, ContextAssumption, SMT
<1>2. n \in Nat /\ n >= 1 /\ 8 * n < Word /\ u \in Nat /\ u >= 4 /\ u < Word
  BY <1>1, ContextAssumption, SMT
<1>3. U32(n * 4) = u /\ U32(2 * 4 * n) = 8 * n
  <2>1. n * 4 = u /\ 2 * 4 * n = 8 * n /\ 8 * n \in Nat
    BY <1>2, SMT
  <2> QED BY <2>1, <1>2, SmallMod
<1>4. /\ q \in Int /\ u * q <= ctx.m_cost /\ ctx.m_cost < u * q + u
      /\ u * q \in Int
  <2> HIDE DEF u
  <2> QED BY <1>1, <1>2, SMT
<1>5. q >= 2
  <2>1. ctx.m_cost >= u + u
    BY <1>1, <1>2, SMT
  <2>2. SUFFICES ASSUME q <= 1 PROVE FALSE
    <3> HIDE DEF q
    <3> QED BY <1>4, SMT
  <2>3. u * (1 - q) >= 0
    <3> DEFINE d == 1 - q
    <3>1. d \in Nat
      <4> HIDE DEF q
      <4> QED BY <1>4, <2>2, SMT
    <3> HIDE DEF d, u
    <3>2. u * d >= 0
      BY <3>1, <1>2, SMT
    <3> QED BY <3>2 DEF d
  <2>4. u * (1 - q) = u - u * q
    <3> HIDE DEF u, q
    <3> QED BY <1>2, <1>4, SMT
  <2>5. u * q <= u
    <3> HIDE DEF u, q
    <3> QED BY <1>2, <1>4, <2>3, <2>4, SMT
  <2> HIDE DEF u, q
  <2> QED BY <1>1, <1>2, <1>4, <2>1, <2>5, SMT
<1>6. u * q = n * (q * 4) /\ q * u = u * q /\ q * 4 \in Nat /\ u * q \in Nat
  <2>1. q \in Nat
    <3> HIDE DEF q
    <3> QED BY <1>4, <1>5, SMT
  <2> HIDE DEF q
  <2> QED BY <1>2, <2>1, SMT
<1>7. q * 4 <= ctx.m_cost /\ q * 4 < Word /\ U32(q * u) = n * (q * 4)
  <2>1. n * (q * 4) >= q * 4
    BY <1>2, <1>6, AtLeastOnce
  <2>2. u * q < Word
    <3> HIDE DEF q, u
    <3> QED BY <1>1, <1>4, <1>6, ContextAssumption, SMT
  <2>3. U32(u * q) = u * q
    BY <1>6, <2>2, SmallMod
  <2>4. q * 4 <= ctx.m_cost /\ q * 4 < Word
    <3> HIDE DEF q, u
    <3> QED BY <1>1, <1>4, <1>6, <2>1, ContextAssumption, SMT
  <2> QED BY <1>6, <2>3, <2>4
<1>8. ~ ctx.m_cost < 8 * n
  BY <1>1, <1>2, SMT
<1>9. Layout(ctx) = [memory_blocks |-> U32(q * u), segment_length |-> q,
                     passes |-> ctx.t_cost, lanes |-> n,
                     threads |-> IF ctx.threads > n THEN n ELSE ctx.threads]
  BY <1>3, <1>8 DEF Layout, ARGON2_SYNC_POINTS
<1>10. (IF ctx.threads > n THEN n ELSE ctx.threads) \in 1 .. n
  BY <1>1, SMT
<1>11. n * (q * 4) <= ctx.m_cost
  BY <1>4, <1>6
<1> HIDE DEF q, u
<1> QED BY <1>1, <1>2, <1>5, <1>7, <1>9, <1>10, <1>11 DEF ARGON2_SYNC_POINTS

(***************************************************************************)
(* The invariant.                                                            *)
(***************************************************************************)
LEMMA NoContextTyped == NoContext \in Contexts
<1>1. 0 \in UInt32 /\ ARGON2_VERSION_NUMBER \in UInt32
  BY ContextAssumption DEF UInt32, UINT32_MAX, ARGON2_VERSION_NUMBER
<1> QED BY <1>1 DEF NoContext, Contexts

LEMMA TagTyped ==
  ASSUME NEW p \in Passwords, NEW ctx \in Contexts
  PROVE  TagOf(p, ctx) \in Tags
BY DEF TagOf, Tags, Contexts

LEMMA InitInv == Init => IInv
<1> SUFFICES ASSUME Init PROVE IInv
  OBVIOUS
<1>1. TypeOK
  BY NoContextTyped DEF Init, TypeOK, NoPointers, NULL
<1>2. BuffersInv
  BY DEF Init, BuffersInv, Live, InCtx
<1>3. SecretInv
  BY DEF Init, SecretInv
<1>4. ResultInv
  BY DEF Init, ResultInv, Computing, Ending, OK, MISMATCH
<1>5. StoredInv
  BY DEF Init, StoredInv
<1> QED BY <1>1, <1>2, <1>3, <1>4, <1>5 DEF IInv

LEMMA RefusedStep ==
  ASSUME IInv, NEW params, NEW salt, HashRefused(params, salt) \/ VerifyRefused
  PROVE  IInv'
<1> USE DEF HashRefused, VerifyRefused, call
<1>1. TypeOK'
  BY DEF IInv, TypeOK
<1>2. BuffersInv'
  BY DEF IInv, BuffersInv, Live, InCtx, Freed
<1>3. SecretInv'
  BY DEF IInv, SecretInv
<1>4. ResultInv'
  BY DEF IInv, ResultInv, Computing, Ending
<1>5. StoredInv'
  BY DEF IInv, StoredInv
<1> QED BY <1>1, <1>2, <1>3, <1>4, <1>5 DEF IInv

LEMMA HashCallStep ==
  ASSUME IInv, NEW p \in Passwords, NEW t \in Int, NEW m \in Int, NEW l \in Int,
         NEW salt \in [bytes : SaltBytes, length : Nat],
         HashCall(p, [t_cost |-> t, m_cost |-> m, parallelism |-> l], salt)
  PROVE  IInv'
<1> USE DEF HashCall
<1>1. U32(t) \in UInt32 /\ U32(m) \in UInt32 /\ U32(l) \in UInt32
  BY ContextAssumption DEF U32, UInt32, UINT32_MAX
<1>2. ARGON2_VERSION_NUMBER \in UInt32 /\ HashLength \in Nat
  BY ContextAssumption DEF UInt32, UINT32_MAX, ARGON2_VERSION_NUMBER, HashLength
<1>3. context' \in Contexts
  BY <1>1, <1>2 DEF Contexts
<1>4. TypeOK'
  BY <1>3 DEF IInv, TypeOK
<1>5. BuffersInv'
  BY DEF IInv, BuffersInv, Live, InCtx
<1>6. SecretInv'
  BY DEF IInv, SecretInv
<1>7. ResultInv'
  BY DEF IInv, ResultInv, Computing, Ending, OK, MISMATCH
<1>8. StoredInv'
  BY DEF IInv, StoredInv
<1> QED BY <1>4, <1>5, <1>6, <1>7, <1>8 DEF IInv

LEMMA HashMallocStep == ASSUME IInv, HashMalloc PROVE IInv'
<1> USE DEF HashMalloc, call
<1>1. TypeOK'
  BY DEF IInv, TypeOK
<1>2. BuffersInv'
  <2>1. Live = {} /\ ptr = NoPointers /\ op = "hash"
    BY DEF IInv, BuffersInv
  <2>2. CASE pc' = "stub" /\ UNCHANGED <<ptr, heap>>
    BY <2>1, <2>2 DEF BuffersInv, Live, InCtx
  <2>3. CASE /\ pc' = "ctx" /\ ptr' = [ptr EXCEPT !.out = "hash out"]
             /\ heap' = heap \union {"hash out"}
    <3>1. ptr'.salt = NULL /\ ptr'.out = "hash out" /\ ptr'.desired = NULL
      BY <2>1, <2>3 DEF NoPointers
    <3>2. Live' = {"hash out"}
      BY <2>1, <2>3 DEF Live
    <3> QED BY <2>1, <2>3, <3>1, <3>2 DEF BuffersInv
  <2> QED BY <2>2, <2>3
<1>3. SecretInv'
  BY DEF IInv, SecretInv
<1>4. ResultInv'
  BY DEF IInv, BuffersInv, ResultInv, Computing, Ending, OK, MISMATCH
<1>5. StoredInv'
  BY DEF IInv, StoredInv
<1> QED BY <1>1, <1>2, <1>3, <1>4, <1>5 DEF IInv

LEMMA HashExitStep == ASSUME IInv, HashFails \/ HashDoesNotFit \/ HashEncoded PROVE IInv'
<1> USE DEF HashFails, HashDoesNotFit, HashEncoded, AtHashExit, call
<1>0. ptr.out = "hash out" /\ Live = {"hash out"}
  BY DEF IInv, BuffersInv, InCtx
<1>1. TypeOK'
  BY <1>0 DEF IInv, TypeOK
<1>2. BuffersInv'
  BY <1>0 DEF IInv, BuffersInv, Live, InCtx
<1>3. SecretInv'
  BY <1>0 DEF IInv, SecretInv
<1>4. ResultInv'
  BY DEF IInv, ResultInv, Computing, Ending, OK, MISMATCH
<1>5. StoredInv'
  BY DEF IInv, StoredInv
<1> QED BY <1>1, <1>2, <1>3, <1>4, <1>5 DEF IInv

LEMMA ResultStep == ASSUME IInv, HashResult \/ VerifyResult PROVE IInv'
<1> USE DEF HashResult, VerifyResult, CallEnds
<1>1. TypeOK'
  <2>1. NoPointers \in [salt : {NULL, "salt"}, out : {NULL, "hash out", "first out", "second out"},
                        desired : {NULL, "first out"}, memory : {NULL, "memory"}]
    BY DEF NoPointers
  <2> QED BY <2>1, NoContextTyped DEF IInv, TypeOK
<1>2. BuffersInv'
  BY DEF IInv, BuffersInv, Live, InCtx
<1>3. SecretInv'
  BY DEF IInv, SecretInv
<1>4. ResultInv'
  BY DEF IInv, ResultInv, Computing, Ending, OK, MISMATCH
<1>5. StoredInv'
  <2>1. CASE UNCHANGED stored
    BY <2>1 DEF IInv, StoredInv
  <2>2. CASE /\ ret = OK /\ pc = "stub" /\ op = "hash"
             /\ stored' = [pwd |-> pwd, asked |-> asked, ctx |-> context, tag |-> tag]
    <3>1. pwd \in Passwords /\ context \in Contexts
      BY <2>2 DEF IInv, TypeOK
    <3>2. tag = TagOf(pwd, context) /\ ValidateInputs(context) = OK
      BY <2>2 DEF IInv, ResultInv, Ending
    <3>3. tag \in Tags
      BY <3>1, <3>2, TagTyped
    <3> QED BY <2>2, <3>2, <3>3 DEF StoredInv
  <2> QED BY <2>1, <2>2
<1> QED BY <1>1, <1>2, <1>3, <1>4, <1>5 DEF IInv

LEMMA CtxValidateStep == ASSUME IInv, CtxValidate PROVE IInv'
<1> USE DEF CtxValidate, call
<1>1. TypeOK'
  BY DEF IInv, TypeOK
<1>2. BuffersInv'
  BY DEF IInv, BuffersInv, Live, InCtx
<1>3. SecretInv'
  BY DEF IInv, SecretInv
<1>4. ResultInv'
  <2>1. CASE ret' = OK
    BY <2>1 DEF IInv, ResultInv, Computing, Ending, OK, MISMATCH
  <2>2. CASE ret' # OK
    BY <2>2, ValidationCodes DEF IInv, ResultInv, Computing, Ending, OK, MISMATCH
  <2> QED BY <2>1, <2>2
<1>5. StoredInv'
  BY DEF IInv, StoredInv
<1> QED BY <1>1, <1>2, <1>3, <1>4, <1>5 DEF IInv

LEMMA InitializeStep == ASSUME IInv, Initialize PROVE IInv'
<1> USE DEF Initialize, call
<1>1. TypeOK'
  <2>1. ptr' \in [salt : {NULL, "salt"}, out : {NULL, "hash out", "first out", "second out"},
                  desired : {NULL, "first out"}, memory : {NULL, "memory"}]
    BY DEF IInv, TypeOK
  <2> QED BY <2>1 DEF IInv, TypeOK
<1>2. BuffersInv'
  <2>1. Live' = Live
    BY DEF Live
  <2>2. ptr'.salt = ptr.salt /\ ptr'.out = ptr.out /\ ptr'.desired = ptr.desired
    BY DEF IInv, TypeOK
  <2>3. pc' = "fill" => ptr'.memory = "memory" /\ "memory" \in heap'
    BY DEF IInv, TypeOK
  <2> QED BY <2>1, <2>2, <2>3 DEF IInv, BuffersInv, InCtx
<1>3. SecretInv'
  BY DEF IInv, SecretInv
<1>4. ResultInv'
  BY DEF IInv, ResultInv, Computing, Ending, OK, MISMATCH
<1>5. StoredInv'
  BY DEF IInv, StoredInv
<1> QED BY <1>1, <1>2, <1>3, <1>4, <1>5 DEF IInv

LEMMA FillStep == ASSUME IInv, Fill PROVE IInv'
<1> USE DEF Fill, call
<1>1. TypeOK'
  BY DEF IInv, TypeOK
<1>2. BuffersInv'
  BY DEF IInv, BuffersInv, Live, InCtx
<1>3. SecretInv'
  BY DEF IInv, SecretInv
<1>4. ResultInv'
  BY DEF IInv, ResultInv, Computing, Ending, OK, MISMATCH
<1>5. StoredInv'
  BY DEF IInv, StoredInv
<1> QED BY <1>1, <1>2, <1>3, <1>4, <1>5 DEF IInv

LEMMA FinalizeStep == ASSUME IInv, Finalize PROVE IInv'
<1> USE DEF Finalize, call
<1>1. TypeOK'
  <2>1. ptr' \in [salt : {NULL, "salt"}, out : {NULL, "hash out", "first out", "second out"},
                  desired : {NULL, "first out"}, memory : {NULL, "memory"}]
    BY DEF IInv, TypeOK
  <2>2. secret' \subseteq heap' \union {"first out", "second out"}
    <3>1. ptr.memory = "memory" /\ ptr.out \in {"hash out", "second out"}
      BY DEF IInv, TypeOK, BuffersInv, InCtx
    <3>2. ptr.out = "hash out" => "hash out" \in heap
      BY DEF IInv, TypeOK, BuffersInv, InCtx, Live
    <3> QED BY <3>1, <3>2 DEF IInv, TypeOK
  <2> QED BY <2>1, <2>2 DEF IInv, TypeOK
<1>2. BuffersInv'
  <2>1. Live' = Live
    BY DEF Live, IInv, BuffersInv
  <2>2. ptr'.salt = ptr.salt /\ ptr'.out = ptr.out /\ ptr'.desired = ptr.desired
    BY DEF IInv, TypeOK
  <2> QED BY <2>1, <2>2 DEF IInv, BuffersInv, InCtx
<1>3. SecretInv'
  <2>1. ptr.memory = "memory" /\ ptr.out \in {"hash out", "second out"}
    BY DEF IInv, TypeOK, BuffersInv, InCtx
  <2>2. ptr.out = "hash out" => op = "hash"
    BY DEF IInv, TypeOK, BuffersInv, InCtx
  <2> QED BY <2>1, <2>2 DEF IInv, SecretInv
<1>4. ResultInv'
  BY DEF IInv, ResultInv, Computing, Ending, OK, MISMATCH
<1>5. StoredInv'
  BY DEF IInv, StoredInv
<1> QED BY <1>1, <1>2, <1>3, <1>4, <1>5 DEF IInv

LEMMA VerifyMallocStep == ASSUME IInv, VerifyMalloc PROVE IInv'
<1> USE DEF VerifyMalloc, call
<1>1. TypeOK'
  <2>1. ptr' \in [salt : {NULL, "salt"}, out : {NULL, "hash out", "first out", "second out"},
                  desired : {NULL, "first out"}, memory : {NULL, "memory"}]
    BY DEF IInv, TypeOK
  <2> QED BY <2>1 DEF IInv, TypeOK
<1>2. BuffersInv'
  <2>1. Live = {} /\ ptr = NoPointers /\ op = "verify"
    BY DEF IInv, BuffersInv
  <2>2. PICK salt \in {NULL, "salt"}, out \in {NULL, "first out"} :
          /\ ptr' = [ptr EXCEPT !.salt = salt, !.out = out]
          /\ heap' = heap \union ({salt, out} \ {NULL})
          /\ pc' = IF NULL \in {salt, out} THEN "verify_free" ELSE "decode"
    BY DEF VerifyMalloc
  <2>3. ptr' = [NoPointers EXCEPT !.salt = salt, !.out = out]
    BY <2>1, <2>2
  <2>4. ptr'.salt = salt /\ ptr'.out = out /\ ptr'.desired = NULL
    BY <2>3 DEF NoPointers
  <2>5. Live' = {salt, out} \ {NULL}
    BY <2>1, <2>2 DEF Live, NULL
  <2>6. CASE pc' = "decode"
    <3>1. salt = "salt" /\ out = "first out"
      BY <2>2, <2>6
    <3> QED BY <2>1, <2>3, <2>5, <2>6, <3>1 DEF BuffersInv, InCtx, NULL
  <2>7. CASE pc' = "verify_free"
    <3>1. Live' = Freed' \ {NULL}
      BY <2>4, <2>5 DEF Freed
    <3> QED BY <2>1, <2>4, <2>7, <3>1 DEF BuffersInv, InCtx, NULL
  <2> QED BY <2>2, <2>6, <2>7
<1>3. SecretInv'
  BY DEF IInv, SecretInv
<1>4. ResultInv'
  BY DEF IInv, ResultInv, Computing, Ending, OK, MISMATCH
<1>5. StoredInv'
  BY DEF IInv, StoredInv
<1> QED BY <1>1, <1>2, <1>3, <1>4, <1>5 DEF IInv

LEMMA CompareStep == ASSUME IInv, Compare PROVE IInv'
<1> USE DEF Compare, call
<1>1. TypeOK'
  BY DEF IInv, TypeOK
<1>2. BuffersInv'
  <2>1. /\ ptr.salt = "salt" /\ ptr.out = "second out" /\ ptr.desired = "first out"
        /\ Live = {"salt", "first out", "second out"}
    BY DEF IInv, BuffersInv, InCtx
  <2>2. Live' = Freed' \ {NULL}
    BY <2>1 DEF Live, Freed, NULL
  <2> QED BY <2>1, <2>2 DEF BuffersInv, InCtx
<1>3. SecretInv'
  BY DEF IInv, SecretInv
<1>4. ResultInv'
  BY DEF IInv, ResultInv, Computing, Ending, OK, MISMATCH
<1>5. StoredInv'
  BY DEF IInv, StoredInv
<1> QED BY <1>1, <1>2, <1>3, <1>4, <1>5 DEF IInv

LEMMA VerifyFreeStep == ASSUME IInv, VerifyFree PROVE IInv'
<1> USE DEF VerifyFree, call
<1>1. TypeOK'
  <2>1. "hash out" \notin secret /\ "salt" \notin secret /\ Freed \subseteq {NULL, "salt", "first out", "second out"}
    BY DEF IInv, SecretInv, BuffersInv, TypeOK, Freed
  <2>2. secret' \subseteq heap' \union {"first out", "second out"}
    BY <2>1 DEF IInv, TypeOK, NULL
  <2> QED BY <2>2 DEF IInv, TypeOK
<1>2. BuffersInv'
  <2>1. Live = Freed \ {NULL} /\ op = "verify"
    BY DEF IInv, BuffersInv
  <2>2. NULL \notin heap
    BY DEF IInv, TypeOK, NULL
  <2>3. Live' = {}
    BY <2>1, <2>2 DEF Live
  <2> QED BY <2>1, <2>3 DEF BuffersInv, InCtx
<1>3. SecretInv'
  <2>1. "memory" \notin Freed
    BY DEF IInv, TypeOK, Freed, NULL
  <2> QED BY <2>1 DEF IInv, SecretInv
<1>4. ResultInv'
  BY DEF IInv, ResultInv, Computing, Ending, OK, MISMATCH
<1>5. StoredInv'
  BY DEF IInv, StoredInv
<1> QED BY <1>1, <1>2, <1>3, <1>4, <1>5 DEF IInv

LEMMA VerifyCallStep ==
  ASSUME IInv, NEW p \in Passwords, NEW h \in Presented, VerifyCall(p, h)
  PROVE  IInv'
<1> USE DEF VerifyCall
<1>1. TypeOK'
  <2>1. context' \in Contexts
    BY DEF IInv, TypeOK, Presented
  <2> QED BY <2>1 DEF IInv, TypeOK
<1>2. BuffersInv'
  BY DEF IInv, BuffersInv, Live, InCtx
<1>3. SecretInv'
  BY DEF IInv, SecretInv
<1>4. ResultInv'
  BY DEF IInv, ResultInv, Computing, Ending, OK, MISMATCH
<1>5. StoredInv'
  BY DEF IInv, StoredInv
<1> QED BY <1>1, <1>2, <1>3, <1>4, <1>5 DEF IInv

LEMMA DecodeStep == ASSUME IInv, Decode PROVE IInv'
<1> USE DEF Decode, call
<1> DEFINE decoded == IF desired = NoTag THEN "ARGON2_DECODING_FAIL" ELSE ValidateInputs(context)
           Pointers == [salt : {NULL, "salt"}, desired : {NULL, "first out"},
                        out : {NULL, "hash out", "first out", "second out"},
                        memory : {NULL, "memory"}]
           Refused == /\ decoded # OK /\ ret' = decoded
                      /\ pc' = "verify_free" /\ UNCHANGED <<ptr, heap>>
           Given == /\ ptr' = [ptr EXCEPT !.desired = ptr.out, !.out = "second out"]
                    /\ heap' = heap \union {"second out"} /\ pc' = "ctx" /\ UNCHANGED ret
           Denied == /\ ptr' = [ptr EXCEPT !.desired = ptr.out, !.out = NULL]
                     /\ ret' = "ARGON2_MEMORY_ALLOCATION_ERROR"
                     /\ pc' = "verify_free" /\ UNCHANGED heap
<1>0. /\ Refused \/ Given \/ Denied
      /\ Live = {"salt", "first out"} /\ op = "verify" /\ ptr \in Pointers /\ ret = OK
      /\ ptr.salt = "salt" /\ ptr.out = "first out" /\ ptr.desired = NULL
  <2>1. Refused \/ Given \/ Denied
    BY DEF Decode
  <2>2. Live = {"salt", "first out"} /\ op = "verify"
    BY DEF IInv, BuffersInv
  <2>3. ptr = [NoPointers EXCEPT !.salt = "salt", !.out = "first out"]
    BY DEF IInv, BuffersInv
  <2>4. ptr.salt = "salt" /\ ptr.out = "first out" /\ ptr.desired = NULL
    BY <2>3 DEF NoPointers
  <2>5. ptr \in Pointers /\ ret = OK
    BY DEF IInv, TypeOK, ResultInv, Ending
  <2> QED BY <2>1, <2>2, <2>4, <2>5
<1>1. TypeOK'
  <2>1. ptr' \in Pointers
    BY <1>0
  <2>2. UNCHANGED <<op, pwd, context, secret>> /\ pc' \in {"verify_free", "ctx"}
    BY <1>0
  <2>3. heap \subseteq heap' /\ heap' \subseteq heap \union {"second out"}
    BY <1>0
  <2> QED BY <2>1, <2>2, <2>3 DEF IInv, TypeOK
<1>2. BuffersInv'
  <2>0. op' = "verify"
    BY <1>0
  <2>1. CASE Refused
    <3>1. Live' = {"salt", "first out"} /\ ptr' = ptr
      BY <1>0, <2>1 DEF Live
    <3>2. Freed' = {NULL, "salt", "first out"}
      BY <1>0, <3>1 DEF Freed
    <3> QED BY <1>0, <2>0, <2>1, <3>1, <3>2 DEF BuffersInv, InCtx, NULL
  <2>2. CASE Given
    <3>1. Live' = {"salt", "first out", "second out"}
      BY <1>0, <2>2 DEF Live
    <3>2. ptr'.salt = "salt" /\ ptr'.out = "second out" /\ ptr'.desired = "first out"
      BY <1>0, <2>2
    <3> QED BY <2>0, <2>2, <3>1, <3>2 DEF BuffersInv, InCtx
  <2>3. CASE Denied
    <3>1. ptr'.salt = "salt" /\ ptr'.out = NULL /\ ptr'.desired = "first out"
      BY <1>0, <2>3
    <3>2. Live' = {"salt", "first out"}
      BY <1>0, <2>3 DEF Live
    <3>3. Freed' = {NULL, "salt", "first out"}
      BY <3>1 DEF Freed
    <3> QED BY <2>0, <2>3, <3>1, <3>2, <3>3 DEF BuffersInv, InCtx, NULL
  <2> QED BY <1>0, <2>1, <2>2, <2>3
<1>3. SecretInv'
  BY <1>0 DEF IInv, SecretInv
<1>4. ResultInv'
  <2>1. CASE Refused
    <3>1. ret' # MISMATCH /\ ret' # OK
      BY <2>1, ValidationCodes DEF MISMATCH, OK
    <3>2. desired' = NoTag \/ ValidateInputs(context') # OK
      BY <2>1
    <3> QED BY <2>1, <3>1, <3>2 DEF ResultInv, Computing, Ending
  <2>2. CASE Given
    BY <1>0, <2>2 DEF ResultInv, Computing, Ending, OK, MISMATCH
  <2>3. CASE Denied
    BY <1>0, <2>3 DEF ResultInv, Computing, Ending, OK, MISMATCH
  <2> QED BY <1>0, <2>1, <2>2, <2>3
<1>5. StoredInv'
  BY DEF IInv, StoredInv
<1> QED BY <1>1, <1>2, <1>3, <1>4, <1>5 DEF IInv

LEMMA NextInv == IInv /\ [Next]_vars => IInv'
<1> SUFFICES ASSUME IInv, [Next]_vars PROVE IInv'
  OBVIOUS
<1>1. CASE Call
  <2>1. ASSUME NEW t \in TCosts, NEW m \in MCosts, NEW l \in Parallelisms, NEW salt \in Salts,
               NEW p \in Passwords,
               HashCall(p, [t_cost |-> t, m_cost |-> m, parallelism |-> l], salt)
        PROVE  IInv'
    <3>1. t \in Int /\ m \in Int /\ l \in Int /\ salt \in [bytes : SaltBytes, length : Nat]
      BY CallAssumption
    <3> QED BY <2>1, <3>1, HashCallStep
  <2> QED BY <1>1, <2>1, RefusedStep, VerifyCallStep DEF Call
<1>2. CASE UNCHANGED vars
  <2> USE <1>2 DEF vars, call
  <2>1. TypeOK'
    BY DEF IInv, TypeOK
  <2>2. BuffersInv'
    BY DEF IInv, BuffersInv, Live, InCtx, Freed
  <2>3. SecretInv'
    BY DEF IInv, SecretInv
  <2>4. ResultInv'
    BY DEF IInv, ResultInv, Computing, Ending
  <2>5. StoredInv'
    BY DEF IInv, StoredInv
  <2> QED BY <2>1, <2>2, <2>3, <2>4, <2>5 DEF IInv
<1> QED BY <1>1, <1>2, HashMallocStep, HashExitStep, ResultStep, CtxValidateStep,
           InitializeStep, FillStep, FinalizeStep, VerifyMallocStep, DecodeStep, CompareStep,
           VerifyFreeStep DEF Next

(* The four parts of the invariant, and the types, hold at every step. *)
THEOREM Invariance == Spec => []IInv
BY InitInv, NextInv, PTL DEF Spec

(* Types; secrets are in live blocks, but for the outputs of verify. *)
THEOREM TypeCorrect == Spec => []TypeOK
<1>1. IInv => TypeOK
  BY DEF IInv
<1> QED BY <1>1, Invariance, PTL

(***************************************************************************)
(* What it gives.                                                            *)
(***************************************************************************)

(* passe_argon2_ctx (argon2/argon2.c) lays out the memory as Argon2Fill assumes
   it, whatever parameters came from OCaml or from an encoded hash.         *)
THEOREM LayoutSound == Spec => []LayoutFits
<1>1. IInv => LayoutFits
  <2> SUFFICES ASSUME IInv, pc = "fill" PROVE LayoutFits
    BY DEF LayoutFits
  <2>1. context \in Contexts /\ ValidateInputs(context) = OK /\ instance = Layout(context)
    BY DEF IInv, TypeOK, ResultInv, Computing
  <2> QED BY <2>1, LayoutOfValidated DEF LayoutFits
<1> QED BY <1>1, Invariance, PTL

(* The frees of passe_argon2_hash, passe_argon2_verify and passe_finalize are of
   live blocks, each once, whichever allocation failed.                     *)
THEOREM FreesSound == Spec => []FreesAreSound
<1>1. IInv => FreesAreSound
  <2> SUFFICES ASSUME IInv PROVE FreesAreSound
    OBVIOUS
  <2>1. pc = "verify_free" =>
          /\ Freed \ {NULL} \subseteq heap
          /\ ptr.desired # NULL => ptr.desired \notin {ptr.out, ptr.salt}
    <3> SUFFICES ASSUME pc = "verify_free"
                 PROVE  /\ Freed \ {NULL} \subseteq heap
                        /\ ptr.desired # NULL => ptr.desired \notin {ptr.out, ptr.salt}
      OBVIOUS
    <3>1. Live = Freed \ {NULL} /\ (ptr.desired # NULL => ptr.out # "first out")
      BY DEF IInv, BuffersInv
    <3>2. ptr.desired \in {NULL, "first out"} /\ ptr.salt \in {NULL, "salt"}
      BY DEF IInv, TypeOK
    <3> QED BY <3>1, <3>2 DEF Live, NULL
  <2>2. pc = "ctx_return" /\ op = "hash" => ptr.out \in heap
    BY DEF IInv, BuffersInv, InCtx, Live
  <2>3. pc = "finalize" => {ptr.memory, ptr.out} \subseteq heap
    <3> SUFFICES ASSUME pc = "finalize" PROVE {ptr.memory, ptr.out} \subseteq heap
      OBVIOUS
    <3>1. op \in {"hash", "verify"} /\ ptr.memory \in heap
      BY DEF IInv, BuffersInv, TypeOK
    <3>2. ptr.out \in Live
      BY <3>1 DEF IInv, BuffersInv, InCtx
    <3> QED BY <3>1, <3>2 DEF Live
  <2> QED BY <2>1, <2>2, <2>3 DEF FreesAreSound
<1> QED BY <1>1, Invariance, PTL

(* A finished call leaves no block but the memory of a failed filling. *)
THEOREM NothingElseLeaks == Spec => []LeaksOnlyMemory
<1>1. IInv => LeaksOnlyMemory
  BY DEF IInv, BuffersInv, Live, LeaksOnlyMemory
<1> QED BY <1>1, Invariance, PTL

(* passe_argon2_hash wipes the tag on every path. *)
THEOREM TagWiped == Spec => []HashTagWiped
<1>1. IInv => HashTagWiped
  BY DEF IInv, SecretInv, HashTagWiped
<1> QED BY <1>1, Invariance, PTL

(* passe_argon2_verify succeeds only for the tag of the password under the
   parameters that the hash names.                                          *)
THEOREM Accepts == Spec => []NoFalseAccept
<1>1. IInv => NoFalseAccept
  BY DEF IInv, ResultInv, Ending, NoFalseAccept
<1> QED BY <1>1, Invariance, PTL

(* Argon2.verify of an unchanged hash says true for its password, false for any
   other, or fails for want of memory or threads.                           *)
THEOREM Agreement == Spec => VerifyAgrees
<1> DEFINE Returns == /\ pc = "stub" /\ op = "verify" /\ pc' = "idle"
                      /\ stored # NoHash /\ desired = stored.tag /\ context = stored.ctx
           Answer == CASE ret \in {OK, MISMATCH} ->
                            result' = IF pwd = stored.pwd THEN "Ok true" ELSE "Ok false"
                       [] OTHER -> result' = "Verify_mismatch" /\
                            ret \in {"ARGON2_MEMORY_ALLOCATION_ERROR", "ARGON2_THREAD_FAIL"}
<1>1. IInv /\ [Next]_vars => [Returns => Answer]_vars
  <2> SUFFICES ASSUME IInv, Next, Returns PROVE Answer
    OBVIOUS
  <2>1. VerifyResult
    BY DEF Next, Call, HashRefused, HashCall, VerifyRefused, VerifyCall, HashMalloc, HashFails,
           HashDoesNotFit, HashEncoded, AtHashExit, HashResult, CtxValidate, Initialize, Fill, Finalize, VerifyMalloc, Decode, Compare,
           VerifyFree
  <2>2. /\ stored.tag = TagOf(stored.pwd, stored.ctx) /\ desired # NoTag
        /\ ValidateInputs(context) = OK
    BY CallAssumption DEF IInv, StoredInv
  <2>3. TagOf(pwd, context) = desired <=> pwd = stored.pwd
    BY <2>2 DEF TagOf
  <2>4. CASE ret = OK
    <3>1. TagOf(pwd, context) = desired
      BY <2>4 DEF IInv, ResultInv, Ending
    <3> QED BY <2>1, <2>3, <2>4, <3>1 DEF VerifyResult
  <2>5. CASE ret = MISMATCH
    <3>1. TagOf(pwd, context) # desired
      BY <2>5 DEF IInv, ResultInv
    <3>2. result' = "Ok false"
      BY <2>1, <2>5 DEF VerifyResult, OK, MISMATCH
    <3> QED BY <2>3, <2>5, <3>1, <3>2
  <2>6. CASE ret \notin {OK, MISMATCH}
    <3>1. ret \in {"ARGON2_MEMORY_ALLOCATION_ERROR", "ARGON2_THREAD_FAIL"}
      BY <2>2, <2>6 DEF IInv, ResultInv
    <3>2. result' = "Verify_mismatch"
      BY <2>1, <2>6 DEF VerifyResult
    <3> QED BY <2>6, <3>1, <3>2
  <2> QED BY <2>4, <2>5, <2>6
<1> QED BY <1>1, Invariance, PTL DEF VerifyAgrees, Spec

=============================================================================
