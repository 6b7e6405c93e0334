----------------------------- MODULE Argon2Call -----------------------------
(***************************************************************************)
(* One application calling Passe.Argon2 again and again: argon2.ml, the      *)
(* stubs of argon2_stub.c, passe_argon2_hash, passe_argon2_verify and        *)
(* passe_argon2_ctx (argon2/argon2.c) with the buffers they allocate, fill,  *)
(* wipe and free.  Filling the memory is one step here; Argon2Fill has its   *)
(* threads.  The stubs keep the OCaml runtime lock, so calls do not overlap. *)
(*                                                                           *)
(* A tag is the record of everything that is hashed: two tags are equal when *)
(* all inputs are.  OCaml integers are larger than Word.  The characters of  *)
(* a hash string are those of Argon2Encoding; here it is the record of what  *)
(* its fields say.                                                           *)
(***************************************************************************)
EXTENDS Argon2Context

CONSTANTS Passwords,
          TCosts, MCosts, Parallelisms,   \* OCaml integers given as params
          SaltBytes,      \* what salts may consist of
          Salts,          \* the salts given to hash_with_salt, with their lengths
          Tampered(_),    \* what a stored hash may have been changed to
          NoTag, NoHash,  \* the absence of a tag, of a stored hash
          Garbled         \* a hash that the decoder cannot parse

HashLength == 32         \* the hashlen of the stub
MAX_ENCODED_LEN == 512   \* its buffer for the hash string

NoSalt == "no salt"

Contexts == [t_cost : UInt32, m_cost : UInt32, lanes : UInt32, threads : UInt32,
             version : UInt32, salt : SaltBytes \union {NoSalt}, saltlen : Nat, outlen : Nat]

(* What H0 and the whole computation depend on. *)
Tags == [pwd : Passwords, t_cost : UInt32, m_cost : UInt32, lanes : UInt32,
         version : UInt32, salt : SaltBytes \union {NoSalt}, saltlen : Nat, outlen : Nat]
TagOf(p, ctx) == [pwd |-> p, t_cost |-> ctx.t_cost, m_cost |-> ctx.m_cost,
                  lanes |-> ctx.lanes, version |-> ctx.version, salt |-> ctx.salt,
                  saltlen |-> ctx.saltlen, outlen |-> ctx.outlen]

ASSUME CallAssumption ==
  /\ HashLength < Word
  /\ TCosts \union MCosts \union Parallelisms \subseteq Int
  /\ Salts \subseteq [bytes : SaltBytes, length : Nat]
  /\ NoTag \notin Tags

VARIABLES
  pc,       \* the next step of the call; "idle" between calls
  op,       \* "hash" or "verify"
  pwd,      \* the password of the call
  asked,    \* the params record of the OCaml caller
  context,  \* argon2_context: version, costs, lanes, threads, salt, saltlen, outlen
  instance, \* argon2_instance_t: memory_blocks, segment_length, passes, lanes, threads
  ptr,      \* salt, out, desired and memory: a live block, or NULL
  heap,     \* the blocks that malloc returned and nobody has freed; a memory that was
            \* leaked and the next one are the same block here
  secret,   \* the blocks that hold secrets and have not been wiped
  tag,      \* what context.out holds
  desired,  \* what desired_result holds: the tag in the encoded hash
  ret,      \* the C result
  result,   \* the OCaml result of the last call
  stored    \* the application's record: the last hash, its password and parameters

call == <<op, pwd, asked>>
vars == <<pc, call, context, instance, ptr, heap, secret, tag, desired, ret, result, stored>>

NULL == "NULL"

NoContext == [t_cost |-> 0, m_cost |-> 0, lanes |-> 0, threads |-> 0,
              version |-> ARGON2_VERSION_NUMBER, salt |-> NoSalt, saltlen |-> 0, outlen |-> 0]
NoInstance == [memory_blocks |-> 0, segment_length |-> 0, passes |-> 0,
               lanes |-> 0, threads |-> 0]
NoPointers == [salt |-> NULL, out |-> NULL, desired |-> NULL, memory |-> NULL]

NoPassword == "no password"
NoParams == [t_cost |-> 0, m_cost |-> 0, parallelism |-> 0]

Init ==
  /\ pc = "idle" /\ op = "none" /\ pwd = NoPassword /\ asked = NoParams
  /\ context = NoContext /\ instance = NoInstance /\ ptr = NoPointers
  /\ heap = {} /\ secret = {} /\ tag = NoTag /\ desired = NoTag
  /\ ret = OK /\ result = "none" /\ stored = NoHash

(* A call returns, and with it go its parameters and local variables; blocks
   on the heap and what they hold stay.                                     *)
CallEnds ==
  /\ pc' = "idle" /\ op' = "none" /\ pwd' = NoPassword /\ asked' = NoParams
  /\ context' = NoContext /\ instance' = NoInstance /\ ptr' = NoPointers
  /\ tag' = NoTag /\ desired' = NoTag /\ ret' = OK

(***************************************************************************)
(* Argon2.hash_with_salt, Argon2.hash and passe_argon2_hash.                 *)
(***************************************************************************)

(* validate_params of argon2.ml; max_int is no bound. *)
ValidateParams(p) ==
  IF p.t_cost < 1 THEN "Invalid_time_cost"
  ELSE IF p.m_cost < 8 THEN "Invalid_memory_cost"
  ELSE IF p.parallelism < 1 \/ p.parallelism > MaxLanes THEN "Invalid_parallelism"
  ELSE "Ok"

(* The OCaml checks, then the stub's conversion of its integers. *)
HashRefused(params, salt) ==
  /\ pc = "idle"
  /\ \/ salt.length < ARGON2_MIN_SALT_LENGTH /\ result' = "Invalid_salt_length"
     \/ /\ salt.length >= ARGON2_MIN_SALT_LENGTH /\ ValidateParams(params) # "Ok"
        /\ result' = ValidateParams(params)
  /\ UNCHANGED <<pc, call, context, instance, ptr, heap, secret, tag, desired, ret, stored>>

HashCall(p, params, salt) ==
  /\ pc = "idle"
  /\ salt.length >= ARGON2_MIN_SALT_LENGTH /\ ValidateParams(params) = "Ok"
  /\ pc' = "hash_malloc" /\ op' = "hash" /\ pwd' = p /\ asked' = params
  /\ context' = [t_cost  |-> U32(params.t_cost),
                 m_cost  |-> U32(params.m_cost),
                 lanes   |-> U32(params.parallelism),
                 threads |-> U32(params.parallelism),
                 version |-> ARGON2_VERSION_NUMBER, salt |-> salt.bytes,
                 saltlen |-> salt.length, outlen |-> HashLength]
  /\ result' = "none"
  /\ UNCHANGED <<instance, ptr, heap, secret, tag, desired, ret, stored>>

HashMalloc ==
  /\ pc = "hash_malloc"
  /\ \/ /\ context.saltlen > UINT32_MAX
        /\ ret' = "ARGON2_SALT_TOO_LONG" /\ pc' = "stub" /\ UNCHANGED <<ptr, heap>>
     \/ /\ context.saltlen <= UINT32_MAX
        /\ ptr' = [ptr EXCEPT !.out = "hash out"]
        /\ heap' = heap \union {"hash out"}
        /\ pc' = "ctx" /\ UNCHANGED ret
     \/ /\ context.saltlen <= UINT32_MAX
        /\ ret' = "ARGON2_MEMORY_ALLOCATION_ERROR" /\ pc' = "stub"
        /\ UNCHANGED <<ptr, heap>>
  /\ UNCHANGED <<call, context, instance, secret, tag, desired, result, stored>>

(* After passe_argon2_ctx, passe_argon2_hash has three exits; each of them wipes
   and frees the tag on its own.  First, passe_argon2_ctx has failed.       *)
AtHashExit == pc = "ctx_return" /\ op = "hash"
Encodable == passe_argon2_encodedlen(context, "id") <= MAX_ENCODED_LEN

HashFails ==
  /\ AtHashExit /\ ret # OK
  /\ secret' = secret \ {ptr.out} /\ heap' = heap \ {ptr.out}
  /\ pc' = "stub"
  /\ UNCHANGED <<call, context, instance, ptr, tag, desired, ret, result, stored>>

(* Wrong on purpose: this exit forgets to wipe the tag. *)
HashDoesNotFitUnwiped ==
  /\ AtHashExit /\ ret = OK /\ ~ Encodable
  /\ ret' = "ARGON2_ENCODING_FAIL"
  /\ heap' = heap \ {ptr.out}
  /\ pc' = "stub"
  /\ UNCHANGED <<call, context, instance, ptr, secret, tag, desired, result, stored>>

(* The string does not fit into the stub's buffer. *)
HashDoesNotFit ==
  /\ AtHashExit /\ ret = OK /\ ~ Encodable
  /\ ret' = "ARGON2_ENCODING_FAIL"
  /\ secret' = secret \ {ptr.out} /\ heap' = heap \ {ptr.out}
  /\ pc' = "stub"
  /\ UNCHANGED <<call, context, instance, ptr, tag, desired, result, stored>>

(* Wrong on purpose: a tag that has been encoded is freed as it is. *)
HashEncodedUnwiped ==
  /\ AtHashExit /\ ret = OK /\ Encodable
  /\ heap' = heap \ {ptr.out}
  /\ pc' = "stub"
  /\ UNCHANGED <<call, context, instance, ptr, secret, tag, desired, ret, result, stored>>

(* The string has been written. *)
HashEncoded ==
  /\ AtHashExit /\ ret = OK /\ Encodable
  /\ secret' = secret \ {ptr.out} /\ heap' = heap \ {ptr.out}
  /\ pc' = "stub"
  /\ UNCHANGED <<call, context, instance, ptr, tag, desired, ret, result, stored>>

(* The stub's string, and what hash_with_salt makes of it. *)
HashResult ==
  /\ pc = "stub" /\ op = "hash"
  /\ IF ret = OK
     THEN /\ result' = "Ok"
          /\ stored' = [pwd |-> pwd, asked |-> asked, ctx |-> context, tag |-> tag]
     ELSE result' = "Hash_failure" /\ UNCHANGED stored
  /\ CallEnds
  /\ UNCHANGED <<heap, secret>>

(***************************************************************************)
(* passe_argon2_ctx, for both callers.                                       *)
(***************************************************************************)

CtxValidate ==
  /\ pc = "ctx"
  /\ ret' = ValidateInputs(context)
  /\ IF ret' = OK
     THEN pc' = "initialize" /\ instance' = Layout(context)
     ELSE pc' = "ctx_return" /\ UNCHANGED instance
  /\ UNCHANGED <<call, context, ptr, heap, secret, tag, desired, result, stored>>

(* passe_initialize: the first blocks are derived from the password. *)
Initialize ==
  /\ pc = "initialize"
  /\ \/ /\ ptr' = [ptr EXCEPT !.memory = "memory"]
        /\ heap' = heap \union {"memory"} /\ secret' = secret \union {"memory"}
        /\ pc' = "fill" /\ UNCHANGED ret
     \/ /\ ret' = "ARGON2_MEMORY_ALLOCATION_ERROR" /\ pc' = "ctx_return"
        /\ UNCHANGED <<ptr, heap, secret>>
  /\ UNCHANGED <<call, context, instance, tag, desired, result, stored>>

(* passe_fill_memory_blocks: only the threaded version fails. *)
Fill ==
  /\ pc = "fill"
  /\ \/ pc' = "finalize" /\ UNCHANGED ret
     \/ /\ instance.threads > 1
        /\ ret' \in {"ARGON2_MEMORY_ALLOCATION_ERROR", "ARGON2_THREAD_FAIL"}
        /\ pc' = "ctx_return"
  /\ UNCHANGED <<call, context, instance, ptr, heap, secret, tag, desired, result, stored>>

(* Wrong on purpose: the memory is freed without being wiped. *)
FinalizeUnwiped ==
  /\ pc = "finalize"
  /\ tag' = TagOf(pwd, context)
  /\ secret' = secret \union {ptr.out}
  /\ heap' = heap \ {ptr.memory}
  /\ ptr' = [ptr EXCEPT !.memory = NULL]
  /\ pc' = "ctx_return"
  /\ UNCHANGED <<call, context, instance, desired, ret, result, stored>>

(* passe_finalize: the tag goes to context->out, the memory is wiped and freed. *)
Finalize ==
  /\ pc = "finalize"
  /\ tag' = TagOf(pwd, context)
  /\ secret' = (secret \ {ptr.memory}) \union {ptr.out}
  /\ heap' = heap \ {ptr.memory}
  /\ ptr' = [ptr EXCEPT !.memory = NULL]
  /\ pc' = "ctx_return"
  /\ UNCHANGED <<call, context, instance, desired, ret, result, stored>>

(***************************************************************************)
(* Argon2.verify and passe_argon2_verify.                                    *)
(***************************************************************************)

(* "" and strings with a NUL are refused before the decoder sees them. *)
VerifyRefused ==
  /\ pc = "idle"
  /\ result' \in {"Invalid_hash", "Invalid_argument"}
  /\ UNCHANGED <<pc, call, context, instance, ptr, heap, secret, tag, desired, ret, stored>>

(* A hash is Garbled when the decoder cannot parse it; otherwise it is the
   record of what the decoder reads.                                        *)
VerifyCall(p, encoded) ==
  /\ pc = "idle"
  /\ pc' = "verify_malloc" /\ op' = "verify" /\ pwd' = p
  /\ IF encoded = Garbled
     THEN UNCHANGED <<context, desired>>
     ELSE context' = encoded.ctx /\ desired' = encoded.tag
  /\ result' = "none"
  /\ UNCHANGED <<asked, instance, ptr, heap, secret, tag, ret, stored>>

(* Two mallocs in a row; then one check of both. *)
VerifyMalloc ==
  /\ pc = "verify_malloc"
  /\ \E salt \in {NULL, "salt"}, out \in {NULL, "first out"} :
       /\ ptr' = [ptr EXCEPT !.salt = salt, !.out = out]
       /\ heap' = heap \union ({salt, out} \ {NULL})
       /\ IF NULL \in {salt, out}
          THEN ret' = "ARGON2_MEMORY_ALLOCATION_ERROR" /\ pc' = "verify_free"
          ELSE pc' = "decode" /\ UNCHANGED ret
  /\ UNCHANGED <<call, context, instance, secret, tag, desired, result, stored>>

(* Wrong on purpose: out keeps the decoded tag when there is no memory. *)
DecodeKeepsOut ==
  /\ pc = "decode" /\ desired # NoTag
  /\ ptr' = [ptr EXCEPT !.desired = ptr.out]
  /\ ret' = "ARGON2_MEMORY_ALLOCATION_ERROR" /\ pc' = "verify_free"
  /\ UNCHANGED <<call, context, instance, heap, secret, tag, desired, result, stored>>

(* passe_decode_string validates what it has parsed; the decoded tag is set
   aside and a fresh out is allocated.                                      *)
Decode ==
  /\ pc = "decode"
  /\ LET decoded == IF desired = NoTag THEN "ARGON2_DECODING_FAIL" ELSE ValidateInputs(context)
     IN  IF decoded # OK
         THEN ret' = decoded /\ pc' = "verify_free" /\ UNCHANGED <<ptr, heap>>
         ELSE \/ /\ ptr' = [ptr EXCEPT !.desired = ptr.out, !.out = "second out"]
                 /\ heap' = heap \union {"second out"}
                 /\ pc' = "ctx" /\ UNCHANGED ret
              \/ /\ ptr' = [ptr EXCEPT !.desired = ptr.out, !.out = NULL]
                 /\ ret' = "ARGON2_MEMORY_ALLOCATION_ERROR" /\ pc' = "verify_free"
                 /\ UNCHANGED heap
  /\ UNCHANGED <<call, context, instance, secret, tag, desired, result, stored>>

(* Wrong on purpose: the result of the comparison is lost. *)
CompareNothing ==
  /\ pc = "ctx_return" /\ op = "verify"
  /\ pc' = "verify_free"
  /\ UNCHANGED <<call, context, instance, ptr, heap, secret, tag, desired, ret, result, stored>>

(* Wrong on purpose: it compares whether or not there is a tag. *)
CompareAnyway ==
  /\ pc = "ctx_return" /\ op = "verify"
  /\ ret' = IF tag # desired THEN MISMATCH ELSE ret
  /\ pc' = "verify_free"
  /\ UNCHANGED <<call, context, instance, ptr, heap, secret, tag, desired, result, stored>>

(* passe_argon2_verify_ctx compares when passe_argon2_ctx succeeded. *)
Compare ==
  /\ pc = "ctx_return" /\ op = "verify"
  /\ ret' = IF ret = OK /\ tag # desired THEN MISMATCH ELSE ret
  /\ pc' = "verify_free"
  /\ UNCHANGED <<call, context, instance, ptr, heap, secret, tag, desired, result, stored>>

FreedButDesired == {ptr.salt, ptr.out}   \* wrong on purpose

(* The label fail: three frees, of NULL or of a block each. *)
Freed == {ptr.salt, ptr.out, ptr.desired}

VerifyFree ==
  /\ pc = "verify_free"
  /\ heap' = heap \ Freed
  /\ pc' = "stub"
  /\ UNCHANGED <<call, context, instance, ptr, secret, tag, desired, ret, result, stored>>

VerifyResult ==
  /\ pc = "stub" /\ op = "verify"
  /\ result' = IF ret = OK THEN "Ok true"
               ELSE IF ret = MISMATCH THEN "Ok false" ELSE "Verify_mismatch"
  /\ CallEnds
  /\ UNCHANGED <<heap, secret, stored>>

(* What the stored hash may be when it comes back: nothing the decoder can parse,
   or fields that it has read into words.                                   *)
Presented == {Garbled} \union {h \in Tampered(stored) : h.ctx \in Contexts}

(* The application: it hashes new passwords, and checks passwords against the
   hash it stored, which may have been changed meanwhile.                   *)
Call ==
  \/ \E t \in TCosts, m \in MCosts, l \in Parallelisms, salt \in Salts :
       LET params == [t_cost |-> t, m_cost |-> m, parallelism |-> l]
       IN  HashRefused(params, salt) \/ \E p \in Passwords : HashCall(p, params, salt)
  \/ VerifyRefused
  \/ \E p \in Passwords, h \in Presented : VerifyCall(p, h)

Next ==
  \/ Call
  \/ HashMalloc \/ HashFails \/ HashDoesNotFit \/ HashEncoded \/ HashResult
  \/ CtxValidate \/ Initialize \/ Fill \/ Finalize
  \/ VerifyMalloc \/ Decode \/ Compare \/ VerifyFree \/ VerifyResult

Spec == Init /\ [][Next]_vars

(***************************************************************************)
(* Properties.                                                               *)
(***************************************************************************)

TypeOK ==
  /\ pc \in {"idle", "hash_malloc", "ctx", "initialize", "fill", "finalize", "ctx_return",
             "stub", "verify_malloc", "decode", "verify_free"}
  /\ op \in {"none", "hash", "verify"} /\ (op # "none" => pwd \in Passwords)
  /\ context \in Contexts
  /\ ptr \in [salt : {NULL, "salt"}, out : {NULL, "hash out", "first out", "second out"},
              desired : {NULL, "first out"}, memory : {NULL, "memory"}]
  /\ heap \subseteq {"hash out", "salt", "first out", "second out", "memory"}
  /\ secret \subseteq heap \union {"first out", "second out"}

(* Whenever memory is filled, its layout is what Argon2Fill and Argon2Index
   assume: at least two blocks a segment, sizes that fit a uint32_t, no more
   threads than lanes (argon2/argon2.c, passe_argon2_ctx), whatever integers
   the OCaml caller or the encoded hash came with.                          *)
LayoutFits ==
  pc = "fill" =>
    LET lane_length == instance.segment_length * ARGON2_SYNC_POINTS
    IN  /\ instance.segment_length >= 2 /\ instance.passes >= 1
        /\ lane_length < Word
        /\ instance.lanes >= 1 /\ instance.threads \in 1 .. instance.lanes
        /\ instance.memory_blocks = instance.lanes * lane_length
        /\ instance.memory_blocks <= context.m_cost

(* Every block that is freed is live, and none is freed twice, whichever of the
   allocations failed (argon2/argon2.c, passe_argon2_verify).               *)
FreesAreSound ==
  /\ pc = "verify_free" =>
       /\ Freed \ {NULL} \subseteq heap
       /\ ptr.desired # NULL => ptr.desired \notin {ptr.out, ptr.salt}
  /\ pc = "ctx_return" /\ op = "hash" => ptr.out \in heap
  /\ pc = "finalize" => {ptr.memory, ptr.out} \subseteq heap

(* A finished call leaves nothing behind, but for the memory of a call whose
   threads failed (argon2/argon2.c, passe_argon2_ctx).                      *)
LeaksOnlyMemory ==
  pc = "idle" => heap \subseteq {"memory"}

(* A tag that argon2_hash computed does not stay in freed memory, whichever of
   its exits the call took (argon2/argon2.c, passe_argon2_hash).            *)
HashTagWiped == pc = "idle" => "hash out" \notin secret

(* Verifying an unchanged hash answers for the password it was made from: true
   for that one and false for any other, unless the call ran out of memory or
   threads (argon2.mli, verify).                                            *)
VerifyAgrees ==
  [][/\ pc = "stub" /\ op = "verify" /\ pc' = "idle"
     /\ stored # NoHash /\ desired = stored.tag /\ context = stored.ctx
     => CASE ret \in {OK, MISMATCH} ->
               result' = IF pwd = stored.pwd THEN "Ok true" ELSE "Ok false"
          [] OTHER -> result' = "Verify_mismatch" /\
               ret \in {"ARGON2_MEMORY_ALLOCATION_ERROR", "ARGON2_THREAD_FAIL"}]_vars

(* A hash is only ever made from the whole computation, and verifying succeeds
   only when the tag in the hash is that of the password under the salt and the
   parameters in the hash: changing any of them makes it fail.              *)
NoFalseAccept ==
  pc = "stub" /\ ret = OK =>
    /\ tag = TagOf(pwd, context)
    /\ op = "verify" => desired = TagOf(pwd, context)

(***************************************************************************)
(* The inductive invariant of Argon2CallProofs, in four parts.               *)
(***************************************************************************)
Live == heap \ {"memory"}
InCtx == pc \in {"ctx", "initialize", "fill", "finalize", "ctx_return"}
Computing == pc \in {"initialize", "fill", "finalize"}
Ending == pc \in {"ctx_return", "verify_free", "stub"}

(* Which call is under way, and which buffers it owns at each of its steps. *)
BuffersInv ==
  /\ pc = "idle" <=> op = "none"
  /\ pc = "hash_malloc" => op = "hash"
  /\ pc \in {"verify_malloc", "decode", "verify_free"} => op = "verify"
  /\ pc \in {"idle", "hash_malloc", "verify_malloc"} => Live = {} /\ ptr = NoPointers
  /\ pc = "decode" =>
       Live = {"salt", "first out"} /\ ptr = [NoPointers EXCEPT !.salt = "salt", !.out = "first out"]
  /\ InCtx /\ op = "hash" =>
       Live = {"hash out"} /\ ptr.salt = NULL /\ ptr.out = "hash out" /\ ptr.desired = NULL
  /\ InCtx /\ op = "verify" =>
       /\ Live = {"salt", "first out", "second out"}
       /\ ptr.salt = "salt" /\ ptr.out = "second out" /\ ptr.desired = "first out"
  /\ pc = "verify_free" =>
       /\ Live = Freed \ {NULL}
       /\ ptr.out # "hash out" /\ (ptr.desired # NULL => ptr.out # "first out")
  /\ pc = "stub" => Live = {}
  /\ pc \in {"fill", "finalize"} => ptr.memory = "memory" /\ "memory" \in heap

(* Where secrets are. *)
SecretInv ==
  /\ secret \subseteq {"hash out", "second out", "memory"}
  /\ "memory" \in secret => "memory" \in heap
  /\ "hash out" \in secret => pc = "ctx_return" /\ op = "hash"

(* What the result says about tag, desired and context. *)
ResultInv ==
  /\ Computing => instance = Layout(context) /\ ValidateInputs(context) = OK
  /\ ~ Ending => ret = OK
  /\ Ending /\ ret = OK => tag = TagOf(pwd, context) /\ ValidateInputs(context) = OK
  /\ ret = MISMATCH => pc \in {"verify_free", "stub"} /\ op = "verify"
  /\ pc \in {"verify_free", "stub"} /\ op = "verify" =>
       /\ ret = OK => desired = tag
       /\ ret = MISMATCH => tag = TagOf(pwd, context) /\ desired # tag
  /\ op = "verify" =>
       \/ ret \in {OK, MISMATCH, "ARGON2_MEMORY_ALLOCATION_ERROR", "ARGON2_THREAD_FAIL"}
       \/ desired = NoTag \/ ValidateInputs(context) # OK

(* The application's hash is the one that was computed for its record. *)
StoredInv ==
  stored # NoHash =>
    /\ stored.tag = TagOf(stored.pwd, stored.ctx) /\ stored.tag \in Tags
    /\ ValidateInputs(stored.ctx) = OK

IInv == TypeOK /\ BuffersInv /\ SecretInv /\ ResultInv /\ StoredInv

(* argon2.mli: "hash [s] password with the given salt and params". *)
HashedAsAsked ==
  stored # NoHash =>
    /\ stored.ctx.t_cost = stored.asked.t_cost
    /\ stored.ctx.m_cost = stored.asked.m_cost
    /\ stored.ctx.lanes = stored.asked.parallelism

(* argon2.ml, pp_error: Verify_mismatch reads "Verification failed: password
   mismatch".                                                               *)
MismatchIsOfPasswords ==
  [][pc = "stub" /\ result' = "Verify_mismatch" => tag # NoTag /\ tag # desired]_vars

(* argon2.h: "wiping internal memory buffers ... defaults to 1 (wipe internal
   memory)"; no call leaves the blocks derived from a password behind.      *)
InternalMemoryWiped == pc = "idle" => "memory" \notin secret

=============================================================================
