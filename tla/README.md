# Verification of Passe

Passe is an OCaml library that hashes and verifies passwords with Argon2id and
bcrypt.  Its OCaml modules check parameters and call C stubs; the stubs call the
vendored Argon2 reference implementation and OpenBSD's bcrypt.  This directory
models that code in TLA+, checks the models with TLC and proves the central
results with TLAPS.

## The system

| part | state | operations | what can go wrong |
|---|---|---|---|
| `argon2.ml`, `argon2_stub.c` | none between calls | `hash`, `hash_with_salt`, `verify`, `*_exn` | integers cut to 32 bits; C errors mapped to the wrong result |
| `argon2/argon2.c` | a context, an instance and up to four heap blocks per call | `argon2_hash`, `argon2_verify`, `argon2_ctx` | an early return that leaks, frees twice or leaves a secret |
| `argon2/core.c` | the memory (lanes of blocks), thread handles, `thr_data` | `validate_inputs`, `initialize`, `fill_memory_blocks`, `index_alpha`, `finalize` | data races, threads that survive, results that depend on scheduling |
| `argon2/ref.c` | `curr_offset`, `prev_offset`, a position | `fill_segment`, `fill_block`, `next_addresses` | offsets at the ends of the ring |
| `argon2/thread.c` | a thread per lane | create, join, exit | joining twice, not joining |
| `argon2/encoding.c` | none | `encode_string`, `decode_string` | overflow, strings that differ but decode alike |
| `argon2/blake2b.c` | chaining value, counter, partial block | `init`, `update`, `final`, `blake2b_long` | a full last block compressed early |
| `bcrypt.ml`, `bcrypt_stub.c`, `bcrypt.c` | none between calls | `hash`, `hash_with_salt`, `verify`, `*_exn`, `hashpass`, base64 | key length and cyclic key, spellings of salts and prefixes, exceptions |
| `blf.c` | P-array and S-boxes | key expansion, encryption | the cyclic reading of the key |
| `crypto.ml`, `hash.ml`, `passe.ml` | none | random bytes, constant-time equality, aliases | nothing stateful |

A call goes from OCaml through a stub (which keeps the OCaml runtime lock, so calls
do not overlap) into C.  Inside an Argon2 call the calling thread starts one thread
per lane and slice.  These threads share the memory without a lock: only the
choice of reference blocks and the joins at the end of a slice keep them apart.
This is the one concurrent part of the library and the core of this project.

The hard behaviours, with their lines, are the `hazards` of `PROJECT.json`.

## Modules

| module | models | how |
|---|---|---|
| `Argon2Index` | `index_alpha` | operators named after the local variables; `Word` is 2^32 |
| `Argon2Segment` | one iteration of `fill_segment` | which blocks are read, which is written; compression of blocks is an uninterpreted operator |
| `Argon2Passes` | the abstract specification of filling | a block at a time, lanes in any order, all lanes meeting at the end of a slice |
| `Argon2Sequential` | the loops of `fill_memory_blocks_st` as a function | `Loops` lists their states, one per block; `Sequential` is the reference result; `Solves` states what a result must satisfy without an order of events |
| `Argon2Fill` | `fill_memory_blocks_st`, `_mt`, `fill_segment_thr`, `fill_segment`, `thread.c` | the caller's `pc`, `pass`, `slice`, `lane`, `ll`, `rc`, and per lane a thread state, `pos`, `prev` and `ref` |
| `Argon2Context` | `argon2.h`, `validate_inputs`, the layout in `argon2_ctx`, `argon2_encodedlen` | a context and its limits, shared by the next two modules |
| `Argon2Encoding` | `encoding.c` and its callers in `argon2.c` | a string is a sequence of characters, a pointer an index; the codecs are recursive functions with the code's accumulator, and an application stores, changes and decodes what was encoded |
| `Argon2Call` | `argon2.ml`, the stubs, `argon2.c`, `validate_inputs`, `initialize`, `finalize` | one call at a time, one action per stretch of code between allocations and checks and one for each exit of `passe_argon2_hash`; the tag is a record of all that goes into it, the salt's bytes included; `heap` and `secret` are the live and the unwiped blocks |
| `BcryptKey` | `key_len`, `stream2word` | the bytes that reach the P-array |
| `Base64` | bcrypt's base64 | closed forms of the two loops; a character is its value |
| `Bcrypt` | `bcrypt.ml`, `bcrypt_stub.c`, `hashpass` | one action per call; texts are records of length, prefix, cost, salt and digest |
| `Blake2b` | `init`, `update`, `final` | the fields of `blake2b_state` are variables; `h` lists what has been compressed; an update that fills blocks runs over several steps |
| `Blake2bLong` | `blake2b_long`, and a caller that streams like `initial_hash` | the calls of `Blake2b` in the code's order, then `toproduce` and `out_buffer` |
| `Recursion` | | lemmas: induction over numbers, and that functions defined by recursion and loops of any number of turns exist |
| `Argon2FillProofs`, `Argon2RefinementProofs`, `Argon2SequentialProofs`, `Argon2EncodingProofs`, `Argon2CallProofs`, `BcryptProofs`, `Blake2bProofs` | | theorems and proofs |
| `MCArgon2`, `MCArgon2Fill`, `MCArgon2Call`, `MCArgon2Encoding`, `MCBcrypt`, `MCBlake2b` | | values of the constants for TLC |

`Argon2Fill` EXTENDS `Argon2Sequential`, which EXTENDS `Argon2Segment` and that
`Argon2Index`; it implements `Argon2Passes` under the mapping `Abstract`.  `Argon2Call` has filling as one step
that succeeds or fails; its `LayoutFits` establishes what `Argon2Fill` assumes of
`lanes`, `threads`, `passes` and `segment_length`.  It takes decoding as one step,
too: a record or an error.  `Argon2Encoding` has the strings behind that step, and its
`RoundTrip` and `Canonical` are the reason why a record will do.

A worker's iteration is two steps: `ChooseReference` reads the previous block for
its pseudo-random word, `FillBlock` reads the previous and the reference block and
writes the current one.  `Reads` and `Writes` are what a thread may access until its
next step, so a race is a state in which two of these sets meet.

Operators marked "wrong on purpose" are variants of a definition with a plausible
mistake.  `PROJECT.json` pairs each with the property that must notice it.

## Runs

| run | instance | shows |
|---|---|---|
| `fill_threads` | 3 lanes, 3 threads, segments of 2, 2 passes, type d, callocs and creations may fail | implements `Argon2Passes`; terminates; memory as computed sequentially; reads only computed blocks, never one block twice in a compression; no thread survives; no join is undefined; the invariant behind the refinement |
| `fill_window` | 3 lanes, 2 threads, segments of 3, 2 passes, type id, joins may fail | no data race; thread limit; the inductive invariants; memory as computed sequentially |
| `fill_single` | 2 lanes, no threads, segments of 3, 2 passes, version 0x10 | the version without threads implements the same specification |
| `argon2_calls` | words of 9 bits, costs at and around every bound, salts too short and too long and two of one length | layouts, buffers, wiping, what verify answers, and the inductive invariant |
| `hash_strings` | bytes of 4 bits, base64 digits of 3, an 8-bit accumulator, base 3, `uint32_t` below 27, `unsigned long` up to 39; six contexts, every kind of buffer length, every edit of one character | what was written is read back; one hash has one spelling; encoding succeeds exactly when `argon2_encodedlen` fits; buffers of the length of the string are enough |
| `blake2b` | blocks of 4 bytes, digests of 4, words of 8 values, two byte values, messages up to 9 bytes, `blake2b_long` for 0 to 16 bytes | the digest is that of the message and of no other; `blake2b_long` is the hash Argon2 asks for and fails only for impossible lengths; the inductive invariants |
| `bcrypt_calls` | key limit 2, bytes below 4, salts of 4 bytes | a hash verifies for its password only, in one spelling; the inductive invariant |

Bounds.  Three lanes are the least with a lane that is neither the first nor
the last of a window; two passes are the least in which blocks are overwritten and the
reference window starts in the middle of the ring; segments of two are the
smallest the code makes, of three the smallest with a block that is neither first
nor last.  Blocks are residues modulo 5, and the operators on them mix all arguments, so
different reads give different blocks for some seed.  In `Argon2Call` a
word has 9 bits and at most 3 lanes are allowed, so 64 lanes wrap the check of
the memory cost as 2^29 lanes wrap it in the code; 9 bits leave room for a
salt that is too long for the buffer of the stub and short enough for a word; two salts
differ in nothing but their bytes.  In
`Argon2Encoding` three bytes are still four characters, the accumulator
overflows on every field, as in the code, and `unsigned long` is wider
than `uint32_t` by less than a digit, so both limits of a number are met; letters, digits
and the `$` of the fixed parts also occur where they do not belong.  In `Blake2b` a message
crosses two block edges and the counter carries at the second; a uint32_t is four bytes of
one bit, so 16 bytes are too many.  In `Bcrypt` the passwords are all byte
strings of up to one byte above the limit; salts of 4 bytes end, like salts of 16, in
a character with four spare bits; texts to verify have a NUL in each of prefix, cost and salt.

In Passe, `threads` equals `lanes`; the core accepts any `threads` up to `lanes`,
and the models follow the core.  With fewer threads than lanes and a failing
creation the clean-up joins some threads twice (`core.c`, 338-340), which is undefined:
`JoinsAreDefined` holds for `threads = lanes`, the only case that Passe reaches.
When a join itself fails, threads may survive the call, so `NoThreadSurvives` is checked without
failing joins.

Deadlock is checked in all runs; `Terminated` is the stuttering of a finished call.

### Where code and documentation disagree

| run | what the code does | what is said |
|---|---|---|
| `argon2_params` | costs are cut to 32 bits after validation | `argon2.mli` 27: hashed with the given params |
| `argon2_mismatch` | any failure of verify is `Verify_mismatch` | `argon2.ml` 18: "password mismatch" |
| `argon2_wiped` | a failed filling leaves the memory unwiped and unfreed | `argon2.h` 95: internal memory is wiped by default |
| `bcrypt_2y` | a `$2y$` hash never verifies | `bcrypt.mli` 29: verifies that the password matches |
| `bcrypt_errors` | `verify_exn` may raise `Failure` | `bcrypt.mli` 32: raises `Invalid_argument` |

## Fairness

`Argon2Fill` assumes weak fairness of the caller and of every worker: the operating
system runs each thread that is not blocked, and a join is enabled once its thread has
exited.  Nothing depends on a lock or on a stronger assumption.  A failure is a
choice of the step that may fail, so `Termination` covers failing runs too.
`Argon2Passes` assumes only that its steps go on; `ImplementsPasses` includes that.
The other modules make no liveness claims.

## Proofs

Every safety property of the passing runs is a theorem.  What each of them needs:

`Argon2FillProofs` first proves, for every word size, segment length and pseudo-random
word, that a reference into a block's own lane is an earlier block
(`OwnLaneReference`) and one into another lane is outside the segment being
filled (`OtherLaneReference`).  The argument: the scaled square of the
pseudo-random word is below the area size (`ScaledBelow`), the area is at least
one (`AreaSize`), and start, area and ring length together leave exactly the
current segment out (`IndexUnrolled`).

It then proves `Spec => []IInv` and from it `TypeOK`, `NoDataRace`,
`ReadsComputedBlocks` and `DistinctOperands`, for any numbers of lanes, threads and passes, any blocks and
any set of failures.  None of these is inductive by itself.  `IInv` adds:

* `ControlInv`: where the caller can be, given its counters;
* `BarrierInv`: a lane that has been passed has no running thread, and one that was
  launched and is not running has finished its segment: the joins are a barrier;
* `WorkerInv`: a running thread works on its own lane in the current slice;
* `PrevInv`: `prev_offset` is one behind, or at the end of the ring;
* `ReferenceInv`: the chosen reference is one the two theorems above allow;
* `ComputedInv`: which blocks hold a computed value.

With `WorkerInv` all running threads are in the same slice, so by `ReferenceInv` what one
reads of another lane is never in the segment the other one writes.

`Blake2bProofs` proves `Spec => []IInv` and from it `DigestOfMessage`, for all block,
digest and word sizes and messages of fewer than `Word * Word` bytes.  The invariant
(`StreamInv`): the blocks compressed so far are the leading blocks of the message, the two
words of the counter hold their length, what follows is in the buffer or still in the
caller's memory, and unless nothing has been compressed, that rest is not empty. The last
part is why the last block is flagged and padded just once.

It also proves that the compressions of a message determine it: the
last counter gives its length, and byte `k` is in block `(k - 1) \div B + 1`
(`HashInjective`, `DigestIdentifiesMessage`); and `LongInv`: while `blake2b_long` runs
there has been no error, and `Len(out) + toproduce` is what was asked for, with at least
one byte to come, so that the last call has neither no bytes nor too many (`LongSucceeds`).
`LongContents` adds that `out` consists of the first halves of a chain of digests, each of the one
before, and that `out_buffer` holds the last of them; so the output is the one of the
recursive definition, `Digests` (`LongOutput`).  This takes an even `BLAKE2B_OUTBYTES`.

`Argon2RefinementProofs` proves `Spec => []RInv` and, from `RInv` and `IInv`,
`NoThreadSurvives` if joins do not fail; `ThreadLimit`, whatever fails;
`JoinsAreDefined`, if `threads = lanes` or no creation fails; and that the detailed
specification implements the abstract one if joins do not fail: initial states are
initial states of `Argon2Passes`, and every step is one of its steps or leaves its
variables alone (`Refinement`).  `IInv` knows which segments have been filled, but not
what became of the threads, so `RInv` adds:

* `JoinedInv`, `PendingInv`: lanes that are behind the caller have no thread, those it will
  still join have one that can be joined;
* `WindowInv`: the threads are those of `threads` successive lanes;
* `FreshInv`: a lane that has not begun its segment stands at its first block;
* `ChoiceInv`: between `ChooseReference` and `FillBlock` nothing that the choice was read
  from has changed.  This makes two steps of a thread one of `Argon2Passes`, and it
  holds because there is no race.

The assumptions are needed.  When a join fails, `fill_memory_blocks_mt` returns at once:
threads go on after `Argon2Passes` has failed.  When a creation fails with fewer threads
than lanes, the clean-up joins threads again: the model then goes to `pc = "undefined"`.

`Argon2SequentialProofs` proves that the result does not depend on the schedule:
`Spec => []Deterministic` (`SameAsSequential`), with joins that fail or not.  `Solves(v, h)`
relates the memories `v[r]` after each pass: a block of pass `r + 1` is what
`fill_block` makes of its predecessors, where every other lane stands at the start of
the slice.  The argument has two halves:

* `ScheduleIndependence`: the memory of a run without an error consists of the blocks of any
  solution, as far as each lane has come (`SolvedInv`).  A step of a worker keeps this
  because by `ReferenceLegal` it reads nothing of the segments that the others are
  filling (`ScheduleFree`), a barrier because the end of a slice for all lanes is the
  beginning of the next.
* `SequentialSolves`: the memories that the loops pass through are a solution. After `k` steps
  the loops stand at the `k`-th position (`PositionAfter`), the blocks behind them are final
  (`DoneForGood`) and those ahead are still the last pass's (`NotDoneYet`).

The second half is about a recursive function; `LoopsExist` says that there is one.

`Recursion` is what this and the next proofs stand on.  The induction theorems of the library have an
operator as a parameter; the parameter of `NatInductionOnSets` is a set of numbers instead,
and it follows from the well-foundedness of `<`.  From it follow `RecursionOnNat`, that
there is a function whose value at `n` is made from a value at a smaller number, and
`LoopOfTurns`, that a loop has a state after each of its turns.  The values of the recursive
functions in the models, and what the folds over a string return, are known by these.

`Argon2EncodingProofs` is about the codecs on strings of any length.  `DecodeAccepts`: `passe_decode_string` accepts a
string just when it stands for a context (`Denotes`) that is valid and whose salt and
output fit, and then returns that context.  Its parts:

* A string of characters is a number with the alphabet's size as its base, a sequence of bytes
  one with the base of a byte.  Both base64 loops keep what they have written, followed by the low
  `acc_len` bits of the accumulator, equal to what they have read (`EncInv`, `DecInv`), although the
  accumulator overflows.  So `to_base64` writes the number of the bytes, padded with zeros
  (`ToBase64Spells`), `from_base64` accepts nothing else (`AcceptedOnlySpellings`,
  `SpellingsAccepted`), and as numerals of the same length are unique (`NumberUnique`) bytes have one
  spelling (`OneSpelling`).
* `decode_decimal` accepts the digits without a leading zero of a number that an `unsigned long` can hold, and
  `SX` writes these (`DecimalSpells`, `MinimalIsDecimal`).
* Field after field, what is found at an index in the string is what the encoder writes there,
  and the next field begins where it ends (`DecodesOnlySpellings`, `DecodesEverySpelling`).

`EncodingInv` says that what has been made is what `passe_encode_string` returns for
the context, and what has been read is what `passe_decode_string` returns for the stored
string.  From it and `DecodeAccepts` follow `TypeOK`, `RoundTrip` (with `OneType`: no string
begins like two types), `Canonical` and `FieldsFit` (no field has more bytes than the string
characters); from the lengths of the parts (`EncodedLength`), `EncodesWhenItFits`.

`Argon2CallProofs` proves `Spec => []IInv` and from it all seven properties of
`argon2_calls`, among them the action property `VerifyAgrees`, for any word size, costs,
salts, failures and changes of the stored hash.  The invariant says which buffers live at
each step and which variable points to which (`BuffersInv`), where the tag has not been
wiped (`SecretInv`), what an error code says about tag, desired tag and context
(`ResultInv`), and that the stored hash is that of its record (`StoredInv`).

`BcryptProofs` proves that the key streams of two different passwords differ
(`KeyStreamInjective`), from the length limit of `bcrypt.ml` and the NUL check of the
stub, that the buffers have room (`BuffersHaveRoom`), that base64 decoding undoes
encoding for any number of bytes (`RoundTrip`), and then `Spec => []IInv` and from it `VerifyAgrees`, `NoFalseAccept` and `StoredIsCanonical`.  `StoredInv` says that
a stored hash has the digest of a password that is read to its end and the encoding of
that digest's salt; with `RoundTrip`, hashing again with the salt in the hash
leads back to the hash, and with `KeyStreamInjective` no other password does.

The proofs assume what the `ASSUME`s say: sizes that `LayoutFits` guarantees,
operators on blocks that return blocks, words in range, and in `Bcrypt` that a digest which
was not computed is not one that was.  They take hash values for records of their inputs,
as the models do.  In `Argon2Encoding` the sizes are any with the proportions of the code: three bytes are
four base64 characters, the accumulator has room for a byte and a character, an
`unsigned long` for a `uint32_t`; `$` is in neither alphabet and a comma is no digit; the
two version numbers have equally many digits (`CodecAssumption`); and a caller's context is one
of `argon2_hash`, with `threads = lanes` and lengths that are those of the fields
(`ProgramAssumption`).

Only model-checked: `Termination`, and the fairness in `ImplementsPasses`.  Both are
liveness, which the prover does not do.

## Not modelled

Keyed BLAKE2b, which has no caller; the
arithmetic of Blowfish, of BLAKE2b's rounds and of the block compression (hash values are taken as records of their inputs, that
is, collisions are left out); timing; Windows threads; the
`ARGON2_NO_THREADS` build; functions Passe never calls; the `_exn` calls of `argon2.ml`
and `hash_exn` and `hash_with_salt_exn` of `bcrypt.ml`, which turn an `Error` into an
exception and keep no state; what a thread that survives a failed join
reads from `thr_data` or does to the memory after they have been freed; branches that
no call reaches (a type that is none of the three in `encoding.c`, a failing `blake2b`
inside `blake2b_long` for lengths it asks for itself, `Hash_failure` and
`Invalid_prefix` in `bcrypt.ml` behind the checks that exclude them).

## What could follow

The order of the work was: the filling of memory with its abstract specification;
the calls of Argon2 and of bcrypt; BLAKE2b; the hash strings; then the proofs, from the
index arithmetic up to the refinement, the calls and the independence of the schedule.
Still open:

* `Argon2Call` takes decoding for a step that returns a record or an error.  `DecodeAccepts`
  says that it may, but the two modules have different strings, and no theorem joins them.
* `LayoutFits` of `Argon2Call` establishes the `ASSUME`s of `Argon2Fill` in words only.
* `validate_inputs` and the layout are shared, but not `argon2_hash`'s encoding of a context
  that `initialize` has changed; it changes no field that is encoded.
