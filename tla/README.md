# TLA+ models of the xdagj native crypto and PoW glue

This directory holds TLA+ models of the native code under `src/src/c/`.
The models are checked with TLC and, where the argument is worth having for
every value of the constants, proved with TLAPS.

* `dfs/dfs_jni.cc` holds the JNI entry points of the dnet key system:
  - the global key pair `g_dnet_keys`;
  - the user cipher state `g_dnet_user_crypt`;
  - the key-length cache `g_keylen`;
  - the test cipher `g_test_crypt` and the miners cipher `g_crypt`;
  - the deterministic random generator.
* `randomx/src/randomx_jni.cpp` holds the JNI entry points of the RandomX
  proof-of-work engine: cache, dataset and VM lifecycle, plus the parallel
  dataset build.
* `dnet_crypt.h` and `dfs/dnet_crypt.c` hold shared constants and a second
  copy of the miners-cipher setup.

The cipher (`dfslib_crypt`), the asymmetric primitive (`dfsrsa`) and RandomX
itself are not under `src/`. They are modelled from `spec.md` as black boxes
with the laws the glue relies on.

## Inventory

### Components and how they interact

| Part | State | Operations that change it |
|---|---|---|
| Key lifecycle | `g_dnet_keys` (4 sectors of 512 bytes: private key in sectors 0-1, public key in sectors 2-3), `g_dnet_user_crypt`, `g_keylen` | `dnet_crypt_init`, `set_user_dnet_crypt`, `set_user_random`, `make_dnet_keys`, `general_dnet_key`, `verify_dnet_key` |
| Test cipher | `g_test_crypt`, `g_test_xkeys` | `load_dnet_keys`, `dnet_crypt_init`; read by `dfslib_encrypt_byte_sector` and `dfslib_uncrypt_byte_sector` |
| Miners cipher | `g_crypt` | `crypt_start`; read by `dfslib_encrypt_array` and `dfslib_uncrypt_array` |
| Random generator | none of its own: it reads `g_dnet_keys->priv` | `generate_random_array`, `generate_random_bytes` (through `dnet_random_sector`); also used by `dnet_test_keys` |
| Wallet key cipher | none: it reads `g_dnet_user_crypt` | `encrypt_wallet_key`, `uncrypt_wallet_key` |
| PoW bootstrap | cache, dataset and VM handles owned by Java; the `seedinfo` and thread arrays of one `initDataSet` call | `allocCache`, `initCache`, `releaseCache`, `allocDataSet`, `initDataSet`, `releaseDataSet`, `createVm`, `destroyVm`, `calculateHash` |

The user cipher state wraps and unwraps the key pair, and the wallet key
cipher uses it too. The self-test `dnet_test_keys` and the random generator
both use the installed key pair. `g_keylen` caches what
`dnet_detect_keylen` finds in the installed public key. The PoW bootstrap
shares nothing with the rest.

### Hard behaviours

* **Wrap, copy out, unwrap.** `make_dnet_keys` and `general_dnet_key`
  encrypt the global pair in place, sector `i` at sector number
  `~(uint64_t)i`. They copy the result to Java and then decrypt the pair in
  place again. `verify_dnet_key` must undo this later from the password
  alone, whatever calls ran in between.
* **A cache that outlives what it caches.** `dnet_detect_keylen` returns
  `g_keylen` whenever it is non-zero, and only `verify_dnet_key` resets it.
* **Calls in an order nobody tested.** `make_dnet_keys` can run after
  `dnet_crypt_init` and before any password is set.
* **A fork-join with failure paths that do not stop.** `initDataSet` splits
  `randomx_dataset_item_count()` items into `jminers` ranges: equal shares
  of `item_count / jminers` and a remainder for the last worker. It starts
  one thread per range and joins them in order. A failed `malloc` is only
  printed, and the code goes on.
* **A capability fallback.** `createVm` tries large pages, then the host
  flags, then the default flags.

## Modules

### `KeyVault`: the key lifecycle (`dfs_jni.cc`)

Each JNI call is one atomic step. `spec.md` §5 states that one caller
drives these entry points.

The state is as follows:

* `keys` is `g_dnet_keys`: sector number to content.
* `userCrypt` is `g_dnet_user_crypt`. It holds `ZeroCrypt` after
  `dnet_crypt_init`, or the password it was last derived from.
* `keylen` is `g_keylen`.
* `initialised` records that `dnet_crypt_init` has allocated the globals.

Three history variables exist only for the properties:

* `keyLens` is the length each generated pair was tiled at.
* `exported` is the set of blobs handed to Java.
* `lastVerify` is the arguments and result of the last `verify_dnet_key`.

Sector contents are abstracted to a base under a stack of cipher layers. A
base is zero bytes, random bytes, or key pair number `k`. `CryptSector`
pushes a layer, or cancels the opposite layer with the same cipher state and
sector number. This encodes exactly what the code relies on:
`dfslib_uncrypt_sector` undoes `dfslib_encrypt_sector` for the same state and
sector number. Nothing else cancels.

`dnet_test_keys` succeeds exactly on a plaintext matched pair. Garbage fails
at one of its six checks, and the check that fails is chosen
nondeterministically.

`dnet_detect_keylen`'s halving loop is modelled by its closed form
`DetectFresh`: `min(n, max(period, 4))` for a buffer of that period. The
period of a freshly tiled key is the length it was tiled at. A zeroed buffer
has period 1, and random or encrypted bytes do not repeat.

Actions and their code:

| Action | Code |
|---|---|
| `DnetCryptInit` | `dnet_crypt_init`, lines 186-217 |
| `SetUserDnetCrypt(p)` | `set_user_dnet_crypt`, lines 282-305 |
| `SetUserRandom` | `set_user_random`, lines 308-319 |
| `MakeDnetKeys(len)` | `make_dnet_keys`, lines 322-348, through `GenerateAndExport` |
| `GeneralDnetKey(p)` | `general_dnet_key`, lines 570-623 |
| `VerifyDnetKeyPlain(p, b)` | `verify_dnet_key`, lines 519-566, when the copied blob passes the first self-test |
| `VerifyDnetKeyUnwrap(p, b)` | `verify_dnet_key`, when the first self-test fails: re-derive the state, unwrap, reset and recompute `g_keylen`, return minus the second self-test |

The blobs Java can pass to `verify_dnet_key` are the blobs it was handed, and
the plaintext of a generated pair, as if stored unwrapped.

### `PowDataset`: the dataset bootstrap (`randomx_jni.cpp`)

The caller of `initDataSet` and each worker thread are separate actors.

* `pc` is where the caller is: `idle`, `spawn`, `join`, `hung` or `crashed`.
* `si` is the `seedinfo` array and `idx` the loop index `i`.
* `thr` is the state of each thread.
* `inits[x]` counts how often `randomx_init_dataset` wrote item `x` in the
  current call.
* `siMem` and `stMem` record whether the two arrays are allocated, NULL or
  freed.

Actions and their code:

| Action | Code |
|---|---|
| `InitDataSetSingle(j)` | the `jminers <= 1` branch, lines 128-131 |
| `InitDataSetParallel(j)` | lines 82-115: the two mallocs, with their results as inputs, and the `si` fill (`Partition`) |
| `SpawnWorker` / `SpawnWorkerFailed` / `SpawnDone` | the create loop, lines 118-120; `CTHR_THREAD_CREATE` succeeds, or fails with its result ignored (slot recorded in `noThread`) |
| `SeedThread(t)` | `rx_seedthread` |
| `JoinWorker` / `JoinFailedWorker` | the join loop, lines 123-125. Joining a slot whose create failed uses the handle malloc left in `st[i]`. Three outcomes are modelled: the join fails at once and the loop goes on; the join blocks for ever (`pc = "hung"`) while the other workers run on; or the process crashes (`pc = "crashed"`) |
| `InitDataSetReturn` | the frees, lines 126-127 |
| `CreateVm(ok)` / `DestroyVm` | lines 148-185 |

`ok` is the set of flag sets `randomx_create_vm` succeeds with. The code
does not tie `createVm` to the state of `initDataSet`, so any Java thread may
call it at any time.

The body of `randomx_init_dataset` over one range is one step of its worker.
The ranges are meant to be disjoint, and the properties check that they are.

### `SeedRandom`: the deterministic random generator (`dfs_jni.cc`)

`generate_random_array` and `generate_random_bytes` pass a Java `size` to
`dnet_generate_random_array` on a stack array of 32 or 8 bytes.
`dnet_generate_random_array` fills the array one 512-byte sector at a time
through `dnet_random_sector`. Each sector is encrypted with the private key
and then re-passworded in 8 segments. Below 512 bytes, slices of CRC words
are copied out of one local sector.

The state records which memory each step touches. Memory is modelled as a
set of access records `[buf, off, len]`:

* `acc` holds the records of the current call, one per `memcpy`, loop
  round or word store.
* `call` holds the call's function, buffer capacity, size, loop position and
  `pc`.
* `alive` is FALSE after a dereference of the null `g_dnet_keys`.

The buffers are the wrapper's array, the local sector, the 64-byte
password and the private key. `Rejected(size)` is the code's check
`size < 4 || size & (size - 1)`, stated by what it does:

* a negative `jint` is rejected;
* otherwise the size must be at least 4 and a power of two, at most `2^30`
  for a positive `jint`.

This is the LP64 build, where `unsigned long` has 64 bits. On a build with
a 32-bit `unsigned long` (Windows), the `jint` -2^31 becomes 2^31, which
passes the check. That build is not modelled.

`MCSeedRandom` has an `ASSUME` (`RejectedIsBitTest`) that checks this
against the bitwise test of the `Bitwise` module for every size from -16
to 1100. The statement uses no `Bitwise`, so the provers can take the
module.

Actions and their code:

| Action | Code |
|---|---|
| `GenerateRandomArray(size)` / `GenerateRandomBytes(size)` | the wrappers, lines 391-424, and the size check of `dnet_generate_random_array`, lines 111-114 |
| `FillSector` | the sector loop of `dnet_generate_random_array` |
| `CryptSector` / `CryptSectorNullKeys` | the encryption under `g_dnet_keys->priv` in `dnet_random_sector`; the second is the dereference of a null pointer before `dnet_crypt_init` |
| `Repassword` | the 8 segment `set_password` calls in `dnet_random_sector` |
| `DeriveSlices` | the slice copy for sizes below one sector |
| `Return` / `Restart` | the copy back to Java, and a new process after a crash |

### `KeyVaultThreads`: the key calls from several Java threads

`KeyVault` runs each key call as one step. `KeyVaultThreads` splits
`make_dnet_keys`, `general_dnet_key` and `verify_dnet_key` at every read or
write of `g_dnet_keys`, `g_dnet_user_crypt` and `g_keylen`, so the steps of
two Java threads can interleave:

* `make_dnet_keys`: keygen, wrap, copy out, unwrap.
* `general_dnet_key`: set password, keygen, wrap, copy out, unwrap.
* `verify_dnet_key`: load, set password, unwrap, detect, test and return.

The library has no lock of its own. `spec.md` §5 requires the caller to
serialise the mutating key operations (`generate`, `wrap`, `unwrap`,
`load_raw`). `verify_dnet_key` is one of them: it copies the blob into
`g_dnet_keys` (line 525) and unwraps it in place (line 553). So every key call
takes the writer side of the caller's lock. `writer` models that lock. The
lock definitions are the only ones modelled from the spec rather than the
code, and they are marked `spec_modelled` in the map.

**Refinement.** `KeyVaultThreads` implements `KeyVault`. The mapping `Abs`
is as follows:

* while no thread holds the writer side, it is the current state;
* while one does, it is `snap`, a history variable copied when the lock is
  taken.

A split call therefore maps to stutters until its last step, which releases
the lock and maps to the one-step `KeyVault` action. The run checks
`KV!Spec` as a PROPERTY.

### `MinerCrypt`: the miners cipher (`dfs_jni.cc`, `dnet_crypt.c`)

The state is as follows:

* `gCrypt` is `g_crypt`, which `crypt_start` allocates once and derives from
  the fixed password.
* `testBlocks` counts the blocks `crypt_init_test` has allocated.
* `store` is the set of arrays Java has kept. It survives `Restart`.
* `last` is the last array call.

Blocks are terms, as in `KeyVault`. `CryptBlock` (modelled from the spec)
cancels the opposite layer at the same sector number. `CryptBlocks` is the
loop of `dfslib_encrypt_array` and `dfslib_uncrypt_array`: block `i`
at byte `32 * i` and sector number `sectorNo + i`, all in a 512-byte stack
buffer. A `malloc` result comes from `AllocOK`.

A call with `nfiled > 16` (`Overruns`) copies past `buf[512]`. That is
undefined behaviour, modelled as the outcomes a stack overrun can have:

* the result comes out right;
* the result is wrong (`Smashed` blocks);
* the process dies.

Actions and their code:

| Action | Code |
|---|---|
| `CryptStart` | `crypt_start`, lines 56-77 |
| `CryptInitTest` | `crypt_init_test` of `dnet_crypt.c`, lines 11-37 |
| `EncryptArray` / `UncryptArray` | the JNI array entry points, lines 432-457 and 465-487 |
| `ArrayCallNullCrypt` | either entry point while `g_crypt` is null: the process dies |
| `Restart` | a new process: native statics are fresh, Java's arrays remain |

## Runs

| Run | Config | Expect | What it shows |
|---|---|---|---|
| `keyvault_roundtrip` | `MCKeyVault.cfg` | pass | `TypeOK` and `VerifyRoundTrip` hold over every sequence of key calls with 2 passwords, key lengths {64, 256} and at most 3 generated pairs. |
| `keylen_cache` | `MCKeyVaultKeylen.cfg` | violation | `KeylenCacheCoherent` fails, because `g_keylen` outlives the key it was computed for. |
| `dataset_build` | `MCPowDataset.cfg` | pass | With 7 items, 0, 1, 2, 5 or 8 workers, and any `CTHR_THREAD_CREATE` allowed to fail, `TypeOK`, `NoOverlap` and `BuiltAsStarted` hold. `DataSetCallReturns` also holds: a call whose every thread was created returns. |
| `dataset_alloc_failure` | `MCPowDatasetAlloc.cfg` | violation | `AllocFailureNotUsed` fails, because a failed malloc is written through. |
| `dataset_spawn_failure` | `MCPowDatasetSpawnFail.cfg` | violation | `BuiltComplete` fails: a failed thread creation goes unnoticed and the call returns with a range never initialised. |
| `dataset_spawn_hang` | `MCPowDatasetHang.cfg` | violation | `DataSetCallEnds` fails: after a failed thread creation, the join on the unset handle can block for ever, so the call neither returns nor fails. |
| `seed_bounds` | `MCSeedRandom.cfg` | pass | For every size that fits its buffer, with and without `dnet_crypt_init`, every access stays inside its buffer (`AccessesInBounds`), and each round after the first takes its password from CRC segments that cover the sector written before it exactly once (`PasswordSegmentsPartition`). |
| `seed_overflow` | `MCSeedRandomOverflow.cfg` | violation | `AccessesInBounds` fails for size 64 (array) and sizes 16 and 512 (bytes): they pass the power-of-two check and overrun the stack array. |
| `seed_rc_ignored` | `MCSeedRandomRc.cfg` | violation | `FailureReported` fails: a rejected size returns the caller's own bytes as if they were random. |
| `keyvault_threads_serialised` | `MCKeyVaultThreads.cfg` | pass | With two threads under the caller's lock, the split calls refine `KeyVault` (`KeyVaultRefined`). |
| `miner_array_roundtrip` | `MCMinerCrypt.cfg` | pass | `ArrayRoundTrip`: an array encrypted by a call that fit in `buf[512]`, or a prefix of it, decrypts to its plaintext with the same `sectorNo`. Overrunning 17-block calls, crashes, malloc failures and `crypt_init_test` calls may come in between. |
| `miner_array_overflow` | `MCMinerCryptOverflow.cfg` | violation | `ArrayFitsBuffer` fails for `nfiled = 17`: 544 bytes are copied into `buf[512]`. |

Each property of a passing run has a mutant in `PROJECT.json`: a plausible
bug in the mapped code under which TLC finds the property violated.

### Bounds

* **Passwords.** Two passwords in `KeyVault` are enough to have a blob
  verified under a password other than the one it was wrapped under.
  Symmetry over the passwords is sound because no property names one of
  them. `KeyVaultThreads` uses one password, because the interleavings of
  two threads already give a large state space (about 132,000 states).
* **Key pairs.** Three generated pairs, or two in `KeyVaultThreads`, let a
  verify of an old pair follow the generation of a new one.
* **Key lengths.** {64, 256} gives a short key, whose detected length
  differs from `DNET_KEYLEN`, and a full-length key.
* **Items and workers.** 7 items with 2 and 5 workers leave a remainder for
  the last worker. 8 workers give every other worker an empty share. 0 and 1
  take the single-thread branch.
* **Random sizes.** The sizes are negatives (including a large one standing
  for a wrapped `jint`), 0 to 3, non-powers of two, every power of two up to
  the buffer, and the buffer size itself. `DigitBytes = 4` is the 32-bit
  build. The overflow runs add the first power of two past each buffer, and
  512 for the sector branch.
* **Miner arrays.** `nfiled` in {0, 1, 2} and `sectorNo` in {0, 1} cover
  empty, single-block and two-block arrays, and prefixes decrypted at the
  same or a shifted sector number. 17 adds a call that overruns the
  buffer. The overflow run uses 16, the largest size that fits, and 17.

### Fairness

`dataset_build` and `dataset_spawn_hang` assume weak fairness of the
caller's steps and of each worker. A started pthread that is runnable is
eventually scheduled by the OS. A caller blocked in a join on a handle that
names no live thread (`pc = "hung"`) has no step left; fairness does not
move it.
Nothing else is assumed: Java may stop calling at any time.

## Findings

1. `g_keylen` is never invalidated when the key pair changes (`dfs_jni.cc`
   line 129). This contradicts `spec.md` §4.3.
2. `initDataSet` continues after a failed malloc and writes through a null or
   freed pointer (`randomx_jni.cpp` line 105). `spec.md` says the build
   fails.
3. `initDataSet` ignores the result of `CTHR_THREAD_CREATE` (line 119) and
   returns as if the dataset were complete.
4. After such a failure, the join on the unset `st[i]` (line 124) can block
   for ever. `spec.md` §7 makes the failure fatal to the build.
5. `generate_random_array` and `generate_random_bytes` pass an unchecked
   size to a 32- or 8-byte stack array (`dfs_jni.cc` line 401). A power of
   two past the buffer overruns it.
6. The same wrappers drop the `-1` of a rejected size and return the input
   bytes. `spec.md` §7 says the call fails with `InvalidInput`.
7. `dfslib_encrypt_array` and `dfslib_uncrypt_array` copy `32 * nfiled`
   bytes into `buf[512]` with no check (line 442).

## Proofs

`KeyVault_proofs` (TLAPS) proves two theorems for every value of the
constants allowed by `ConstantsAssumption`. That assumption admits exactly
the `keylen` values `dnet_make_key` is defined for: divisors of the power of
two `DNET_KEYLEN`. Any other length makes the tiling loop copy past the key
(lines 90-91), or, for 0, never end. The theorems are:

* `TypeCorrect`: `Spec => []TypeOK`.
* `RoundTrip`: `Spec => []VerifyRoundTrip`.

`VerifyRoundTrip` is not inductive on its own. A step of `verify_dnet_key`
must know what the blob it is given is. The inductive invariant `IInv`
adds two facts (the lemma `IInvThm` proves it holds):

* `ExportInv`: every exported blob is the plaintext pair wrapped at `~i`
  under the state recorded with it.
* `LastVerifyInv`: the last verified blob names a generated pair.

The argument has three parts:

* Unwrapping an exported blob with its own password cancels every layer
  (`UnwrapWrap`), so the result passes the self-test.
* A wrapped blob is not a plaintext pair (`WrappedFailsTest`), so it takes
  the unwrap branch.
* A plaintext blob takes the first branch and returns 0.

The lemmas `CryptSectorType`, `WrapType`, `PubPeriodInt` and
`DetectFreshRange` give the type facts the steps need.

`PowDataset_proofs` (TLAPS) proves these theorems for every item count,
every set of `jminers` values and every set of spawn outcomes allowed by
`PowAssumption`:

* `NoOverlapThm`: `Spec => []NoOverlap`.
* `BuiltAsStartedThm`: `Spec => []BuiltAsStarted`. When a call returns,
  each item of a started worker has been written once, and each item of a
  slot whose thread creation failed has not been written.
* `BuiltCompleteThm`: `Spec => []BuiltComplete`, under the extra
  assumption that thread creation never fails (`SpawnResults = {"ok"}`).
* `DatasetSafe`: `Spec => []DatasetInv`, the invariant they rest on.

The properties rest on two lemmas about the `seedinfo` fill, with
`delta = item_count / jminers`:

* `PartitionDisjoint`: two distinct shares never meet. Share `s` ends at
  `(s+1)*delta`, which is at most where share `t > s` starts.
* `PartitionCovers`: every item lies in some share. Item `x` lies in share
  `x / delta`, or in the last share when that quotient reaches `jminers-1`,
  or when `delta` is 0.

The invariant `DatasetInv` relates the items written to the threads:

* While a call is between its spawn loop and its return, `inits[x]` is 1
  exactly when a worker that has run owns `x`. A worker has run when it is
  done, or has already been joined.
* The spawn loop has handled exactly the slots below `i`. Each slot either
  holds a thread or is in `noThread`, and never both.
* The join loop has reaped exactly the slots below `i`.
* No thread slot outside the call is in use.

The step of a worker needs the thread facts: the worker has not run before,
so by disjointness its items are still unwritten. The return needs the join
facts: every started slot has run, and no failed slot has a worker, so by
coverage each item has been written exactly when its owner started. TLC found
no violation of `DatasetInv` on the `dataset_build` instance before the
proof was written.

`PowDataset_proofs` also proves `TypeCorrect`: `Spec => []TypeOK`, which
follows from `DatasetInv`.

`MinerCrypt_proofs` proves `ArrayRoundTripThm`: `Spec => []ArrayRoundTrip`,
for every constant allowed by `MinerAssumption`. Its inductive invariant
`MinerInv` has two parts:

* `StoreInv`: every array Java holds from a call that fit in `buf[512]` is
  the encrypting loop applied to its plaintext at its `sectorNo`.
* `LastInv`: the last call, if it fit, returned its loop applied to its
  input.

A call that overruns the buffer may store a smashed array. The property
only speaks of arrays from calls of at most 16 blocks, and a prefix of
such an array is no longer than 16 blocks, so the decrypting call fits too.
`miner_array_overflow` shows the overrun itself.

`UncryptEncrypt` shows that decrypting a block at the number it was
encrypted at gives the plaintext back. Block `i` of a prefix of a stored
array was encrypted at `sectorNo + i - 1`, so the decrypting loop at the
same `sectorNo` returns the plaintext prefix. `g_crypt` only ever holds
the one state that `MINERS_PWD` derives, so the restart steps keep
`MinerInv` trivially. The theorem says nothing deeper about restarts.

`KeyVaultThreads_proofs` proves `Refinement`: `TSpec => KeyVaultRefined`,
for every set of callers. Every key call takes the writer side of the
caller's lock, as spec §5 requires. This is the TwoPhase layout of the
TLAPS examples:

* `RefineInit`: the initial state maps to `KeyVault`'s initial state.
* `RefineNext`: every step maps to a `KeyVault` step or to a stutter.

`RefineNext` rests on `RInv`, the invariant of the lock, proved inductive
(`RInvInit`, `RInvNext`) and checked first by TLC. It says:

* a thread is inside a call exactly when it holds the writer side;
* while a call runs, the globals are what its steps so far have made of
  `snap`:
  * `SetPwdInv`: after `set_password` in `general_dnet_key`;
  * `GenInv`: during the wrap, copy and unwrap of the key calls, where the
    pair was generated at `Len(snap.keyLens) + 1`, wrapped under the
    current `g_dnet_user_crypt`, and copied out;
  * `VerInv`: during `verify_dnet_key`, where the blob is one Java could
    pass, and the globals follow either the plain path or the unwrap path.

With `RInv`, the steps map as follows:

* taking the lock and the middle steps of a call leave `Abs` unchanged;
* `UnwrapGlobal` is `KV!MakeDnetKeys(len)` or `KV!GeneralDnetKey(p)`,
  taken from `snap` to the state it leaves;
* `VerifyReturn` is `KV!VerifyDnetKeyPlain` or `KV!VerifyDnetKeyUnwrap`;
* the one-step calls are the `KeyVault` actions themselves.

`SeedRandom_proofs` proves three theorems for every digit size allowed by
`SeedAssumption` and every set of sizes:

* `TypeCorrect`: `Spec => []TypeOK`. It rests on `TInv`: a round that
  reaches `dfsrsa_crypt` is one of the first two, and a call past the size
  check has a size of at least 4.
* `PartitionThm`: `Spec => []PasswordSegmentsPartition`, for every size,
  including sizes of several 512-byte strides. It rests on `SegInv`:
  * while a sector is drawn, the 64-byte regions read at or past its start
    begin at multiples of 64;
  * once a round has re-derived the password, all eight regions were read.

  Byte `x` is then covered by exactly the segment starting at the multiple
  of 64 below it (`FS_Singleton`). The move to the next stride keeps
  `SegInv`, because every earlier segment ends below the new start.
* `BoundsThm`: `Spec => []AccessesInBounds`, under the hypothesis
  `SizesFit`: every accepted size is at most 32 for the array wrapper and
  at most 8 for the bytes wrapper. The hypothesis is the condition under
  which the code is safe, and `seed_overflow` shows the overflow without
  it. It rests on `BInv`: a running call's size is at most its buffer, so
  it works in the stack sector. The accesses of each round are then inside
  the buffers:
  * the mask words lie between word 3 and word 127;
  * segment `i` lies at `64 * i`;
  * CRC slice `i` ends at `floor(i*512/size) + floor(512/size)`, which is at
    most 512 (`SliceInSector`).

## Not proved, only model-checked

* The liveness property `DataSetCallReturns`, and the violation of
  `DataSetCallEnds`: TLAPS does not handle fairness and ENABLED.
* The closed form `DetectFresh` of the key-length search, which holds on the
  TLC instance only.
* `RejectedIsBitTest`, the agreement of `Rejected` with the bitwise test,
  which TLC checks for sizes from -16 to 1100.
* The violation runs: these are counterexamples that TLC finds.

## Not modelled, and why

* **The test cipher's byte-sector entry points and `load_dnet_keys`.** These
  are a byte copy into `g_test_xkeys` and per-sector calls into the
  external cipher. Only the allocation in `crypt_init_test` is modelled.
* **The wallet key cipher** (`encrypt_wallet_key`, `uncrypt_wallet_key`).
  Each is one cipher call on `g_dnet_user_crypt` with no control of its own.
* **The dfsrsa and RandomX primitives.** They are external, and treated as
  black boxes as `spec.md` does.
* **Cache, dataset and VM handle lifecycle, and `calculateHash`.** Each of
  these is a single library call on a handle Java owns. The code adds no
  control of its own.
* **Null dereferences before initialisation.** `SeedRandom` and `MinerCrypt`
  model them as the process dying (`alive = FALSE`). No run checks a
  property about them, because the crash is the code's plain behaviour
  there.
