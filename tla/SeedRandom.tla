----------------------------- MODULE SeedRandom -----------------------------
(***************************************************************************)
(* The deterministic random generator of dfs_jni.cc: dnet_random_sector,   *)
(* dnet_sector_to_password, dnet_generate_random_array and the two JNI      *)
(* entry points generate_random_array and generate_random_bytes that run    *)
(* it on a fixed-size stack buffer.                                         *)
(*                                                                          *)
(* The data (the sector words, the CRCs, the password text) is abstracted  *)
(* to the memory each step touches: a step adds to acc one record per       *)
(* buffer region it reads or writes.  The control is kept: the size check, *)
(* the choice between 512-byte strides and the CRC-slice path, the three   *)
(* rounds per sector with the break before the third transform, the mask  *)
(* loop, the re-password loop, the NULL g_dnet_keys dereference when        *)
(* dnet_crypt_init has not run, and the wrappers ignoring the return code. *)
(***************************************************************************)
EXTENDS Integers, FiniteSets

CONSTANTS
  DigitBytes,   \* sizeof(dfsrsa_t)
  ArraySizes,   \* jint sizes passed to generate_random_array
  BytesSizes    \* jint sizes passed to generate_random_bytes

ASSUME SeedAssumption ==
  /\ DigitBytes \in {2, 4, 8}
  /\ ArraySizes \subseteq Int /\ BytesSizes \subseteq Int

VARIABLES
  keysAlloc,  \* g_dnet_keys # 0: dnet_crypt_init has run in this process
  alive,      \* the JVM process has not crashed
  call,       \* the JNI call in progress or the last one returned
  acc         \* buffer regions touched by that call

vars == <<keysAlloc, alive, call, acc>>

(* dnet_crypt.h *)
DnetKeySize == 4096
DnetKeyLen == (DnetKeySize * 2) \div (DigitBytes * 8)
PwdLen == 64
SectorSize == 2 ^ 9
KeylenMin == DnetKeyLen \div 4

(* The indices of the C loop for (i = lo; i < hi; i += st). *)
StepsBelow(lo, hi, st) == {i \in lo..(hi - 1) : (i - lo) % st = 0}

(* The indices of the C loop for (i = lo; i <= hi; i += st). *)
StepsUpTo(lo, hi, st) == StepsBelow(lo, hi + 1, st)

Acc(b, o, n) == [buf |-> b, off |-> o, len |-> n]

(* The size of each buffer a call touches: the wrapper's stack array, the  *)
(* local sector of dnet_generate_random_array, the password of             *)
(* dnet_random_sector and the private key of g_dnet_keys.                   *)
BufSize(cap) ==
  [array |-> cap, sector |-> SectorSize, password |-> PwdLen + 1,
   priv |-> DnetKeyLen * DigitBytes]

(* size < 4 || size & (size - 1) on the 64-bit unsigned long (LP64) the  *)
(* jint becomes (a 32-bit unsigned long, as on Windows, would let the jint *)
(* -2^31 through as 2^31; that build is not modelled): a negative jint    *)
(* sign-extends to a value whose bits 32..63 are set in both               *)
(* size and size - 1, so every negative size is rejected.  For size >= 4,  *)
(* size & (size - 1) clears the lowest set bit of size: it is zero exactly *)
(* when size is a power of two, and a positive jint is at most 2^31 - 1.   *)
(* MCSeedRandom checks this against the bitwise test.                      *)
PowersOfTwo == {2 ^ k : k \in 0..30}

Rejected(size) == size < 0 \/ size < 4 \/ size \notin PowersOfTwo

(* Mutant: the segment start computed on a byte pointer, without the      *)
(* scaling of uint32_t pointer arithmetic.                                 *)
SegmentOffsetBytes(i) == ((i * SectorSize) \div 4) \div (PwdLen \div 8)

(* The byte offset in the sector of the i-th CRC segment of                *)
(* dnet_sector_to_password: uint32_t pointer arithmetic on the word index  *)
(* i * SECTOR_SIZE / 4 / (PWDLEN / 8).                                      *)
SegmentOffset(i) == 4 * (((i * SectorSize) \div 4) \div (PwdLen \div 8))

SegmentLen == SectorSize \div (PwdLen \div 8)

(* dnet_sector_to_password on the sector at (b, o): CRC of each segment,   *)
(* sprintf of 8 hex digits and a NUL at password + 8 * i.                   *)
PasswordAccesses(b, o) ==
  UNION {{Acc(b, o + SegmentOffset(i), SegmentLen), Acc("password", 8 * i, 9)} :
         i \in StepsBelow(0, PwdLen \div 8, 1)}

(* Mutant: sector[j] cleared instead of sector[j - 1]. *)
MaskWordsNoOffset == {j : j \in StepsUpTo(KeylenMin \div 8, SectorSize \div 4, KeylenMin \div 8)}

(* The word indices j - 1 whose top bit the mask loop clears. *)
MaskWords == {j - 1 : j \in StepsUpTo(KeylenMin \div 8, SectorSize \div 4, KeylenMin \div 8)}

(* dfslib_utf8_string over PWDLEN bytes of the password, dfslib_random_    *)
(* sector filling the 512 bytes at (b, o), then the mask loop.              *)
RoundHead(b, o) ==
  {Acc("password", 0, PwdLen), Acc(b, o, SectorSize)}
  \cup {Acc(b, o + 4 * w, 4) : w \in MaskWords}

(* dfsrsa_crypt of the sector in place under g_dnet_keys->priv.key. *)
CryptAccesses(b, o) ==
  {Acc(b, o, (SectorSize \div DigitBytes) * DigitBytes), Acc("priv", 0, DnetKeyLen * DigitBytes)}

(* The CRC-slice loop of dnet_generate_random_array for size < 512. *)
SliceAccesses(size) ==
  UNION {{Acc("sector", (i * 512) \div size, 512 \div size), Acc("array", i, 4)} :
         i \in StepsBelow(0, size, 4)}

(* Where dnet_random_sector writes: the caller's array at the current      *)
(* stride for size >= 512, the local sector otherwise.                      *)
Target(c) == IF c.size >= SectorSize THEN <<"array", c.stride>> ELSE <<"sector", 0>>

Idle == [fn |-> "none", cap |-> 0, size |-> 0, pc |-> "idle", stride |-> 0,
         round |-> 0, rc |-> 0, ret |-> "none"]

Init ==
  /\ keysAlloc = FALSE
  /\ alive = TRUE
  /\ call = Idle
  /\ acc = {}

(* Native.dnet_crypt_init: allocates g_dnet_keys once per process. *)
DnetCryptInit ==
  /\ alive /\ call.pc = "idle"
  /\ keysAlloc' = TRUE
  /\ UNCHANGED <<alive, call, acc>>

(* Entry of generate_random_array (uint32_t[8], 32 bytes) or              *)
(* generate_random_bytes (uint8_t[8], 8 bytes), which copy the caller's   *)
(* first 8 elements into the stack array, and the size check of           *)
(* dnet_generate_random_array.  A rejected size returns -1, which the      *)
(* wrapper ignores: it returns the copy of the caller's input.             *)
Start(fn, cap, size) ==
  /\ alive /\ call.pc = "idle"
  /\ acc' = {Acc("array", 0, cap)}
  /\ IF Rejected(size)
       THEN call' = [Idle EXCEPT !.fn = fn, !.cap = cap, !.size = size,
                                 !.rc = -1, !.ret = "input"]
       ELSE call' = [Idle EXCEPT !.fn = fn, !.cap = cap, !.size = size, !.pc = "fill"]
  /\ UNCHANGED <<keysAlloc, alive>>

GenerateRandomArray(size) == Start("array", 32, size)
GenerateRandomBytes(size) == Start("bytes", 8, size)

(* The stride loop after the third round of a sector. *)
AfterSector(c) ==
  IF c.size < SectorSize THEN [c EXCEPT !.pc = "slices"]
  ELSE IF c.stride + SectorSize < c.size
       THEN [c EXCEPT !.stride = c.stride + SectorSize, !.round = 0, !.pc = "fill"]
       ELSE [c EXCEPT !.pc = "return"]

(* Mutant: the loop breaks at i == 3, so the third round transforms too. *)
FillSectorLateBreak ==
  /\ alive /\ call.pc = "fill"
  /\ acc' = acc \cup RoundHead(Target(call)[1], Target(call)[2])
  /\ call' = IF call.round = 3 THEN AfterSector(call) ELSE [call EXCEPT !.pc = "crypt"]
  /\ UNCHANGED <<keysAlloc, alive>>

(* Head of a round of dnet_random_sector: the sector is drawn from the     *)
(* password and masked; the third round breaks here.                       *)
FillSector ==
  /\ alive /\ call.pc = "fill"
  /\ acc' = acc \cup RoundHead(Target(call)[1], Target(call)[2])
  /\ call' = IF call.round = 2 THEN AfterSector(call) ELSE [call EXCEPT !.pc = "crypt"]
  /\ UNCHANGED <<keysAlloc, alive>>

(* dfsrsa_crypt of rounds 0 and 1 under g_dnet_keys->priv.key. *)
CryptSector ==
  /\ alive /\ call.pc = "crypt" /\ keysAlloc
  /\ acc' = acc \cup CryptAccesses(Target(call)[1], Target(call)[2])
  /\ call' = [call EXCEPT !.pc = "password"]
  /\ UNCHANGED <<keysAlloc, alive>>

(* The same step before dnet_crypt_init: g_dnet_keys is NULL and reading   *)
(* g_dnet_keys->priv.key kills the process.                                *)
CryptSectorNullKeys ==
  /\ alive /\ call.pc = "crypt" /\ ~keysAlloc
  /\ alive' = FALSE
  /\ UNCHANGED <<keysAlloc, call, acc>>

(* dnet_sector_to_password, then the next round. *)
Repassword ==
  /\ alive /\ call.pc = "password"
  /\ acc' = acc \cup PasswordAccesses(Target(call)[1], Target(call)[2])
  /\ call' = [call EXCEPT !.pc = "fill", !.round = call.round + 1]
  /\ UNCHANGED <<keysAlloc, alive>>

(* The CRC-slice loop for size < 512. *)
DeriveSlices ==
  /\ alive /\ call.pc = "slices"
  /\ acc' = acc \cup SliceAccesses(call.size)
  /\ call' = [call EXCEPT !.pc = "return"]
  /\ UNCHANGED <<keysAlloc, alive>>

(* The wrapper copies its whole stack buffer into a new byte array. *)
Return ==
  /\ alive /\ call.pc = "return"
  /\ acc' = acc \cup {Acc("array", 0, call.cap)}
  /\ call' = [call EXCEPT !.pc = "idle", !.rc = 0, !.ret = "bytes"]
  /\ UNCHANGED <<keysAlloc, alive>>

(* The JVM is started again after a crash: all native globals are fresh. *)
Restart ==
  /\ ~alive
  /\ alive' = TRUE /\ keysAlloc' = FALSE /\ call' = Idle /\ acc' = {}

Next ==
  \/ DnetCryptInit
  \/ \E s \in ArraySizes : GenerateRandomArray(s)
  \/ \E s \in BytesSizes : GenerateRandomBytes(s)
  \/ FillSector \/ CryptSector \/ CryptSectorNullKeys \/ Repassword
  \/ DeriveSlices \/ Return
  \/ Restart

Spec == Init /\ [][Next]_vars

-----------------------------------------------------------------------------
Buffers == {"array", "sector", "password", "priv"}

TypeOK ==
  /\ keysAlloc \in BOOLEAN /\ alive \in BOOLEAN
  /\ call.pc \in {"idle", "fill", "crypt", "password", "slices", "return"}
  /\ call.round \in 0..2 /\ call.rc \in {0, -1}
  /\ \A a \in acc : a.buf \in Buffers /\ a.len \in Nat

(* Memory safety of a call: every region the generator and the wrapper     *)
(* read or write lies inside its buffer (the 8-element stack array of the *)
(* JNI wrapper, the local sector, the password, the private key).          *)
AccessesInBounds ==
  \A a \in acc : a.off >= 0 /\ a.off + a.len <= BufSize(call.cap)[a.buf]

(* Every round after the first draws its sector from a password that      *)
(* dnet_sector_to_password built from the whole sector written before it:  *)
(* the CRC segments read at the target (the stack sector, or the caller's  *)
(* array at the current stride) cover each of its 512 bytes exactly once.  *)
PasswordSegmentsPartition ==
  (call.pc = "fill" /\ call.round > 0) =>
    LET b == Target(call)[1]
        o == Target(call)[2]
        Segs == {a \in acc : /\ a.buf = b /\ a.len = SegmentLen
                             /\ o <= a.off /\ a.off < o + SectorSize}
    IN  \A x \in o..(o + SectorSize - 1) :
          Cardinality({a \in Segs : a.off <= x /\ x < a.off + a.len}) = 1

(* A rejected size is reported to the Java caller as a failure, not as    *)
(* random bytes (spec section 7: errors are explicit result values).       *)
FailureReported ==
  (call.pc = "idle" /\ call.rc = -1) => call.ret = "error"

=============================================================================
