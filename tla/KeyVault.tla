------------------------------ MODULE KeyVault ------------------------------
(***************************************************************************)
(* The process-wide key material of src/src/c/dfs/dfs_jni.cc: the dnet key *)
(* pair g_dnet_keys (four 512-byte sectors: private key in sectors 0..1,   *)
(* public key in sectors 2..3), the user cipher state g_dnet_user_crypt    *)
(* and the key-length cache g_keylen, with one action per JNI entry point  *)
(* that changes them.  Each JNI call runs to completion as one step.       *)
(*                                                                         *)
(* Data is abstracted to what the properties tell apart.  The content of a *)
(* sector is a term: a base (zero bytes, random bytes, or one part of the  *)
(* generated key pair number k) under a stack of sector-cipher layers.     *)
(* dfslib_encrypt_sector and dfslib_uncrypt_sector are bijections that     *)
(* undo each other for the same (cipher state, sector number) and obey no  *)
(* other law, so a layer cancels exactly the opposite layer on top of it.  *)
(***************************************************************************)
EXTENDS Integers, Sequences

CONSTANTS
  Passwords,    \* passwords the Java side hands in (model values)
  ZeroCrypt,    \* the all-zero dfslib_crypt that dnet_crypt_init leaves
  DNetKeyLen,   \* DNET_KEYLEN: digits per key (8192 / 32 = 256)
  MakeKeyLens,  \* keylen arguments the Java side passes to make_dnet_keys
  MaxKeys       \* bound: number of key pairs generated in one behaviour

(* dnet_make_key tiles a key of keylen digits over DNET_KEYLEN digits with *)
(* memcpy(key + i, key, keylen) for i = keylen, 2 keylen, ... < DNET_KEYLEN *)
(* (lines 87-92): a keylen that does not divide DNET_KEYLEN copies past the *)
(* key, and 0 never ends.  The model covers the keylens the loop is defined *)
(* for: divisors of the power of two DNET_KEYLEN, themselves powers of two. *)
ASSUME ConstantsAssumption ==
  /\ ZeroCrypt \notin Passwords
  /\ DNetKeyLen \in Nat /\ DNetKeyLen >= 8
  /\ DNetKeyLen \in {2^k : k \in 3..16}
  /\ MakeKeyLens \subseteq 1..DNetKeyLen
  /\ \A l \in MakeKeyLens : DNetKeyLen % l = 0
  /\ MaxKeys \in Nat

VARIABLES
  initialised,  \* dnet_crypt_init has allocated g_dnet_keys, g_dnet_user_crypt
  keys,         \* g_dnet_keys: sector number -> content
  userCrypt,    \* g_dnet_user_crypt: ZeroCrypt or the password it was set from
  keylen,       \* g_keylen, the cached result of dnet_detect_keylen
  keyLens,      \* keyLens[k]: the length key pair k was generated and tiled at
  exported,     \* key blobs returned to Java: [key, st, blob]
  lastVerify    \* arguments and result of the last verify_dnet_key call

vars == <<initialised, keys, userCrypt, keylen, keyLens, exported, lastVerify>>

-----------------------------------------------------------------------------
(* Sectors of struct dnet_keys: sizeof(struct dnet_keys) >> 9 = 4.         *)
KeySectors == 0..3
PubSectors == {2, 3}

(* ~(uint64_t)i, the sector number a key sector is wrapped at, read as a   *)
(* signed 64-bit integer: the bitwise complement of i is -1 - i.           *)
WrapNo(i) == -1 - i

CryptStates == Passwords \cup {ZeroCrypt}

ZeroBase == [kind |-> "zero", id |-> 0]
RandBase == [kind |-> "rand", id |-> 0]
KeyBase(k) == [kind |-> "key", id |-> k]
(* What a sector can hold once n key pairs have been generated.            *)
Bases(n) == {ZeroBase, RandBase} \cup {KeyBase(k) : k \in 1..n}

Layer == [dir : {"enc", "dec"}, st : CryptStates, no : {WrapNo(i) : i \in KeySectors}]
Content(n) == [base : Bases(n), layers : Seq(Layer)]

Plain(b) == [base |-> b, layers |-> <<>>]
PlainPair(k) == [i \in KeySectors |-> Plain(KeyBase(k))]

Opposite(dir) == IF dir = "enc" THEN "dec" ELSE "enc"

(* dfslib_encrypt_sector / dfslib_uncrypt_sector on one sector in place.   *)
CryptSector(dir, st, no, c) ==
  LET undo == [dir |-> Opposite(dir), st |-> st, no |-> no]
  IN  IF c.layers # <<>> /\ c.layers[Len(c.layers)] = undo
        THEN [c EXCEPT !.layers = SubSeq(c.layers, 1, Len(c.layers) - 1)]
        ELSE [c EXCEPT !.layers = Append(c.layers, [dir |-> dir, st |-> st, no |-> no])]

(* The loops that encrypt / decrypt sector i of the pair at ~i.            *)
WrapKeys(st, ks) == [i \in KeySectors |-> CryptSector("enc", st, WrapNo(i), ks[i])]
UnwrapKeys(st, ks) == [i \in KeySectors |-> CryptSector("dec", st, WrapNo(i), ks[i])]

(* dnet_test_keys: the priv-then-pub and pub-then-priv round trips succeed *)
(* only for a plaintext matched pair; anything else fails at one of the    *)
(* six checks.                                                             *)
TestKeysOK(ks) == \E k \in 1..MaxKeys : ks = PlainPair(k)
TestKeys(ks) == IF TestKeysOK(ks) THEN {0} ELSE 1..6

(* Period of the public key buffer: the length its digits repeat with.     *)
(* A generated key is tiled at its length, a zero buffer repeats every     *)
(* digit, random or encrypted bytes do not repeat.                         *)
PubPeriod(ks) ==
  IF /\ ks[2].layers = <<>> /\ ks[3].layers = <<>>
     /\ ks[2].base = ks[3].base
  THEN CASE ks[2].base.kind = "key"  -> keyLens[ks[2].base.id]
         [] ks[2].base.kind = "zero" -> 1
         [] OTHER                    -> DNetKeyLen
  ELSE DNetKeyLen

(* The halving loop of dnet_detect_keylen, on a buffer of period e and a   *)
(* power-of-two start length n: it halves while n >= 8 and the halves are  *)
(* equal (n >= 2e), so it ends at max(e, 4) or at n if n is smaller.       *)
(* This closed form is exact for the power-of-two periods that key pairs  *)
(* are tiled at (ConstantsAssumption), for 1 and for DNET_KEYLEN.          *)
DetectFresh(e, n) ==
  LET m == IF e > 4 THEN e ELSE 4
  IN  IF n <= m THEN n ELSE m

(* dnet_detect_keylen(g_dnet_keys->pub.key, n): the cache answers first.  *)
DetectKeylen(ks, n) ==
  IF keylen # 0 THEN keylen ELSE DetectFresh(PubPeriod(ks), n)

NoVerify == [blob |-> <<>>, pwd |-> ZeroCrypt, ret |-> 0]

(* Blobs the Java side can pass to verify_dnet_key: a blob it was handed   *)
(* by make_dnet_keys or general_dnet_key, or the plaintext of a generated  *)
(* pair (a key file stored unwrapped), which passes the first self-test.   *)
VerifyInputs == {e.blob : e \in exported} \cup {PlainPair(k) : k \in DOMAIN keyLens}

-----------------------------------------------------------------------------
Init ==
  /\ initialised = FALSE
  /\ keys = [i \in KeySectors |-> Plain(ZeroBase)]
  /\ userCrypt = ZeroCrypt
  /\ keylen = 0
  /\ keyLens = <<>>
  /\ exported = {}
  /\ lastVerify = NoVerify

(* dnet_crypt_init: allocate once, then zero the user cipher state and the *)
(* key pair whatever they held; g_keylen is left alone.                    *)
DnetCryptInit ==
  /\ initialised' = TRUE
  /\ keys' = [i \in KeySectors |-> Plain(ZeroBase)]
  /\ userCrypt' = ZeroCrypt
  /\ UNCHANGED <<keylen, keyLens, exported, lastVerify>>

(* set_user_dnet_crypt(pwd): derive g_dnet_user_crypt from the password.   *)
SetUserDnetCrypt(p) ==
  /\ initialised
  /\ userCrypt' = p
  /\ UNCHANGED <<initialised, keys, keylen, keyLens, exported, lastVerify>>

(* set_user_random(s): dfslib_random_fill over the public key buffer.     *)
SetUserRandom ==
  /\ initialised
  /\ keys' = [keys EXCEPT ![2] = Plain(RandBase), ![3] = Plain(RandBase)]
  /\ UNCHANGED <<initialised, userCrypt, keylen, keyLens, exported, lastVerify>>

(* Generate pair k at length len, tile it, wrap it under st, hand the      *)
(* wrapped copy to Java and unwrap the global copy again.                  *)
GenerateAndExport(len, st) ==
  LET k       == Len(keyLens) + 1
      wrapped == WrapKeys(st, PlainPair(k))
  IN  /\ Len(keyLens) < MaxKeys
      /\ keyLens' = Append(keyLens, len)
      /\ exported' = exported \cup {[key |-> k, st |-> st, blob |-> wrapped]}
      /\ keys' = UnwrapKeys(st, wrapped)

(* make_dnet_keys(keylen): wraps under whatever g_dnet_user_crypt holds    *)
(* (the pointer is non-null once dnet_crypt_init has run).                 *)
MakeDnetKeys(len) ==
  /\ initialised
  /\ GenerateAndExport(len, userCrypt)
  /\ UNCHANGED <<initialised, userCrypt, keylen, lastVerify>>

(* general_dnet_key(pwd, random): set the user password, fill the public   *)
(* buffer with random bytes, generate a full-length pair, export wrapped.  *)
GeneralDnetKey(p) ==
  /\ initialised
  /\ userCrypt' = p
  /\ GenerateAndExport(DNetKeyLen, p)
  /\ UNCHANGED <<initialised, keylen, lastVerify>>

(* verify_dnet_key(pwd, blob) when the copied blob passes dnet_test_keys   *)
(* at once: g_keylen is re-read through the cache and nothing else runs.   *)
VerifyDnetKeyPlain(p, b) ==
  /\ initialised
  /\ TestKeysOK(b)
  /\ keys' = b
  /\ keylen' = DetectKeylen(b, DNetKeyLen)
  /\ lastVerify' = [blob |-> b, pwd |-> p, ret |-> 0]
  /\ UNCHANGED <<initialised, userCrypt, keyLens, exported>>

(* Mutant: the unwrap uses the cipher state held before the call, the     *)
(* password derivation being left out.                                     *)
VerifyDnetKeyUnwrapStale(p, b) ==
  LET unwrapped == UnwrapKeys(userCrypt, b)
  IN  /\ initialised
      /\ ~TestKeysOK(b)
      /\ userCrypt' = p
      /\ keys' = unwrapped
      /\ keylen' = DetectFresh(PubPeriod(unwrapped), DNetKeyLen)
      /\ \E c \in TestKeys(unwrapped) : lastVerify' = [blob |-> b, pwd |-> p, ret |-> 0 - c]
      /\ UNCHANGED <<initialised, keyLens, exported>>

(* Mutant: the self-test code is returned without the minus sign.         *)
VerifyDnetKeyUnwrapUnsigned(p, b) ==
  LET unwrapped == UnwrapKeys(p, b)
  IN  /\ initialised
      /\ ~TestKeysOK(b)
      /\ userCrypt' = p
      /\ keys' = unwrapped
      /\ keylen' = DetectFresh(PubPeriod(unwrapped), DNetKeyLen)
      /\ \E c \in TestKeys(unwrapped) : lastVerify' = [blob |-> b, pwd |-> p, ret |-> c]
      /\ UNCHANGED <<initialised, keyLens, exported>>

(* verify_dnet_key(pwd, blob) when the first self-test fails: re-derive    *)
(* the user cipher state from pwd, unwrap the four sectors at ~i, reset    *)
(* and recompute g_keylen, and return minus the second self-test's code.   *)
VerifyDnetKeyUnwrap(p, b) ==
  LET unwrapped == UnwrapKeys(p, b)
  IN  /\ initialised
      /\ ~TestKeysOK(b)
      /\ userCrypt' = p
      /\ keys' = unwrapped
      /\ keylen' = DetectFresh(PubPeriod(unwrapped), DNetKeyLen)
      /\ \E c \in TestKeys(unwrapped) : lastVerify' = [blob |-> b, pwd |-> p, ret |-> 0 - c]
      /\ UNCHANGED <<initialised, keyLens, exported>>

Next ==
  \/ DnetCryptInit
  \/ SetUserRandom
  \/ \E p \in Passwords : SetUserDnetCrypt(p) \/ GeneralDnetKey(p)
  \/ \E len \in MakeKeyLens : MakeDnetKeys(len)
  \/ \E p \in Passwords, b \in VerifyInputs :
        VerifyDnetKeyPlain(p, b) \/ VerifyDnetKeyUnwrap(p, b)

Spec == Init /\ [][Next]_vars

-----------------------------------------------------------------------------
TypeOK ==
  /\ initialised \in BOOLEAN
  /\ keys \in [KeySectors -> Content(Len(keyLens))]
  /\ userCrypt \in CryptStates
  /\ keylen \in 0..DNetKeyLen
  /\ keyLens \in Seq(MakeKeyLens \cup {DNetKeyLen})
  /\ Len(keyLens) <= MaxKeys
  /\ \A e \in exported : e \in [key : 1..Len(keyLens), st : CryptStates,
                                 blob : [KeySectors -> Content(Len(keyLens))]]
  /\ lastVerify.blob \in {<<>>} \cup [KeySectors -> Content(Len(keyLens))]
  /\ lastVerify.pwd \in CryptStates
  /\ lastVerify.ret \in -6..0

(* Wrap/unwrap round trip across calls: a blob that make_dnet_keys or      *)
(* general_dnet_key handed out under password p, passed back later to      *)
(* verify_dnet_key with p, is accepted (return code 0), whatever calls ran  *)
(* in between.                                                             *)
VerifyRoundTrip ==
  \A e \in exported :
     (lastVerify.blob = e.blob /\ lastVerify.pwd = e.st) => lastVerify.ret = 0

(* Inductive strengthening of VerifyRoundTrip, used by its proof in       *)
(* KeyVault_proofs: every exported blob is the                             *)
(* plaintext pair wrapped at ~i under the state recorded with it, and the  *)
(* blob of the last verify names a key pair generated before.              *)
ExportInv ==
  \A e \in exported : e.blob = WrapKeys(e.st, PlainPair(e.key))

LastVerifyInv ==
  \/ lastVerify.blob = <<>>
  \/ \E j \in 1..Len(keyLens) : lastVerify.blob[0].base = KeyBase(j)

IInv == TypeOK /\ ExportInv /\ LastVerifyInv /\ VerifyRoundTrip

(* The g_keylen cache is coherent: when set, it equals what the halving   *)
(* search of dnet_detect_keylen would find in the installed public key.    *)
KeylenCacheCoherent ==
  keylen # 0 => keylen = DetectFresh(PubPeriod(keys), DNetKeyLen)

=============================================================================
