--------------------------- MODULE KeyVaultThreads ---------------------------
(***************************************************************************)
(* The key JNI entry points of dfs_jni.cc called from several Java threads.*)
(* KeyVault runs each call as one step; here make_dnet_keys,               *)
(* general_dnet_key and verify_dnet_key are split at the points where they *)
(* read or write the shared g_dnet_keys, g_dnet_user_crypt and g_keylen,   *)
(* so that the steps of two callers interleave.  The library itself has no *)
(* lock: following section 5 of the spec, the embedding application       *)
(* serialises the calls that mutate the key pair (generate, wrap, unwrap,  *)
(* load_raw), and verify_dnet_key is one of them (it loads the blob into   *)
(* g_dnet_keys and unwraps it in place), so every call below runs under    *)
(* the writer side of the caller's lock.                                   *)
(*                                                                         *)
(* The module implements KeyVault: KV is KeyVault seen through the state   *)
(* before the running call (snap) while a writer is inside a call.         *)
(***************************************************************************)
EXTENDS KeyVault

CONSTANTS
  Callers,       \* Java threads calling into the library
  NoCaller       \* no thread holds the writer side

ASSUME ThreadsAssumption == NoCaller \notin Callers

VARIABLES
  pc,       \* pc[t]: where thread t is in its JNI call
  loc,      \* loc[t]: the locals of that call
  writer,   \* the thread holding the writer side, or NoCaller
  snap      \* KeyVault state before the writer's call began

kvVars == <<initialised, keys, userCrypt, keylen, keyLens, exported, lastVerify>>
tVars == <<kvVars, pc, loc, writer, snap>>

Cur == [initialised |-> initialised, keys |-> keys, userCrypt |-> userCrypt,
        keylen |-> keylen, keyLens |-> keyLens, exported |-> exported,
        lastVerify |-> lastVerify]

NoLocals == [k |-> 0, st |-> ZeroCrypt, pwd |-> ZeroCrypt, blob |-> <<>>]

CanWrite == writer = NoCaller

(* Take the writer side for a call of t, recording the state the call     *)
(* starts from.                                                            *)
AcquireWrite(t) == CanWrite /\ writer' = t /\ snap' = Cur
Release(t) ==
  /\ writer' = NoCaller
  /\ snap' = snap

TInit ==
  /\ Init
  /\ pc = [t \in Callers |-> "idle"]
  /\ loc = [t \in Callers |-> NoLocals]
  /\ writer = NoCaller
  /\ snap = Cur

(* The calls that run as one step under the writer side. *)
AtomicCall(t) ==
  /\ pc[t] = "idle" /\ CanWrite
  /\ \/ DnetCryptInit
     \/ SetUserRandom
     \/ \E p \in Passwords : SetUserDnetCrypt(p)
  /\ UNCHANGED <<pc, loc, writer, snap>>

(* make_dnet_keys(len): dfsrsa_keygen and dnet_make_key tile a new pair k *)
(* into g_dnet_keys.                                                       *)
MakeKeygen(t, len) ==
  LET k == Len(keyLens) + 1
  IN  /\ pc[t] = "idle" /\ AcquireWrite(t)
      /\ initialised /\ Len(keyLens) < MaxKeys
      /\ keys' = PlainPair(k) /\ keyLens' = Append(keyLens, len)
      /\ loc' = [loc EXCEPT ![t] = [NoLocals EXCEPT !.k = k]]
      /\ pc' = [pc EXCEPT ![t] = "wrap"]
      /\ UNCHANGED <<initialised, userCrypt, keylen, exported, lastVerify>>

(* general_dnet_key(pwd, random): set_password of g_dnet_user_crypt. *)
GeneralSetPassword(t, p) ==
  /\ pc[t] = "idle" /\ AcquireWrite(t)
  /\ initialised /\ Len(keyLens) < MaxKeys
  /\ userCrypt' = p
  /\ pc' = [pc EXCEPT ![t] = "gen_keygen"]
  /\ UNCHANGED <<initialised, keys, keylen, keyLens, exported, lastVerify, loc>>

(* general_dnet_key: dfslib_random_fill of the public buffer, then the    *)
(* full-length keygen and tiling.                                          *)
GeneralKeygen(t) ==
  LET k == Len(keyLens) + 1
  IN  /\ pc[t] = "gen_keygen" /\ Len(keyLens) < MaxKeys
      /\ keys' = PlainPair(k) /\ keyLens' = Append(keyLens, DNetKeyLen)
      /\ loc' = [loc EXCEPT ![t] = [NoLocals EXCEPT !.k = k]]
      /\ pc' = [pc EXCEPT ![t] = "wrap"]
      /\ UNCHANGED <<initialised, userCrypt, keylen, exported, lastVerify, writer, snap>>

(* The wrap loop: encrypt the four sectors of g_dnet_keys in place under  *)
(* whatever g_dnet_user_crypt holds now.                                   *)
WrapGlobal(t) ==
  /\ pc[t] = "wrap"
  /\ keys' = WrapKeys(userCrypt, keys)
  /\ loc' = [loc EXCEPT ![t].st = userCrypt]
  /\ pc' = [pc EXCEPT ![t] = "copy"]
  /\ UNCHANGED <<initialised, userCrypt, keylen, keyLens, exported, lastVerify, writer, snap>>

(* SetByteArrayRegion: the Java array receives g_dnet_keys as it is now. *)
CopyOut(t) ==
  /\ pc[t] = "copy"
  /\ exported' = exported \cup {[key |-> loc[t].k, st |-> loc[t].st, blob |-> keys]}
  /\ pc' = [pc EXCEPT ![t] = "unwrap"]
  /\ UNCHANGED <<initialised, keys, userCrypt, keylen, keyLens, lastVerify, loc, writer, snap>>

(* The unwrap loop under the g_dnet_user_crypt of now, and the return. *)
UnwrapGlobal(t) ==
  /\ pc[t] = "unwrap"
  /\ keys' = UnwrapKeys(userCrypt, keys)
  /\ pc' = [pc EXCEPT ![t] = "idle"]
  /\ loc' = [loc EXCEPT ![t] = NoLocals]
  /\ Release(t)
  /\ UNCHANGED <<initialised, userCrypt, keylen, keyLens, exported, lastVerify>>

(* verify_dnet_key(pwd, blob): memcpy of the blob into g_dnet_keys,       *)
(* g_keylen through the cache, and the first dnet_test_keys.               *)
VerifyLoad(t, p, b) ==
  /\ pc[t] = "idle" /\ initialised
  /\ AcquireWrite(t)
  /\ keys' = b
  /\ keylen' = DetectKeylen(b, DNetKeyLen)
  /\ loc' = [loc EXCEPT ![t] = [NoLocals EXCEPT !.pwd = p, !.blob = b]]
  /\ pc' = [pc EXCEPT ![t] = IF TestKeysOK(b) THEN "vf_test" ELSE "vf_pwd"]
  /\ UNCHANGED <<initialised, userCrypt, keyLens, exported, lastVerify>>

(* The first self-test failed: set g_dnet_user_crypt from pwd. *)
VerifyPassword(t) ==
  /\ pc[t] = "vf_pwd"
  /\ userCrypt' = loc[t].pwd
  /\ pc' = [pc EXCEPT ![t] = "vf_unwrap"]
  /\ UNCHANGED <<initialised, keys, keylen, keyLens, exported, lastVerify, loc, writer, snap>>

(* Unwrap the four sectors of g_dnet_keys under g_dnet_user_crypt. *)
VerifyUnwrap(t) ==
  /\ pc[t] = "vf_unwrap"
  /\ keys' = UnwrapKeys(userCrypt, keys)
  /\ pc' = [pc EXCEPT ![t] = "vf_detect"]
  /\ UNCHANGED <<initialised, userCrypt, keylen, keyLens, exported, lastVerify, loc, writer, snap>>

(* Mutant: g_keylen is not reset before it is detected again. *)
VerifyDetectCached(t) ==
  /\ pc[t] = "vf_detect"
  /\ keylen' = DetectKeylen(keys, DNetKeyLen)
  /\ pc' = [pc EXCEPT ![t] = "vf_test"]
  /\ UNCHANGED <<initialised, keys, userCrypt, keyLens, exported, lastVerify, loc, writer, snap>>

(* g_keylen = 0, then dnet_detect_keylen of the unwrapped public key. *)
VerifyDetect(t) ==
  /\ pc[t] = "vf_detect"
  /\ keylen' = DetectFresh(PubPeriod(keys), DNetKeyLen)
  /\ pc' = [pc EXCEPT ![t] = "vf_test"]
  /\ UNCHANGED <<initialised, keys, userCrypt, keyLens, exported, lastVerify, loc, writer, snap>>

(* return -dnet_test_keys() on g_dnet_keys as it is now. *)
VerifyReturn(t) ==
  /\ pc[t] = "vf_test"
  /\ \E c \in TestKeys(keys) :
        lastVerify' = [blob |-> loc[t].blob, pwd |-> loc[t].pwd, ret |-> 0 - c]
  /\ pc' = [pc EXCEPT ![t] = "idle"]
  /\ loc' = [loc EXCEPT ![t] = NoLocals]
  /\ Release(t)
  /\ UNCHANGED <<initialised, keys, userCrypt, keylen, keyLens, exported>>

TNext ==
  \E t \in Callers :
     \/ AtomicCall(t)
     \/ \E len \in MakeKeyLens : MakeKeygen(t, len)
     \/ \E p \in Passwords : GeneralSetPassword(t, p)
     \/ GeneralKeygen(t) \/ WrapGlobal(t) \/ CopyOut(t) \/ UnwrapGlobal(t)
     \/ \E p \in Passwords, b \in VerifyInputs : VerifyLoad(t, p, b)
     \/ VerifyPassword(t) \/ VerifyUnwrap(t) \/ VerifyDetect(t) \/ VerifyReturn(t)

TSpec == TInit /\ [][TNext]_tVars

-----------------------------------------------------------------------------
(* KeyVault as the callers see it: the state before the running call while *)
(* a writer is inside one, the current state otherwise.                    *)
Abs == IF writer = NoCaller THEN Cur ELSE snap

KV == INSTANCE KeyVault WITH
        initialised <- Abs.initialised, keys <- Abs.keys, userCrypt <- Abs.userCrypt,
        keylen <- Abs.keylen, keyLens <- Abs.keyLens, exported <- Abs.exported,
        lastVerify <- Abs.lastVerify

(* Calls serialised by the lock are atomic: every behaviour of the split  *)
(* JNI calls is a behaviour of KeyVault, in which each of make_dnet_keys,  *)
(* general_dnet_key and verify_dnet_key is one step.                       *)
KeyVaultRefined == KV!Spec
=============================================================================
