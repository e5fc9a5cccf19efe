----------------------- MODULE KeyVaultThreads_proofs -----------------------
(***************************************************************************)
(* Proof that the step-split key JNI calls of KeyVaultThreads, called from *)
(* any number of Java threads that take the writer side of the lock for    *)
(* every call, implement KeyVault, in which each call is one atomic step.  *)
(*                                                                         *)
(* While a thread holds the writer side, the refinement mapping shows the  *)
(* state the call started from (snap), so every step of the call but the   *)
(* last is a stutter of KeyVault, and the last one, which releases the     *)
(* lock, is the whole KeyVault action from snap to the state it leaves.    *)
(* RInv says how far the running call has got: it relates the live globals *)
(* to snap and to the call's locals at each of its steps.                  *)
(***************************************************************************)
EXTENDS KeyVaultThreads, TLAPS

Phases == {"idle", "gen_keygen", "wrap", "copy", "unwrap",
           "vf_pwd", "vf_unwrap", "vf_detect", "vf_test"}
GenPhases == {"wrap", "copy", "unwrap"}
VerPhases == {"vf_pwd", "vf_unwrap", "vf_detect", "vf_test"}

(* The call of t is make_dnet_keys(len), which wraps under the state it   *)
(* found, or general_dnet_key, which wraps under the password it set.      *)
GenCall(len) ==
  \/ len \in MakeKeyLens /\ userCrypt = snap.userCrypt
  \/ len = DNetKeyLen /\ userCrypt \in Passwords

(* general_dnet_key of t has set the password and not yet generated. *)
SetPwdInv ==
  /\ initialised /\ snap.initialised
  /\ userCrypt \in Passwords /\ Len(snap.keyLens) < MaxKeys
  /\ keys = snap.keys /\ keylen = snap.keylen /\ keyLens = snap.keyLens
  /\ exported = snap.exported /\ lastVerify = snap.lastVerify

(* make_dnet_keys or general_dnet_key of t has generated pair k = loc.k. *)
GenInv(t) ==
  LET k == loc[t].k IN
  /\ initialised /\ snap.initialised
  /\ k = Len(snap.keyLens) + 1 /\ Len(snap.keyLens) < MaxKeys
  /\ keylen = snap.keylen /\ lastVerify = snap.lastVerify
  /\ \E len \in MakeKeyLens \cup {DNetKeyLen} :
        GenCall(len) /\ keyLens = Append(snap.keyLens, len)
  /\ pc[t] = "wrap" => keys = PlainPair(k) /\ exported = snap.exported
  /\ pc[t] \in {"copy", "unwrap"} =>
        keys = WrapKeys(userCrypt, PlainPair(k)) /\ loc[t].st = userCrypt
  /\ pc[t] = "copy" => exported = snap.exported
  /\ pc[t] = "unwrap" =>
        exported = snap.exported \cup {[key |-> k, st |-> userCrypt, blob |-> keys]}

(* verify_dnet_key(p, b) of t: b is a blob Java could pass in snap, and   *)
(* the globals are where the code has taken them on the plain path or on   *)
(* the unwrap path.                                                        *)
VerInv(t) ==
  LET p == loc[t].pwd
      b == loc[t].blob
  IN  /\ initialised /\ snap.initialised
      /\ p \in Passwords
      /\ b \in {e.blob : e \in snap.exported} \cup {PlainPair(j) : j \in DOMAIN snap.keyLens}
      /\ keyLens = snap.keyLens /\ exported = snap.exported /\ lastVerify = snap.lastVerify
      /\ pc[t] \in {"vf_pwd", "vf_unwrap", "vf_detect"} => ~TestKeysOK(b)
      /\ pc[t] = "vf_pwd" => keys = b /\ userCrypt = snap.userCrypt
      /\ pc[t] = "vf_unwrap" => keys = b /\ userCrypt = p
      /\ pc[t] = "vf_detect" => keys = UnwrapKeys(p, b) /\ userCrypt = p
      /\ pc[t] = "vf_test" =>
           \/ /\ TestKeysOK(b) /\ keys = b /\ userCrypt = snap.userCrypt
              /\ keylen = IF snap.keylen # 0 THEN snap.keylen
                          ELSE DetectFresh(PubPeriod(b), DNetKeyLen)
           \/ /\ ~TestKeysOK(b) /\ keys = UnwrapKeys(p, b) /\ userCrypt = p
              /\ keylen = DetectFresh(PubPeriod(keys), DNetKeyLen)

(* The locals of a call are a record of its four fields. *)
IsLocals(r) == r = [k |-> r.k, st |-> r.st, pwd |-> r.pwd, blob |-> r.blob]

(* The lock serialises the calls: a thread is inside a call exactly when  *)
(* it holds the writer side, and the holder's call is at one of its steps. *)
RInv ==
  /\ writer \in Callers \cup {NoCaller}
  /\ pc \in [Callers -> Phases]
  /\ DOMAIN loc = Callers /\ \A t \in Callers : IsLocals(loc[t])
  /\ \A t \in Callers : (pc[t] # "idle") <=> (writer = t)
  /\ writer # NoCaller =>
       /\ pc[writer] = "gen_keygen" => SetPwdInv
       /\ pc[writer] \in GenPhases => GenInv(writer)
       /\ pc[writer] \in VerPhases => VerInv(writer)

-----------------------------------------------------------------------------
USE ThreadsAssumption

(* The mapping shows the live globals when no thread holds the writer     *)
(* side and the state before the running call when one does.             *)
LEMMA AbsFree == writer = NoCaller => Abs = Cur
BY DEF Abs

LEMMA AbsHeld == writer # NoCaller => Abs = snap
BY DEF Abs

(* The operators of KeyVault that read no variable are the same seen      *)
(* through the mapping.                                                    *)
LEMMA KVPure ==
  ASSUME NEW st, NEW ks, NEW k, NEW e, NEW n
  PROVE  /\ KV!WrapKeys(st, ks) = WrapKeys(st, ks)
         /\ KV!UnwrapKeys(st, ks) = UnwrapKeys(st, ks)
         /\ KV!PlainPair(k) = PlainPair(k)
         /\ KV!TestKeysOK(ks) = TestKeysOK(ks)
         /\ KV!TestKeys(ks) = TestKeys(ks)
         /\ KV!DetectFresh(e, n) = DetectFresh(e, n)
<1>1. KV!WrapKeys(st, ks) = WrapKeys(st, ks)
  BY DEF KV!WrapKeys, WrapKeys, KV!CryptSector, CryptSector, KV!Opposite, Opposite,
         KV!KeySectors, KeySectors, KV!WrapNo, WrapNo
<1>2. KV!UnwrapKeys(st, ks) = UnwrapKeys(st, ks)
  BY DEF KV!UnwrapKeys, UnwrapKeys, KV!CryptSector, CryptSector, KV!Opposite, Opposite,
         KV!KeySectors, KeySectors, KV!WrapNo, WrapNo
<1>3. \A j : KV!PlainPair(j) = PlainPair(j)
  BY DEF KV!PlainPair, PlainPair, KV!Plain, Plain, KV!KeyBase, KeyBase, KV!KeySectors, KeySectors
<1>4. KV!TestKeysOK(ks) = TestKeysOK(ks)
  BY <1>3 DEF KV!TestKeysOK, TestKeysOK
<1>5. KV!TestKeys(ks) = TestKeys(ks)
  BY <1>4 DEF KV!TestKeys, TestKeys
<1>6. KV!DetectFresh(e, n) = DetectFresh(e, n)
  BY DEF KV!DetectFresh, DetectFresh
<1>7. QED
  BY <1>1, <1>2, <1>3, <1>4, <1>5, <1>6

(* The plaintext pairs are the same seen through the mapping. *)
LEMMA KVPlainPair == \A j : KV!PlainPair(j) = PlainPair(j)
BY DEF KV!PlainPair, PlainPair, KV!Plain, Plain, KV!KeyBase, KeyBase, KV!KeySectors, KeySectors

(* The period of the public key depends on the key lengths recorded. *)
LEMMA KVPubPeriod ==
  ASSUME NEW ks, Abs.keyLens = keyLens
  PROVE  KV!PubPeriod(ks) = PubPeriod(ks)
BY DEF KV!PubPeriod, PubPeriod

(* Before any call, every thread is idle and the mapping is KeyVault's    *)
(* initial state.                                                          *)
LEMMA RefineInit == TInit => KV!Init
<1> SUFFICES ASSUME TInit PROVE KV!Init
  OBVIOUS
<1>1. Abs = Cur
  BY AbsFree DEF TInit
<1>2. QED
  BY <1>1 DEF TInit, Init, KV!Init, Cur, KV!Plain, Plain, KV!ZeroBase, ZeroBase,
         KV!KeySectors, KeySectors, KV!NoVerify, NoVerify

LEMMA RInvInit == TInit => RInv
BY DEF TInit, RInv, Phases, IsLocals, NoLocals

-----------------------------------------------------------------------------
(* The invariant is kept by every step.  The lock lemmas handle the part  *)
(* about who is inside a call; each step lemma the part about its phase.  *)

(* A thread inside a call holds the writer side; with the writer side    *)
(* free every thread is idle.                                              *)
LEMMA HolderIsWriter ==
  ASSUME RInv, NEW t \in Callers, pc[t] # "idle"
  PROVE  writer = t /\ writer # NoCaller
BY DEF RInv

LEMMA FreeAllIdle ==
  ASSUME RInv, writer = NoCaller
  PROVE  \A u \in Callers : pc[u] = "idle"
BY DEF RInv

(* A step of t that leaves t inside a call, holding the writer side. *)
LEMMA LockHeldNext ==
  ASSUME RInv, NEW t \in Callers, NEW ph \in Phases \ {"idle"},
         \A u \in Callers \ {t} : pc[u] = "idle",
         writer' = t, pc' = [pc EXCEPT ![t] = ph],
         DOMAIN loc' = Callers, \A u \in Callers : IsLocals(loc'[u])
  PROVE  /\ writer' \in Callers \cup {NoCaller}
         /\ pc' \in [Callers -> Phases]
         /\ DOMAIN loc' = Callers /\ \A u \in Callers : IsLocals(loc'[u])
         /\ \A u \in Callers : (pc'[u] # "idle") <=> (writer' = u)
         /\ writer' # NoCaller /\ pc'[writer'] = ph
BY DEF RInv

(* The last step of a call: t returns and releases the writer side. *)
LEMMA LockReleaseNext ==
  ASSUME RInv, NEW t \in Callers,
         \A u \in Callers \ {t} : pc[u] = "idle",
         writer' = NoCaller, pc' = [pc EXCEPT ![t] = "idle"],
         DOMAIN loc' = Callers, \A u \in Callers : IsLocals(loc'[u])
  PROVE  RInv'
BY DEF RInv, Phases

(* The calls that run as one step never see the writer side taken. *)
LEMMA InvAtomic ==
  ASSUME RInv, NEW t \in Callers, AtomicCall(t)
  PROVE  RInv'
BY DEF AtomicCall, CanWrite, RInv

(* make_dnet_keys takes the lock and generates pair Len(keyLens) + 1. *)
LEMMA InvMakeKeygen ==
  ASSUME RInv, NEW t \in Callers, NEW len \in MakeKeyLens, MakeKeygen(t, len)
  PROVE  RInv'
<1>1. writer = NoCaller /\ writer' = t /\ snap' = Cur
  BY DEF MakeKeygen, AcquireWrite, CanWrite
<1>2. \A u \in Callers \ {t} : pc[u] = "idle"
  BY <1>1, FreeAllIdle
<1>3. pc' = [pc EXCEPT ![t] = "wrap"]
      /\ DOMAIN loc' = Callers /\ \A u \in Callers : IsLocals(loc'[u])
  BY DEF MakeKeygen, RInv, IsLocals, NoLocals
<1>4. /\ writer' \in Callers \cup {NoCaller}
      /\ pc' \in [Callers -> Phases]
      /\ DOMAIN loc' = Callers /\ \A u \in Callers : IsLocals(loc'[u])
      /\ \A u \in Callers : (pc'[u] # "idle") <=> (writer' = u)
      /\ writer' # NoCaller /\ pc'[writer'] = "wrap"
  BY <1>1, <1>2, <1>3, LockHeldNext DEF Phases
<1>5. GenInv(t)'
  <2>1. loc'[t].k = Len(keyLens) + 1
    BY DEF MakeKeygen, RInv, NoLocals
  <2>2. /\ keys' = PlainPair(Len(keyLens) + 1) /\ keyLens' = Append(keyLens, len)
        /\ initialised' /\ Len(keyLens) < MaxKeys
        /\ UNCHANGED <<initialised, userCrypt, keylen, exported, lastVerify>>
    BY DEF MakeKeygen
  <2>3. QED
    BY <1>1, <1>4, <2>1, <2>2 DEF GenInv, GenCall, Cur
<1>6. QED
  BY <1>1, <1>4, <1>5 DEF RInv, GenPhases, VerPhases

(* general_dnet_key takes the lock and sets the password. *)
LEMMA InvGeneralSetPassword ==
  ASSUME RInv, NEW t \in Callers, NEW p \in Passwords, GeneralSetPassword(t, p)
  PROVE  RInv'
<1>1. writer = NoCaller /\ writer' = t /\ snap' = Cur
  BY DEF GeneralSetPassword, AcquireWrite, CanWrite
<1>2. \A u \in Callers \ {t} : pc[u] = "idle"
  BY <1>1, FreeAllIdle
<1>3. pc' = [pc EXCEPT ![t] = "gen_keygen"]
      /\ DOMAIN loc' = Callers /\ \A u \in Callers : IsLocals(loc'[u])
  BY DEF GeneralSetPassword, RInv, IsLocals, NoLocals
<1>4. /\ writer' \in Callers \cup {NoCaller}
      /\ pc' \in [Callers -> Phases]
      /\ DOMAIN loc' = Callers /\ \A u \in Callers : IsLocals(loc'[u])
      /\ \A u \in Callers : (pc'[u] # "idle") <=> (writer' = u)
      /\ writer' # NoCaller /\ pc'[writer'] = "gen_keygen"
  BY <1>1, <1>2, <1>3, LockHeldNext DEF Phases
<1>5. SetPwdInv'
  BY <1>1 DEF GeneralSetPassword, SetPwdInv, Cur
<1>6. QED
  BY <1>1, <1>4, <1>5 DEF RInv, GenPhases, VerPhases

(* Facts every step of the thread t inside a call starts from. *)
LEMMA Holder ==
  ASSUME RInv, NEW t \in Callers, pc[t] # "idle"
  PROVE  /\ writer = t /\ writer # NoCaller
         /\ \A u \in Callers \ {t} : pc[u] = "idle"
         /\ pc[t] = "gen_keygen" => SetPwdInv
         /\ pc[t] \in GenPhases => GenInv(t)
         /\ pc[t] \in VerPhases => VerInv(t)
BY DEF RInv

(* general_dnet_key generates a full-length pair. *)
LEMMA InvGeneralKeygen ==
  ASSUME RInv, NEW t \in Callers, GeneralKeygen(t)
  PROVE  RInv'
<1>1. /\ writer = t /\ writer # NoCaller /\ \A u \in Callers \ {t} : pc[u] = "idle"
      /\ SetPwdInv
  BY Holder DEF GeneralKeygen
<1>2. /\ writer' = t /\ snap' = snap /\ pc' = [pc EXCEPT ![t] = "wrap"]
      /\ DOMAIN loc' = Callers /\ \A u \in Callers : IsLocals(loc'[u])
  BY <1>1 DEF GeneralKeygen, RInv, IsLocals, NoLocals, SetPwdInv
<1>3. /\ writer' \in Callers \cup {NoCaller}
      /\ pc' \in [Callers -> Phases]
      /\ DOMAIN loc' = Callers /\ \A u \in Callers : IsLocals(loc'[u])
      /\ \A u \in Callers : (pc'[u] # "idle") <=> (writer' = u)
      /\ writer' # NoCaller /\ pc'[writer'] = "wrap"
  BY <1>1, <1>2, LockHeldNext DEF Phases
<1>4. GenInv(t)'
  <2>1. loc'[t].k = Len(snap.keyLens) + 1
    BY <1>1 DEF GeneralKeygen, RInv, NoLocals, SetPwdInv
  <2>2. /\ keys' = PlainPair(Len(snap.keyLens) + 1)
        /\ keyLens' = Append(snap.keyLens, DNetKeyLen)
        /\ UNCHANGED <<initialised, userCrypt, keylen, exported, lastVerify>>
    BY <1>1 DEF GeneralKeygen, SetPwdInv
  <2>3. GenCall(DNetKeyLen)'
    BY <1>1, <2>2 DEF GenCall, SetPwdInv
  <2>4. QED
    BY <1>1, <1>2, <1>3, <2>1, <2>2, <2>3 DEF GenInv, SetPwdInv
<1>5. QED
  BY <1>2, <1>3, <1>4 DEF RInv, GenPhases, VerPhases

(* The wrap loop under the current user state. *)
LEMMA InvWrapGlobal ==
  ASSUME RInv, NEW t \in Callers, WrapGlobal(t)
  PROVE  RInv'
<1>1. /\ writer = t /\ writer # NoCaller /\ \A u \in Callers \ {t} : pc[u] = "idle"
      /\ GenInv(t)
  BY Holder DEF WrapGlobal, GenPhases
<1>2. /\ writer' = t /\ snap' = snap /\ pc' = [pc EXCEPT ![t] = "copy"]
      /\ DOMAIN loc' = Callers /\ \A u \in Callers : IsLocals(loc'[u])
      /\ loc'[t].k = loc[t].k /\ loc'[t].st = userCrypt
  BY DEF WrapGlobal, RInv, IsLocals
<1>3. /\ writer' \in Callers \cup {NoCaller}
      /\ pc' \in [Callers -> Phases]
      /\ DOMAIN loc' = Callers /\ \A u \in Callers : IsLocals(loc'[u])
      /\ \A u \in Callers : (pc'[u] # "idle") <=> (writer' = u)
      /\ writer' # NoCaller /\ pc'[writer'] = "copy"
  BY <1>1, <1>2, LockHeldNext DEF Phases
<1>4. GenInv(t)'
  <2>1. keys = PlainPair(loc[t].k) /\ exported = snap.exported
    BY <1>1 DEF GenInv, WrapGlobal
  <2>2. /\ keys' = WrapKeys(userCrypt, PlainPair(loc[t].k))
        /\ UNCHANGED <<initialised, userCrypt, keylen, keyLens, exported, lastVerify>>
    BY <2>1 DEF WrapGlobal
  <2>3. QED
    BY <1>1, <1>2, <1>3, <2>1, <2>2 DEF GenInv, GenCall
<1>5. QED
  BY <1>2, <1>3, <1>4 DEF RInv, GenPhases, VerPhases

(* The wrapped pair is copied out to Java. *)
LEMMA InvCopyOut ==
  ASSUME RInv, NEW t \in Callers, CopyOut(t)
  PROVE  RInv'
<1>1. /\ writer = t /\ writer # NoCaller /\ \A u \in Callers \ {t} : pc[u] = "idle"
      /\ GenInv(t)
  BY Holder DEF CopyOut, GenPhases
<1>2. /\ writer' = t /\ snap' = snap /\ pc' = [pc EXCEPT ![t] = "unwrap"]
      /\ loc' = loc
  BY DEF CopyOut, RInv
<1>3. /\ writer' \in Callers \cup {NoCaller}
      /\ pc' \in [Callers -> Phases]
      /\ DOMAIN loc' = Callers /\ \A u \in Callers : IsLocals(loc'[u])
      /\ \A u \in Callers : (pc'[u] # "idle") <=> (writer' = u)
      /\ writer' # NoCaller /\ pc'[writer'] = "unwrap"
  BY <1>1, <1>2, LockHeldNext DEF Phases, RInv
<1>4. GenInv(t)'
  <2>1. keys = WrapKeys(userCrypt, PlainPair(loc[t].k)) /\ loc[t].st = userCrypt
        /\ exported = snap.exported
    BY <1>1 DEF GenInv, CopyOut
  <2>2. /\ exported' = snap.exported \cup {[key |-> loc[t].k, st |-> userCrypt, blob |-> keys]}
        /\ UNCHANGED <<initialised, keys, userCrypt, keylen, keyLens, lastVerify>>
    BY <2>1 DEF CopyOut
  <2>3. QED
    BY <1>1, <1>2, <1>3, <2>1, <2>2 DEF GenInv, GenCall
<1>5. QED
  BY <1>2, <1>3, <1>4 DEF RInv, GenPhases, VerPhases

(* The unwrap loop ends the call and frees the lock. *)
LEMMA InvUnwrapGlobal ==
  ASSUME RInv, NEW t \in Callers, UnwrapGlobal(t)
  PROVE  RInv'
<1>1. writer = t /\ \A u \in Callers \ {t} : pc[u] = "idle"
  BY Holder DEF UnwrapGlobal
<1>2. /\ writer' = NoCaller /\ pc' = [pc EXCEPT ![t] = "idle"]
      /\ DOMAIN loc' = Callers /\ \A u \in Callers : IsLocals(loc'[u])
  BY <1>1 DEF UnwrapGlobal, Release, RInv, IsLocals, NoLocals
<1>3. QED
  BY <1>1, <1>2, LockReleaseNext

(* The period of a public key buffer depends on the key lengths only. *)
LEMMA PubPeriodFrame ==
  ASSUME NEW ks, keyLens' = keyLens
  PROVE  PubPeriod(ks)' = PubPeriod(ks)
BY DEF PubPeriod

(* verify_dnet_key takes the writer side, copies the blob into the global *)
(* pair and reads g_keylen through the cache.                              *)
LEMMA InvVerifyLoad ==
  ASSUME RInv, NEW t \in Callers, NEW p \in Passwords,
         NEW b \in VerifyInputs, VerifyLoad(t, p, b)
  PROVE  RInv'
<1> DEFINE ph == IF TestKeysOK(b) THEN "vf_test" ELSE "vf_pwd"
<1>1. writer = NoCaller /\ writer' = t /\ snap' = Cur
  BY DEF VerifyLoad, AcquireWrite, CanWrite
<1>2. \A u \in Callers \ {t} : pc[u] = "idle"
  BY <1>1, FreeAllIdle
<1>3. /\ pc' = [pc EXCEPT ![t] = ph] /\ ph \in Phases \ {"idle"}
      /\ DOMAIN loc' = Callers /\ \A u \in Callers : IsLocals(loc'[u])
      /\ loc'[t].pwd = p /\ loc'[t].blob = b
  BY DEF VerifyLoad, RInv, IsLocals, NoLocals, Phases
<1>4. /\ writer' \in Callers \cup {NoCaller}
      /\ pc' \in [Callers -> Phases]
      /\ DOMAIN loc' = Callers /\ \A u \in Callers : IsLocals(loc'[u])
      /\ \A u \in Callers : (pc'[u] # "idle") <=> (writer' = u)
      /\ writer' # NoCaller /\ pc'[writer'] = ph
  BY <1>1, <1>2, <1>3, LockHeldNext
<1>5. /\ keys' = b /\ keylen' = DetectKeylen(b, DNetKeyLen)
      /\ UNCHANGED <<initialised, userCrypt, keyLens, exported, lastVerify>>
      /\ initialised
  BY DEF VerifyLoad
<1>6. VerInv(t)'
  <2>1. b \in {e.blob : e \in snap'.exported} \cup {PlainPair(j) : j \in DOMAIN snap'.keyLens}
    BY <1>1, <1>5 DEF VerifyInputs, Cur
  <2>2. PubPeriod(b)' = PubPeriod(b)
    BY <1>5, PubPeriodFrame
  <2>3. QED
    BY <1>1, <1>3, <1>4, <1>5, <2>1, <2>2 DEF VerInv, Cur, DetectKeylen
<1>7. QED
  BY <1>1, <1>4, <1>6 DEF RInv, GenPhases, VerPhases

(* The first self-test failed: the password is set. *)
LEMMA InvVerifyPassword ==
  ASSUME RInv, NEW t \in Callers, VerifyPassword(t)
  PROVE  RInv'
<1>1. /\ writer = t /\ writer # NoCaller /\ \A u \in Callers \ {t} : pc[u] = "idle"
      /\ VerInv(t)
  BY Holder DEF VerifyPassword, VerPhases
<1>2. /\ writer' = t /\ snap' = snap /\ pc' = [pc EXCEPT ![t] = "vf_unwrap"]
      /\ loc' = loc
  BY DEF VerifyPassword, RInv
<1>3. /\ writer' \in Callers \cup {NoCaller}
      /\ pc' \in [Callers -> Phases]
      /\ DOMAIN loc' = Callers /\ \A u \in Callers : IsLocals(loc'[u])
      /\ \A u \in Callers : (pc'[u] # "idle") <=> (writer' = u)
      /\ writer' # NoCaller /\ pc'[writer'] = "vf_unwrap"
  BY <1>1, <1>2, LockHeldNext DEF Phases, RInv
<1>4. VerInv(t)'
  <2>1. ~TestKeysOK(loc[t].blob) /\ keys = loc[t].blob
    BY <1>1 DEF VerInv, VerifyPassword
  <2>2. /\ userCrypt' = loc[t].pwd
        /\ UNCHANGED <<initialised, keys, keylen, keyLens, exported, lastVerify>>
    BY DEF VerifyPassword
  <2>3. QED
    BY <1>1, <1>2, <1>3, <2>1, <2>2 DEF VerInv
<1>5. QED
  BY <1>2, <1>3, <1>4 DEF RInv, GenPhases, VerPhases

(* The unwrap loop under the password just set. *)
LEMMA InvVerifyUnwrap ==
  ASSUME RInv, NEW t \in Callers, VerifyUnwrap(t)
  PROVE  RInv'
<1>1. /\ writer = t /\ writer # NoCaller /\ \A u \in Callers \ {t} : pc[u] = "idle"
      /\ VerInv(t)
  BY Holder DEF VerifyUnwrap, VerPhases
<1>2. /\ writer' = t /\ snap' = snap /\ pc' = [pc EXCEPT ![t] = "vf_detect"]
      /\ loc' = loc
  BY DEF VerifyUnwrap, RInv
<1>3. /\ writer' \in Callers \cup {NoCaller}
      /\ pc' \in [Callers -> Phases]
      /\ DOMAIN loc' = Callers /\ \A u \in Callers : IsLocals(loc'[u])
      /\ \A u \in Callers : (pc'[u] # "idle") <=> (writer' = u)
      /\ writer' # NoCaller /\ pc'[writer'] = "vf_detect"
  BY <1>1, <1>2, LockHeldNext DEF Phases, RInv
<1>4. VerInv(t)'
  <2>1. ~TestKeysOK(loc[t].blob) /\ keys = loc[t].blob /\ userCrypt = loc[t].pwd
    BY <1>1 DEF VerInv, VerifyUnwrap
  <2>2. /\ keys' = UnwrapKeys(userCrypt, keys)
        /\ UNCHANGED <<initialised, userCrypt, keylen, keyLens, exported, lastVerify>>
    BY DEF VerifyUnwrap
  <2>3. QED
    BY <1>1, <1>2, <1>3, <2>1, <2>2 DEF VerInv
<1>5. QED
  BY <1>2, <1>3, <1>4 DEF RInv, GenPhases, VerPhases

(* g_keylen is reset and detected again on the unwrapped pair. *)
LEMMA InvVerifyDetect ==
  ASSUME RInv, NEW t \in Callers, VerifyDetect(t)
  PROVE  RInv'
<1>1. /\ writer = t /\ writer # NoCaller /\ \A u \in Callers \ {t} : pc[u] = "idle"
      /\ VerInv(t)
  BY Holder DEF VerifyDetect, VerPhases
<1>2. /\ writer' = t /\ snap' = snap /\ pc' = [pc EXCEPT ![t] = "vf_test"]
      /\ loc' = loc
  BY DEF VerifyDetect, RInv
<1>3. /\ writer' \in Callers \cup {NoCaller}
      /\ pc' \in [Callers -> Phases]
      /\ DOMAIN loc' = Callers /\ \A u \in Callers : IsLocals(loc'[u])
      /\ \A u \in Callers : (pc'[u] # "idle") <=> (writer' = u)
      /\ writer' # NoCaller /\ pc'[writer'] = "vf_test"
  BY <1>1, <1>2, LockHeldNext DEF Phases, RInv
<1>4. VerInv(t)'
  <2>1. /\ ~TestKeysOK(loc[t].blob) /\ keys = UnwrapKeys(loc[t].pwd, loc[t].blob)
        /\ userCrypt = loc[t].pwd
    BY <1>1 DEF VerInv, VerifyDetect
  <2>2. /\ keylen' = DetectFresh(PubPeriod(keys), DNetKeyLen)
        /\ UNCHANGED <<initialised, keys, userCrypt, keyLens, exported, lastVerify>>
    BY DEF VerifyDetect
  <2>3. PubPeriod(keys)' = PubPeriod(keys)
    BY <2>2, PubPeriodFrame
  <2>4. QED
    BY <1>1, <1>2, <1>3, <2>1, <2>2, <2>3 DEF VerInv
<1>5. QED
  BY <1>2, <1>3, <1>4 DEF RInv, GenPhases, VerPhases

(* verify_dnet_key returns and frees the lock. *)
LEMMA InvVerifyReturn ==
  ASSUME RInv, NEW t \in Callers, VerifyReturn(t)
  PROVE  RInv'
<1>1. writer = t /\ \A u \in Callers \ {t} : pc[u] = "idle"
  BY Holder DEF VerifyReturn
<1>2. /\ writer' = NoCaller /\ pc' = [pc EXCEPT ![t] = "idle"]
      /\ DOMAIN loc' = Callers /\ \A u \in Callers : IsLocals(loc'[u])
  BY <1>1 DEF VerifyReturn, Release, RInv, IsLocals, NoLocals
<1>3. QED
  BY <1>1, <1>2, LockReleaseNext

(* Every step of the threads keeps RInv. *)
LEMMA RInvNext == RInv /\ [TNext]_tVars => RInv'
<1> SUFFICES ASSUME RInv, [TNext]_tVars PROVE RInv'
  OBVIOUS
<1>1. CASE UNCHANGED tVars
  BY <1>1 DEF tVars, kvVars, RInv, SetPwdInv, GenInv, GenCall, VerInv, IsLocals,
             PubPeriod, GenPhases, VerPhases
<1>2. ASSUME NEW t \in Callers,
             \/ AtomicCall(t)
             \/ \E len \in MakeKeyLens : MakeKeygen(t, len)
             \/ \E p \in Passwords : GeneralSetPassword(t, p)
             \/ GeneralKeygen(t) \/ WrapGlobal(t) \/ CopyOut(t) \/ UnwrapGlobal(t)
             \/ \E p \in Passwords, b \in VerifyInputs : VerifyLoad(t, p, b)
             \/ VerifyPassword(t) \/ VerifyUnwrap(t) \/ VerifyDetect(t) \/ VerifyReturn(t)
      PROVE  RInv'
  BY <1>2, InvAtomic, InvMakeKeygen, InvGeneralSetPassword, InvGeneralKeygen,
     InvWrapGlobal, InvCopyOut, InvUnwrapGlobal, InvVerifyLoad, InvVerifyPassword,
     InvVerifyUnwrap, InvVerifyDetect, InvVerifyReturn
<1>3. QED
  BY <1>1, <1>2 DEF TNext

-----------------------------------------------------------------------------
(* Every step of the threads is a step of KeyVault on the mapped state or *)
(* leaves the mapped state alone.                                          *)

(* A step that keeps the mapped state is a stutter of KeyVault. *)
LEMMA Stutter ==
  ASSUME Abs' = Abs
  PROVE  UNCHANGED KV!vars
BY DEF KV!vars

(* A call that runs as one step is the KeyVault action on the globals. *)
LEMMA StepAtomic ==
  ASSUME RInv, NEW t \in Callers, AtomicCall(t)
  PROVE  KV!Next
<1>1. writer = NoCaller /\ writer' = NoCaller
  BY DEF AtomicCall, CanWrite
<1>2. Abs = Cur /\ Abs' = Cur'
  BY <1>1 DEF Abs
<1>3. CASE DnetCryptInit
  <2>1. KV!DnetCryptInit
    BY <1>2, <1>3 DEF DnetCryptInit, KV!DnetCryptInit, Cur, KV!Plain, Plain,
           KV!ZeroBase, ZeroBase, KV!KeySectors, KeySectors
  <2>2. QED
    BY <2>1 DEF KV!Next
<1>4. CASE SetUserRandom
  <2>1. KV!SetUserRandom
    BY <1>2, <1>4 DEF SetUserRandom, KV!SetUserRandom, Cur, KV!Plain, Plain,
           KV!RandBase, RandBase
  <2>2. QED
    BY <2>1 DEF KV!Next
<1>5. CASE \E p \in Passwords : SetUserDnetCrypt(p)
  <2>1. PICK p \in Passwords : SetUserDnetCrypt(p)
    BY <1>5
  <2>2. KV!SetUserDnetCrypt(p)
    BY <1>2, <2>1 DEF SetUserDnetCrypt, KV!SetUserDnetCrypt, Cur
  <2>3. QED
    BY <2>2 DEF KV!Next
<1>6. QED
  BY <1>3, <1>4, <1>5 DEF AtomicCall

(* The unwrap step ends make_dnet_keys(len) or general_dnet_key(p): from  *)
(* snap to the state it leaves, this is the whole KeyVault call.           *)
LEMMA StepUnwrapGlobal ==
  ASSUME RInv, NEW t \in Callers, UnwrapGlobal(t)
  PROVE  KV!Next
<1>1. writer = t /\ writer # NoCaller /\ GenInv(t) /\ pc[t] = "unwrap"
  BY Holder DEF UnwrapGlobal, GenPhases
<1>2. Abs = snap /\ Abs' = Cur'
  BY <1>1 DEF UnwrapGlobal, Release, Abs
<1> DEFINE k == loc[t].k
           st == userCrypt
<1>3. /\ initialised /\ snap.initialised
      /\ k = Len(snap.keyLens) + 1 /\ Len(snap.keyLens) < MaxKeys
      /\ keylen = snap.keylen /\ lastVerify = snap.lastVerify
      /\ keys = WrapKeys(st, PlainPair(k))
      /\ exported = snap.exported \cup {[key |-> k, st |-> st, blob |-> keys]}
  BY <1>1 DEF GenInv
<1>4. /\ keys' = UnwrapKeys(st, keys)
      /\ UNCHANGED <<initialised, userCrypt, keylen, keyLens, exported, lastVerify>>
  BY DEF UnwrapGlobal
<1>5. PICK len \in MakeKeyLens \cup {DNetKeyLen} :
         GenCall(len) /\ keyLens = Append(snap.keyLens, len)
  BY <1>1 DEF GenInv
<1>6. KV!GenerateAndExport(len, st)
  <2>1. Abs.keyLens = snap.keyLens /\ Abs.exported = snap.exported
    BY <1>2
  <2>2. /\ Abs'.keyLens = Append(snap.keyLens, len)
        /\ Abs'.exported = snap.exported \cup {[key |-> k, st |-> st, blob |-> keys]}
        /\ Abs'.keys = UnwrapKeys(st, keys)
    BY <1>2, <1>3, <1>4, <1>5 DEF Cur
  <2>3. keys = KV!WrapKeys(st, KV!PlainPair(k)) /\ Abs'.keys = KV!UnwrapKeys(st, keys)
    BY <1>3, <2>2, KVPure, KVPlainPair
  <2>4. QED
    BY <1>3, <2>1, <2>2, <2>3 DEF KV!GenerateAndExport
<1>7. /\ Abs.initialised /\ Abs'.initialised = Abs.initialised
      /\ Abs'.keylen = Abs.keylen /\ Abs'.lastVerify = Abs.lastVerify
      /\ Abs'.userCrypt = st
  BY <1>2, <1>3, <1>4 DEF Cur
<1>8. CASE len \in MakeKeyLens /\ userCrypt = snap.userCrypt
  <2>1. KV!MakeDnetKeys(len)
    BY <1>2, <1>6, <1>7, <1>8 DEF KV!MakeDnetKeys
  <2>2. QED
    BY <1>8, <2>1 DEF KV!Next
<1>9. CASE len = DNetKeyLen /\ userCrypt \in Passwords
  <2>1. KV!GeneralDnetKey(st)
    BY <1>6, <1>7, <1>9 DEF KV!GeneralDnetKey
  <2>2. QED
    BY <1>9, <2>1 DEF KV!Next
<1>10. QED
  BY <1>5, <1>8, <1>9 DEF GenCall

(* The return of verify_dnet_key ends the call: from snap to the state it *)
(* leaves, this is verify_dnet_key(pwd, blob) of KeyVault, along the plain *)
(* path when the copied blob passed the first self-test, along the unwrap  *)
(* path otherwise.                                                         *)
LEMMA StepVerifyReturn ==
  ASSUME RInv, NEW t \in Callers, VerifyReturn(t)
  PROVE  KV!Next
<1>1. writer = t /\ writer # NoCaller /\ VerInv(t) /\ pc[t] = "vf_test"
  BY Holder DEF VerifyReturn, VerPhases
<1>2. Abs = snap /\ Abs' = Cur'
  BY <1>1 DEF VerifyReturn, Release, Abs
<1> DEFINE p == loc[t].pwd
           b == loc[t].blob
<1>3. /\ initialised /\ snap.initialised /\ p \in Passwords
      /\ b \in {e.blob : e \in snap.exported} \cup {PlainPair(j) : j \in DOMAIN snap.keyLens}
      /\ keyLens = snap.keyLens /\ exported = snap.exported
  BY <1>1 DEF VerInv
<1>4. b \in KV!VerifyInputs
  BY <1>2, <1>3, KVPlainPair DEF KV!VerifyInputs
<1>5. /\ Abs.initialised /\ Abs'.initialised = Abs.initialised
      /\ Abs'.keyLens = Abs.keyLens /\ Abs'.exported = Abs.exported
      /\ Abs'.keys = keys /\ Abs'.keylen = keylen /\ Abs'.userCrypt = userCrypt
      /\ Abs.userCrypt = snap.userCrypt /\ Abs.keylen = snap.keylen
      /\ Abs'.lastVerify = lastVerify'
  BY <1>2, <1>3 DEF VerifyReturn, Cur
<1>6. PICK c \in TestKeys(keys) : lastVerify' = [blob |-> b, pwd |-> p, ret |-> 0 - c]
  BY DEF VerifyReturn
<1>7. Abs.keyLens = keyLens
  BY <1>2, <1>3
<1>8. CASE TestKeysOK(b) /\ keys = b /\ userCrypt = snap.userCrypt
             /\ keylen = IF snap.keylen # 0 THEN snap.keylen
                         ELSE DetectFresh(PubPeriod(b), DNetKeyLen)
  <2>1. c = 0
    BY <1>6, <1>8 DEF TestKeys
  <2>2. keylen = KV!DetectKeylen(b, DNetKeyLen)
    BY <1>5, <1>7, <1>8, KVPubPeriod, KVPure DEF KV!DetectKeylen
  <2>3. KV!VerifyDnetKeyPlain(p, b)
    BY <1>5, <1>6, <1>8, <2>1, <2>2, KVPure DEF KV!VerifyDnetKeyPlain
  <2>4. QED
    BY <1>3, <1>4, <2>3 DEF KV!Next
<1>9. CASE ~TestKeysOK(b) /\ keys = UnwrapKeys(p, b) /\ userCrypt = p
             /\ keylen = DetectFresh(PubPeriod(keys), DNetKeyLen)
  <2>1. keylen = KV!DetectFresh(KV!PubPeriod(keys), DNetKeyLen)
    BY <1>7, <1>9, KVPubPeriod, KVPure
  <2>2. c \in KV!TestKeys(KV!UnwrapKeys(p, b))
    BY <1>6, <1>9, KVPure
  <2>3. KV!VerifyDnetKeyUnwrap(p, b)
    BY <1>5, <1>6, <1>9, <2>1, <2>2, KVPure DEF KV!VerifyDnetKeyUnwrap
  <2>4. QED
    BY <1>3, <1>4, <2>3 DEF KV!Next
<1>10. QED
  BY <1>1, <1>8, <1>9 DEF VerInv

(* Taking the lock records the state the call starts from in snap, so the *)
(* mapped state does not move.                                             *)
LEMMA AcquireStutter ==
  ASSUME NEW t \in Callers, AcquireWrite(t)
  PROVE  Abs' = Abs
<1>1. writer = NoCaller /\ writer' # NoCaller /\ snap' = Cur
  BY ThreadsAssumption DEF AcquireWrite, CanWrite
<1>2. QED
  BY <1>1 DEF Abs

(* A step inside a call leaves the lock and snap alone. *)
LEMMA MiddleStutter ==
  ASSUME RInv, NEW t \in Callers, pc[t] # "idle", writer' = writer, snap' = snap
  PROVE  Abs' = Abs
<1>1. writer # NoCaller
  BY Holder
<1>2. QED
  BY <1>1 DEF Abs

(* Every step of the threads maps to a KeyVault step or a stutter. *)
LEMMA RefineNext == RInv /\ [TNext]_tVars => [KV!Next]_KV!vars
<1> SUFFICES ASSUME RInv, [TNext]_tVars PROVE [KV!Next]_KV!vars
  OBVIOUS
<1>1. CASE UNCHANGED tVars
  <2>1. Abs' = Abs
    BY <1>1 DEF tVars, kvVars, Abs, Cur
  <2>2. QED
    BY <2>1, Stutter
<1>2. ASSUME NEW t \in Callers PROVE
        /\ AtomicCall(t) => KV!Next
        /\ UnwrapGlobal(t) => KV!Next
        /\ VerifyReturn(t) => KV!Next
        /\ (\E len \in MakeKeyLens : MakeKeygen(t, len)) => Abs' = Abs
        /\ (\E p \in Passwords : GeneralSetPassword(t, p)) => Abs' = Abs
        /\ (\E p \in Passwords, b \in VerifyInputs : VerifyLoad(t, p, b)) => Abs' = Abs
        /\ GeneralKeygen(t) \/ WrapGlobal(t) \/ CopyOut(t) \/ VerifyPassword(t)
             \/ VerifyUnwrap(t) \/ VerifyDetect(t) => Abs' = Abs
  <2>1. AtomicCall(t) => KV!Next
    BY StepAtomic
  <2>2. UnwrapGlobal(t) => KV!Next
    BY StepUnwrapGlobal
  <2>3. VerifyReturn(t) => KV!Next
    BY StepVerifyReturn
  <2>4. (\E len \in MakeKeyLens : MakeKeygen(t, len)) => Abs' = Abs
    BY AcquireStutter DEF MakeKeygen
  <2>5. (\E p \in Passwords : GeneralSetPassword(t, p)) => Abs' = Abs
    BY AcquireStutter DEF GeneralSetPassword
  <2>6. (\E p \in Passwords, b \in VerifyInputs : VerifyLoad(t, p, b)) => Abs' = Abs
    BY AcquireStutter DEF VerifyLoad
  <2>7. GeneralKeygen(t) \/ WrapGlobal(t) \/ CopyOut(t) \/ VerifyPassword(t)
          \/ VerifyUnwrap(t) \/ VerifyDetect(t) => Abs' = Abs
    BY MiddleStutter DEF GeneralKeygen, WrapGlobal, CopyOut, VerifyPassword,
                         VerifyUnwrap, VerifyDetect
  <2>8. QED
    BY <2>1, <2>2, <2>3, <2>4, <2>5, <2>6, <2>7
<1>3. QED
  BY <1>1, <1>2, Stutter DEF TNext

(* Under the caller's lock of spec section 5, held on its writer side by  *)
(* every key call, every behaviour of make_dnet_keys, general_dnet_key and *)
(* verify_dnet_key (src/src/c/dfs/dfs_jni.cc), split into their steps on   *)
(* the shared g_dnet_keys, g_dnet_user_crypt and g_keylen, from any number *)
(* of Java threads, is a behaviour of KeyVault in which each call is one   *)
(* atomic step, for every value of the constants.                          *)
THEOREM Refinement == TSpec => KeyVaultRefined
<1>1. TSpec => []RInv
  BY RInvInit, RInvNext, PTL DEF TSpec
<1>2. QED
  BY <1>1, RefineInit, RefineNext, PTL DEF TSpec, KeyVaultRefined, KV!Spec
=============================================================================
