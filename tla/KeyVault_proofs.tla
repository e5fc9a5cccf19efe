--------------------------- MODULE KeyVault_proofs ---------------------------
(***************************************************************************)
(* Proofs about KeyVault for every value of the constants: the type        *)
(* invariant, and the wrap/unwrap round trip across calls (a blob exported *)
(* under password p is accepted by verify_dnet_key with p).                *)
(***************************************************************************)
EXTENDS KeyVault, SequenceTheorems, TLAPS

USE ConstantsAssumption

-----------------------------------------------------------------------------
(* Lemmas on the operators the model is built from.                        *)

(* The halving search returns a length between 1 and its start length.    *)
LEMMA DetectFreshRange ==
  ASSUME NEW e \in Int, NEW n \in Nat, n >= 4
  PROVE  DetectFresh(e, n) \in 1..n
BY DEF DetectFresh

(* Every key length the model generates at is a natural number.           *)
LEMMA KeyLensNat == MakeKeyLens \cup {DNetKeyLen} \subseteq Nat
BY ConstantsAssumption

(* Sector contents stay well-formed as more key pairs are generated.       *)
LEMMA ContentMono ==
  ASSUME NEW n \in Nat
  PROVE  Content(n) \subseteq Content(n + 1)
BY DEF Content, Bases

(* Encrypting or decrypting a sector keeps it a well-formed content.       *)
LEMMA CryptSectorType ==
  ASSUME NEW n \in Nat, NEW c \in Content(n), NEW dir \in {"enc", "dec"},
         NEW st \in CryptStates, NEW i \in KeySectors
  PROVE  CryptSector(dir, st, WrapNo(i), c) \in Content(n)
<1> DEFINE L == c.layers
           new == [dir |-> dir, st |-> st, no |-> WrapNo(i)]
<1>1. L \in Seq(Layer) /\ new \in Layer
  BY DEF Content, Layer
<1>2. SubSeq(L, 1, Len(L) - 1) \in Seq(Layer)
  BY <1>1, SubSeqProperties
<1>3. Append(L, new) \in Seq(Layer)
  BY <1>1, AppendProperties
<1>4. QED
  BY <1>2, <1>3 DEF CryptSector, Content

(* Unwrapping at ~i under the state a plaintext pair was wrapped under     *)
(* gives the pair back.                                                    *)
LEMMA UnwrapWrap ==
  ASSUME NEW st, NEW k
  PROVE  UnwrapKeys(st, WrapKeys(st, PlainPair(k))) = PlainPair(k)
<1> SUFFICES ASSUME NEW i \in KeySectors
             PROVE  CryptSector("dec", st, WrapNo(i),
                       CryptSector("enc", st, WrapNo(i), Plain(KeyBase(k))))
                    = Plain(KeyBase(k))
  BY DEF UnwrapKeys, WrapKeys, PlainPair
<1> DEFINE lay == [dir |-> "enc", st |-> st, no |-> WrapNo(i)]
<1>1. CryptSector("enc", st, WrapNo(i), Plain(KeyBase(k)))
        = [base |-> KeyBase(k), layers |-> <<lay>>]
  BY DEF CryptSector, Plain
<1>2. CryptSector("dec", st, WrapNo(i), [base |-> KeyBase(k), layers |-> <<lay>>])
        = Plain(KeyBase(k))
  BY DEF CryptSector, Opposite, Plain
<1>3. QED
  BY <1>1, <1>2

(* Encrypting a plaintext sector puts exactly one layer on it.            *)
LEMMA EncryptPlain ==
  ASSUME NEW st, NEW no, NEW b
  PROVE  CryptSector("enc", st, no, Plain(b))
           = [base |-> b, layers |-> <<[dir |-> "enc", st |-> st, no |-> no]>>]
BY DEF CryptSector, Plain

(* A wrapped pair never passes the self-test as it stands.                 *)
LEMMA WrappedFailsTest ==
  ASSUME NEW st, NEW k
  PROVE  ~TestKeysOK(WrapKeys(st, PlainPair(k)))
<1> SUFFICES ASSUME NEW j \in 1..MaxKeys, WrapKeys(st, PlainPair(k)) = PlainPair(j)
             PROVE  FALSE
  BY DEF TestKeysOK
<1>1. WrapKeys(st, PlainPair(k))[0]
        = [base |-> KeyBase(k), layers |-> <<[dir |-> "enc", st |-> st, no |-> WrapNo(0)]>>]
  BY EncryptPlain DEF WrapKeys, PlainPair, KeySectors
<1>2. PlainPair(j)[0] = [base |-> KeyBase(j), layers |-> <<>>]
  BY DEF PlainPair, Plain, KeySectors
<1>3. QED
  BY <1>1, <1>2

-----------------------------------------------------------------------------
(* Type correctness.                                                       *)

LEMMA PlainPairType ==
  ASSUME NEW n \in Nat, NEW k \in 1..n
  PROVE  PlainPair(k) \in [KeySectors -> Content(n)]
BY DEF PlainPair, Plain, Content, Bases, KeyBase

LEMMA WrapType ==
  ASSUME NEW n \in Nat, NEW ks \in [KeySectors -> Content(n)], NEW st \in CryptStates
  PROVE  /\ WrapKeys(st, ks) \in [KeySectors -> Content(n)]
         /\ UnwrapKeys(st, ks) \in [KeySectors -> Content(n)]
BY CryptSectorType DEF WrapKeys, UnwrapKeys

(* The recorded key lengths are integers.                                *)
LEMMA KeyLensElem ==
  ASSUME TypeOK
  PROVE  \A j \in 1..Len(keyLens) : keyLens[j] \in Int
<1> SUFFICES ASSUME NEW j \in 1..Len(keyLens) PROVE keyLens[j] \in Int
  OBVIOUS
<1>1. keyLens[j] \in MakeKeyLens \cup {DNetKeyLen}
  BY ElementOfSeq DEF TypeOK
<1>2. keyLens[j] \in Nat
  BY <1>1, KeyLensNat, Zenon
<1>3. QED
  BY <1>2

LEMMA PubPeriodInt ==
  ASSUME TypeOK
  PROVE  PubPeriod(keys) \in Int /\ \A ks \in [KeySectors -> Content(Len(keyLens))] : PubPeriod(ks) \in Int
<1>1. ASSUME NEW ks \in [KeySectors -> Content(Len(keyLens))] PROVE PubPeriod(ks) \in Int
  <2>1. ks[2].base.kind = "key" => ks[2].base.id \in 1..Len(keyLens)
    BY DEF Content, Bases, KeyBase, ZeroBase, RandBase, KeySectors
  <2>2. \A j \in 1..Len(keyLens) : keyLens[j] \in Int
    BY KeyLensElem
  <2>3. CASE ks[2].layers = <<>> /\ ks[3].layers = <<>> /\ ks[2].base = ks[3].base
    <3>1. CASE ks[2].base.kind = "key"
      BY <2>1, <2>2, <2>3, <3>1 DEF PubPeriod
    <3>2. CASE ks[2].base.kind # "key"
      BY <2>3, <3>2 DEF PubPeriod
    <3>3. QED
      BY <3>1, <3>2
  <2>4. CASE ~(ks[2].layers = <<>> /\ ks[3].layers = <<>> /\ ks[2].base = ks[3].base)
    BY <2>4 DEF PubPeriod
  <2>5. QED
    BY <2>3, <2>4
<1>2. QED
  BY <1>1 DEF TypeOK

LEMMA TypeInit == Init => TypeOK
<1> SUFFICES ASSUME Init PROVE TypeOK
  OBVIOUS
<1>1. keyLens \in Seq(MakeKeyLens \cup {DNetKeyLen}) /\ Len(keyLens) = 0
  BY EmptySeq DEF Init
<1>2. Plain(ZeroBase) \in Content(0)
  BY EmptySeq DEF Plain, Content, Bases
<1>3. keys \in [KeySectors -> Content(Len(keyLens))]
  BY <1>1, <1>2 DEF Init
<1>4. lastVerify.blob \in {<<>>} \cup [KeySectors -> Content(Len(keyLens))]
      /\ lastVerify.pwd \in CryptStates /\ lastVerify.ret \in -6..0
  BY DEF Init, NoVerify, CryptStates
<1>5. keylen \in 0..DNetKeyLen /\ Len(keyLens) <= MaxKeys
  BY <1>1 DEF Init
<1>6. userCrypt \in CryptStates /\ initialised \in BOOLEAN
      /\ \A e \in exported : FALSE
  BY DEF Init, CryptStates
<1>7. QED
  BY <1>1, <1>3, <1>4, <1>5, <1>6, Zenon DEF TypeOK

LEMMA TypeNext == TypeOK /\ [Next]_vars => TypeOK'
<1> SUFFICES ASSUME TypeOK, [Next]_vars PROVE TypeOK'
  OBVIOUS
<1> DEFINE n == Len(keyLens)
<1>0. n \in Nat /\ n <= MaxKeys
  BY DEF TypeOK
<1>1. CASE DnetCryptInit
  BY <1>1, <1>0 DEF DnetCryptInit, TypeOK, Content, Bases, Plain, ZeroBase, CryptStates
<1>2. CASE SetUserRandom
  <2>1. Plain(RandBase) \in Content(n)
    BY <1>0 DEF Plain, Content, Bases
  <2>2. QED
    BY <1>2, <2>1 DEF SetUserRandom, TypeOK, KeySectors
<1>3. ASSUME NEW p \in Passwords, SetUserDnetCrypt(p)
      PROVE  TypeOK'
  BY <1>3 DEF SetUserDnetCrypt, TypeOK, CryptStates
<1>4. ASSUME NEW st \in CryptStates, NEW len \in MakeKeyLens \cup {DNetKeyLen},
             GenerateAndExport(len, st),
             UNCHANGED <<initialised, keylen, lastVerify>>,
             userCrypt' \in CryptStates
      PROVE  TypeOK'
  <2> DEFINE k == n + 1
             wrapped == WrapKeys(st, PlainPair(k))
  <2>1. n < MaxKeys /\ keyLens' = Append(keyLens, len)
    BY <1>4 DEF GenerateAndExport
  <2>2. keyLens' \in Seq(MakeKeyLens \cup {DNetKeyLen}) /\ Len(keyLens') = k
    BY <2>1, AppendProperties DEF TypeOK
  <2>3. PlainPair(k) \in [KeySectors -> Content(k)]
    BY <1>0, PlainPairType
  <2>4. wrapped \in [KeySectors -> Content(k)] /\ UnwrapKeys(st, wrapped) \in [KeySectors -> Content(k)]
    BY <2>3, <1>0, WrapType
  <2>5. [KeySectors -> Content(n)] \subseteq [KeySectors -> Content(k)]
    BY <1>0, ContentMono
  <2>6. exported' = exported \cup {[key |-> k, st |-> st, blob |-> wrapped]}
        /\ keys' = UnwrapKeys(st, wrapped)
    BY <1>4 DEF GenerateAndExport
  <2>7. \A e \in exported' : e \in [key : 1..k, st : CryptStates, blob : [KeySectors -> Content(k)]]
    BY <2>4, <2>5, <2>6, <1>0 DEF TypeOK
  <2>8. lastVerify'.blob \in {<<>>} \cup [KeySectors -> Content(k)]
    BY <1>4, <2>5 DEF TypeOK
  <2>9. QED
    BY <1>4, <2>1, <2>2, <2>4, <2>6, <2>7, <2>8 DEF TypeOK
<1>5. ASSUME NEW len \in MakeKeyLens, MakeDnetKeys(len)
      PROVE  TypeOK'
  BY <1>5, <1>4 DEF MakeDnetKeys, TypeOK
<1>6. ASSUME NEW p \in Passwords, GeneralDnetKey(p)
      PROVE  TypeOK'
  BY <1>6, <1>4 DEF GeneralDnetKey, CryptStates
<1>7. ASSUME NEW p \in Passwords, NEW b \in VerifyInputs
      PROVE  b \in [KeySectors -> Content(n)]
  BY <1>0, PlainPairType DEF VerifyInputs, TypeOK
<1>8. ASSUME NEW p \in Passwords, NEW b \in VerifyInputs, VerifyDnetKeyPlain(p, b)
      PROVE  TypeOK'
  <2>1. b \in [KeySectors -> Content(n)]
    BY <1>7
  <2>2. PubPeriod(b) \in Int
    BY <2>1, PubPeriodInt
  <2>3. DetectKeylen(b, DNetKeyLen) \in 0..DNetKeyLen
    BY <2>2, DetectFreshRange DEF DetectKeylen, TypeOK
  <2>4. QED
    BY <1>8, <2>1, <2>3 DEF VerifyDnetKeyPlain, TypeOK, CryptStates
<1>9. ASSUME NEW p \in Passwords, NEW b \in VerifyInputs, VerifyDnetKeyUnwrap(p, b)
      PROVE  TypeOK'
  <2>1. UnwrapKeys(p, b) \in [KeySectors -> Content(n)]
    BY <1>7, <1>0, WrapType DEF CryptStates
  <2>2. PubPeriod(UnwrapKeys(p, b)) \in Int
    BY <2>1, PubPeriodInt
  <2>3. DetectFresh(PubPeriod(UnwrapKeys(p, b)), DNetKeyLen) \in 0..DNetKeyLen
    BY <2>2, DetectFreshRange
  <2>4. \A c \in TestKeys(UnwrapKeys(p, b)) : 0 - c \in -6..0
    BY DEF TestKeys
  <2>5. QED
    BY <1>9, <1>7, <2>1, <2>3, <2>4 DEF VerifyDnetKeyUnwrap, TypeOK, CryptStates
<1>10. CASE UNCHANGED vars
  BY <1>10 DEF vars, TypeOK
<1>11. QED
  BY <1>1, <1>2, <1>3, <1>5, <1>6, <1>8, <1>9, <1>10 DEF Next

(* Type correctness of every reachable state.                             *)
THEOREM TypeCorrect == Spec => []TypeOK
BY TypeInit, TypeNext, PTL DEF Spec

-----------------------------------------------------------------------------
(* The wrap/unwrap round trip.  VerifyRoundTrip alone is not inductive: a  *)
(* later export could coincide with the blob of the last verify, and a     *)
(* verify step needs to know what an exported blob holds.  ExportInv says  *)
(* what it holds, LastVerifyInv that the last verified blob names an older *)
(* key pair than any new export.                                           *)

(* The first sector of a blob Java can pass to verify names a generated pair. *)
LEMMA VerifyInputBase ==
  ASSUME TypeOK, ExportInv, NEW b \in VerifyInputs
  PROVE  \E j \in 1..Len(keyLens) : b[0].base = KeyBase(j)
<1>1. CASE \E e \in exported : b = e.blob
  <2>1. PICK e \in exported : b = e.blob
    BY <1>1
  <2>2. e.key \in 1..Len(keyLens)
    BY DEF TypeOK
  <2>3. b[0] = CryptSector("enc", e.st, WrapNo(0), Plain(KeyBase(e.key)))
    <3>1. b = WrapKeys(e.st, PlainPair(e.key))
      BY <2>1 DEF ExportInv
    <3>2. WrapKeys(e.st, PlainPair(e.key))[0]
            = CryptSector("enc", e.st, WrapNo(0), PlainPair(e.key)[0])
      BY DEF WrapKeys, KeySectors
    <3>3. PlainPair(e.key)[0] = Plain(KeyBase(e.key))
      BY DEF PlainPair, KeySectors
    <3>4. QED
      BY <3>1, <3>2, <3>3
  <2>4. b[0].base = KeyBase(e.key)
    BY <2>3, EncryptPlain
  <2>5. QED
    BY <2>2, <2>4
<1>2. CASE \E k \in DOMAIN keyLens : b = PlainPair(k)
  <2>1. DOMAIN keyLens = 1..Len(keyLens)
    BY LenProperties DEF TypeOK
  <2>2. QED
    BY <1>2, <2>1 DEF PlainPair, Plain, KeySectors
<1>3. QED
  BY <1>1, <1>2 DEF VerifyInputs

LEMMA IInvInit == Init => IInv
<1> SUFFICES ASSUME Init PROVE IInv
  OBVIOUS
<1>1. TypeOK
  BY TypeInit
<1>2. QED
  BY <1>1 DEF Init, IInv, ExportInv, LastVerifyInv, VerifyRoundTrip, NoVerify

LEMMA IInvNext == IInv /\ [Next]_vars => IInv'
<1> SUFFICES ASSUME IInv, [Next]_vars PROVE IInv'
  OBVIOUS
<1> DEFINE n == Len(keyLens)
<1>0. TypeOK /\ ExportInv /\ LastVerifyInv /\ VerifyRoundTrip /\ TypeOK' /\ n \in Nat
  BY TypeNext DEF IInv, TypeOK
(* Steps that change none of exported, lastVerify, keyLens.               *)
<1>1. ASSUME UNCHANGED <<exported, lastVerify, keyLens>> PROVE IInv'
  BY <1>0, <1>1 DEF IInv, ExportInv, LastVerifyInv, VerifyRoundTrip
(* make_dnet_keys and general_dnet_key: one more exported blob.           *)
<1>2. ASSUME NEW st, NEW len, GenerateAndExport(len, st), UNCHANGED lastVerify
      PROVE  IInv'
  <2> DEFINE k == n + 1
             enew == [key |-> k, st |-> st, blob |-> WrapKeys(st, PlainPair(k))]
  <2>1. exported' = exported \cup {enew} /\ keyLens' = Append(keyLens, len)
    BY <1>2 DEF GenerateAndExport
  <2>2. Len(keyLens') = k
    BY <2>1, <1>0, AppendProperties DEF TypeOK
  <2>3. ExportInv'
    BY <2>1, <1>0 DEF ExportInv
  <2>4. LastVerifyInv'
    BY <1>2, <1>0, <2>2 DEF LastVerifyInv
  <2>5. enew.blob[0].base = KeyBase(k)
    BY EncryptPlain DEF WrapKeys, PlainPair, KeySectors
  <2>6. lastVerify.blob # enew.blob
    <3>1. CASE lastVerify.blob = <<>>
      BY <3>1 DEF WrapKeys, KeySectors
    <3>2. CASE \E j \in 1..n : lastVerify.blob[0].base = KeyBase(j)
      BY <3>2, <2>5, <1>0 DEF KeyBase
    <3>3. QED
      BY <3>1, <3>2, <1>0 DEF LastVerifyInv
  <2>7. VerifyRoundTrip'
    BY <1>2, <2>1, <2>6, <1>0 DEF VerifyRoundTrip
  <2>8. QED
    BY <1>0, <2>3, <2>4, <2>7 DEF IInv
(* verify_dnet_key on a blob that passes the first self-test.              *)
<1>3. ASSUME NEW p \in Passwords, NEW b \in VerifyInputs, VerifyDnetKeyPlain(p, b)
      PROVE  IInv'
  <2>1. \E j \in 1..n : b[0].base = KeyBase(j)
    BY <1>0, VerifyInputBase
  <2>2. LastVerifyInv'
    BY <1>3, <2>1 DEF VerifyDnetKeyPlain, LastVerifyInv
  <2>3. VerifyRoundTrip'
    BY <1>3 DEF VerifyDnetKeyPlain, VerifyRoundTrip
  <2>4. QED
    BY <1>0, <1>3, <2>2, <2>3 DEF VerifyDnetKeyPlain, IInv, ExportInv
(* verify_dnet_key on a blob that has to be unwrapped first.               *)
<1>4. ASSUME NEW p \in Passwords, NEW b \in VerifyInputs, VerifyDnetKeyUnwrap(p, b)
      PROVE  IInv'
  <2>1. \E j \in 1..n : b[0].base = KeyBase(j)
    BY <1>0, VerifyInputBase
  <2>2. LastVerifyInv'
    BY <1>4, <2>1 DEF VerifyDnetKeyUnwrap, LastVerifyInv
  <2>3. ASSUME NEW e \in exported, b = e.blob, p = e.st
        PROVE  lastVerify'.ret = 0
    <3>1. UnwrapKeys(p, b) = PlainPair(e.key)
      BY <2>3, <1>0, UnwrapWrap DEF ExportInv
    <3>2. e.key \in 1..MaxKeys
      BY <1>0 DEF TypeOK
    <3>3. TestKeys(UnwrapKeys(p, b)) = {0}
      BY <3>1, <3>2 DEF TestKeys, TestKeysOK
    <3>4. PICK c \in TestKeys(UnwrapKeys(p, b)) :
                 lastVerify' = [blob |-> b, pwd |-> p, ret |-> 0 - c]
      BY <1>4 DEF VerifyDnetKeyUnwrap
    <3>5. c = 0 /\ c \in Int
      BY <3>3, <3>4
    <3>6. lastVerify'.ret = 0 - c
      BY <3>4
    <3>7. 0 - c = 0
      BY <3>5
    <3>8. QED
      BY <3>6, <3>7
  <2>4. VerifyRoundTrip'
    BY <1>4, <2>3 DEF VerifyDnetKeyUnwrap, VerifyRoundTrip
  <2>5. QED
    BY <1>0, <1>4, <2>2, <2>4 DEF VerifyDnetKeyUnwrap, IInv, ExportInv
<1>5. QED
  <2>1. CASE DnetCryptInit
    BY <2>1, <1>1 DEF DnetCryptInit
  <2>2. CASE SetUserRandom
    BY <2>2, <1>1 DEF SetUserRandom
  <2>3. CASE \E p \in Passwords : SetUserDnetCrypt(p)
    BY <2>3, <1>1 DEF SetUserDnetCrypt
  <2>4. CASE \E p \in Passwords : GeneralDnetKey(p)
    BY <2>4, <1>2 DEF GeneralDnetKey
  <2>5. CASE \E len \in MakeKeyLens : MakeDnetKeys(len)
    BY <2>5, <1>2 DEF MakeDnetKeys
  <2>6. CASE UNCHANGED vars
    BY <2>6, <1>1 DEF vars
  <2>7. QED
    BY <2>1, <2>2, <2>3, <2>4, <2>5, <2>6, <1>3, <1>4 DEF Next

(* The strengthening holds in every reachable state; RoundTrip rests on   *)
(* it.                                                                     *)
LEMMA IInvThm == Spec => []IInv
BY IInvInit, IInvNext, PTL DEF Spec

(* Across any sequence of JNI calls, verify_dnet_key accepts a key blob    *)
(* that make_dnet_keys or general_dnet_key exported under a password when  *)
(* it is handed that password (src/src/c/dfs/dfs_jni.cc:331-344, 519-566).  *)
THEOREM RoundTrip == Spec => []VerifyRoundTrip
BY IInvThm, PTL DEF IInv
=============================================================================
