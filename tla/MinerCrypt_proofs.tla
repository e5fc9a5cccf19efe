-------------------------- MODULE MinerCrypt_proofs --------------------------
(***************************************************************************)
(* Proofs about MinerCrypt: an array that dfslib_encrypt_array handed to   *)
(* Java from a call that fit in buf[512], or a prefix of it, comes back as *)
(* the plaintext from dfslib_uncrypt_array with the same sectorNo, for     *)
(* every set of arrays, nfiled and sectorNo values (overrunning calls       *)
(* among them) and every pattern of malloc failures and crashes.           *)
(***************************************************************************)
EXTENDS MinerCrypt, TLAPS

USE MinerAssumption

(* One block encrypted and then decrypted at the same sector number under *)
(* the miners state is the plaintext block again: the decryption cancels   *)
(* the layer the encryption added.                                         *)
LEMMA UncryptEncrypt ==
  ASSUME NEW p, NEW i, NEW no
  PROVE  CryptBlock("dec", no, CryptBlock("enc", no, Block(p, i))) = Block(p, i)
<1> DEFINE r == [dir |-> "enc", no |-> no]
<1>1. CryptBlock("enc", no, Block(p, i)) = [base |-> <<p, i>>, layers |-> <<r>>]
  BY DEF CryptBlock, Block
<1>2. CryptBlock("dec", no, [base |-> <<p, i>>, layers |-> <<r>>]) = Block(p, i)
  BY DEF CryptBlock, Block
<1>3. QED
  BY <1>1, <1>2

(* The record of no call yet is what the cipher loop gives for nfiled = 0. *)
LEMMA NoCallOut == NoCall.out = CryptBlocks(NoCall.dir, NoCall.n, NoCall.s, NoCall.in)
BY DEF NoCall, CryptBlocks

-----------------------------------------------------------------------------
(* The inductive invariant: every array Java keeps from a call that fit in *)
(* buf[512] is the image of its plaintext under the encrypting loop at its *)
(* sectorNo, and the last call, if it fit, returned the loop applied to    *)
(* its input.                                                              *)
StoreInv ==
  \A e \in store :
     /\ e.n \in Nat /\ e.s \in Nat
     /\ ~Overruns(e.n) => e.blob = CryptBlocks("enc", e.n, e.s, PlainArray(e.plain, e.n))

LastInv ==
  /\ last.n \in Nat /\ last.s \in Nat
  /\ ~Overruns(last.n) => last.out = CryptBlocks(last.dir, last.n, last.s, last.in)

MinerInv == StoreInv /\ LastInv

LEMMA MinerInvInit == Init => MinerInv
<1> SUFFICES ASSUME Init PROVE MinerInv
  OBVIOUS
<1>1. StoreInv
  BY DEF Init, StoreInv
<1>2. LastInv
  BY NoCallOut DEF Init, LastInv, NoCall
<1>3. QED
  BY <1>1, <1>2 DEF MinerInv

(* An array call that fits sets last to the loop applied to its input; one *)
(* that overruns sets it to a call of its own nfiled or kills the process. *)
LEMMA ArrayCallLast ==
  ASSUME LastInv, NEW dir, NEW n \in NFileds, NEW s \in SectorNos, NEW a, ArrayCall(dir, n, s, a)
  PROVE  /\ LastInv'
         /\ alive' => last'.n = n /\ last'.dir = dir /\ last'.s = s /\ last'.in = a
         /\ alive' /\ ~Overruns(n) => last'.out = CryptBlocks(dir, n, s, a)
<1> DEFINE done == [dir |-> dir, n |-> n, s |-> s, in |-> a, out |-> CryptBlocks(dir, n, s, a)]
<1>1. n \in Nat /\ s \in Nat
  OBVIOUS
<1>2. CASE ~Overruns(n) /\ last' = done /\ UNCHANGED alive
  BY <1>1, <1>2 DEF LastInv
<1>3. CASE Overruns(n) /\ UNCHANGED alive
           /\ last' \in {done, [done EXCEPT !.out = [i \in 1..n |-> Smashed]]}
  BY <1>1, <1>3 DEF LastInv
<1>4. CASE Overruns(n) /\ alive' = FALSE /\ UNCHANGED last
  BY <1>4 DEF LastInv
<1>5. QED
  BY <1>2, <1>3, <1>4 DEF ArrayCall

LEMMA MinerInvNext == MinerInv /\ [Next]_vars => MinerInv'
<1> SUFFICES ASSUME MinerInv, [Next]_vars PROVE MinerInv'
  OBVIOUS
<1>1. CASE CryptStart \/ CryptInitTest \/ ArrayCallNullCrypt \/ UNCHANGED vars
  BY <1>1 DEF CryptStart, CryptInitTest, ArrayCallNullCrypt, vars, MinerInv, StoreInv, LastInv
<1>2. CASE Restart
  BY <1>2, NoCallOut DEF Restart, MinerInv, StoreInv, LastInv, NoCall
<1>3. ASSUME NEW p \in Plains, NEW n \in NFileds, NEW s \in SectorNos, EncryptArray(p, n, s)
      PROVE  MinerInv'
  <2>1. /\ LastInv'
        /\ alive' /\ ~Overruns(n) => last'.out = CryptBlocks("enc", n, s, PlainArray(p, n))
    BY <1>3, ArrayCallLast DEF EncryptArray, MinerInv
  <2>2. n \in Nat /\ s \in Nat
    OBVIOUS
  <2>3. StoreInv'
    BY <1>3, <2>1, <2>2 DEF EncryptArray, MinerInv, StoreInv
  <2>4. QED
    BY <2>1, <2>3 DEF MinerInv
<1>4. ASSUME NEW e \in store, NEW n \in NFileds, NEW s \in SectorNos, UncryptArray(e, n, s)
      PROVE  MinerInv'
  <2>1. LastInv'
    BY <1>4, ArrayCallLast DEF UncryptArray, MinerInv
  <2>2. StoreInv'
    BY <1>4 DEF UncryptArray, MinerInv, StoreInv
  <2>3. QED
    BY <2>1, <2>2 DEF MinerInv
<1>5. QED
  BY <1>1, <1>2, <1>3, <1>4 DEF Next

(* The invariant gives the round trip: block i of the decrypted prefix is *)
(* block i of the stored array decrypted at sectorNo + i - 1, which is the *)
(* plaintext block encrypted at that same number.                          *)
LEMMA MinerInvRoundTrip == MinerInv => ArrayRoundTrip
<1> SUFFICES ASSUME MinerInv, NEW e \in store, ~Overruns(e.n),
                    last.dir = "dec", last.s = e.s, last.n <= e.n,
                    last.in = SubSeq(e.blob, 1, last.n)
             PROVE  last.out = PlainArray(e.plain, last.n)
  BY DEF ArrayRoundTrip
<1>1. e.n \in Nat /\ e.s \in Nat /\ last.n \in Nat
  BY DEF MinerInv, StoreInv, LastInv
<1>0. ~Overruns(last.n)
  BY <1>1, SMT DEF Overruns, BlockBytes, BufBytes
<1>9. /\ e.blob = CryptBlocks("enc", e.n, e.s, PlainArray(e.plain, e.n))
      /\ last.out = CryptBlocks(last.dir, last.n, last.s, last.in)
  BY <1>0 DEF MinerInv, StoreInv, LastInv
<1>2. ASSUME NEW i \in 1..last.n
      PROVE  last.out[i] = Block(e.plain, i)
  <2>1. last.in[i] = e.blob[i]
    BY <1>1, <1>2
  <2>2. e.blob[i] = CryptBlock("enc", e.s + i - 1, Block(e.plain, i))
    <3>1. i \in 1..e.n
      BY <1>1, <1>2, SMT
    <3>2. e.blob = CryptBlocks("enc", e.n, e.s, PlainArray(e.plain, e.n))
      BY <1>9
    <3>3. e.blob[i] = CryptBlock("enc", e.s + i - 1, PlainArray(e.plain, e.n)[i])
      BY <3>1, <3>2 DEF CryptBlocks
    <3>4. PlainArray(e.plain, e.n)[i] = Block(e.plain, i)
      BY <3>1 DEF PlainArray
    <3>5. QED
      BY <3>3, <3>4
  <2>3. last.out[i] = CryptBlock("dec", e.s + i - 1, last.in[i])
    BY <1>2, <1>9 DEF CryptBlocks
  <2>4. QED
    BY <2>1, <2>2, <2>3, UncryptEncrypt
<1>3. last.out = [i \in 1..last.n |-> last.out[i]]
  BY <1>9 DEF CryptBlocks
<1>4. QED
  BY <1>2, <1>3 DEF PlainArray

(* An array dfslib_encrypt_array handed to Java from a call of at most 16 *)
(* blocks, or a prefix of it, is decrypted to the plaintext by             *)
(* dfslib_uncrypt_array with the same sectorNo                             *)
(* (src/src/c/dfs/dfs_jni.cc:432-487), in every reachable state, for every *)
(* value of the constants, calls that overrun buf[512] included.           *)
THEOREM ArrayRoundTripThm == Spec => []ArrayRoundTrip
<1>1. Spec => []MinerInv
  BY MinerInvInit, MinerInvNext, PTL DEF Spec
<1>2. QED
  BY <1>1, MinerInvRoundTrip, PTL
=============================================================================
