----------------------------- MODULE MinerCrypt -----------------------------
(***************************************************************************)
(* The miners cipher of dfs_jni.cc and dnet_crypt.c: crypt_start, which    *)
(* allocates g_crypt once and derives it from the fixed password           *)
(* MINERS_PWD, the JNI pair dfslib_encrypt_array / dfslib_uncrypt_array,   *)
(* which run the cipher over nfiled 32-byte blocks copied into a 512-byte  *)
(* stack buffer at sector numbers sectorNo, sectorNo + 1, ..., and         *)
(* crypt_init_test of dnet_crypt.c, which sets up the same cipher in a     *)
(* static of its own.                                                      *)
(*                                                                         *)
(* A block is a term as in KeyVault: a plaintext block under a stack of    *)
(* cipher layers, a layer cancelling the opposite one for the same sector  *)
(* number.  g_crypt only ever holds the one state MINERS_PWD derives, so a *)
(* layer names its direction and sector number.  Java keeps the arrays it  *)
(* was handed across restarts of the process.  A call with nfiled > 16    *)
(* copies past buf[512]: undefined behaviour, modelled as the outcomes a   *)
(* stack overrun has, a dead process or a wrong result.                    *)
(***************************************************************************)
EXTENDS Integers, Sequences, FiniteSets

CONSTANTS
  Plains,     \* plaintext arrays the Java side encrypts (model values)
  NFileds,    \* nfiled arguments
  SectorNos,  \* sectorNo arguments
  MaxStore,   \* bound: arrays Java keeps
  MaxInits,   \* bound: crypt_init_test calls in one process
  AllocOK     \* outcomes of malloc: {TRUE} or {TRUE, FALSE}

ASSUME MinerAssumption ==
  /\ NFileds \subseteq Nat /\ SectorNos \subseteq Nat
  /\ MaxStore \in Nat /\ MaxInits \in Nat /\ AllocOK \subseteq BOOLEAN /\ TRUE \in AllocOK

VARIABLES
  alive,         \* the JVM process is running
  gCrypt,        \* g_crypt of dfs_jni.cc: "null" or "miners"
  testBlocks,    \* blocks malloc'ed by crypt_init_test in this process
  store,         \* arrays handed to Java: [plain, n, s, blob]
  last           \* the last array call: [dir, n, s, in, out]

vars == <<alive, gCrypt, testBlocks, store, last>>

BufBytes == 512
BlockBytes == 32

Block(p, i) == [base |-> <<p, i>>, layers |-> <<>>]
(* A block of a result the overrun of buf[512] corrupted. *)
Smashed == [base |-> <<"smashed", 0>>, layers |-> <<>>]
PlainArray(p, n) == [i \in 1..n |-> Block(p, i)]

(* dfslib_encrypt_array / dfslib_uncrypt_array of one 8-word block at      *)
(* sector number no under the miners state.                                *)
CryptBlock(dir, no, c) ==
  LET other == IF dir = "enc" THEN "dec" ELSE "enc"
  IN  IF c.layers # <<>> /\ c.layers[Len(c.layers)] = [dir |-> other, no |-> no]
        THEN [c EXCEPT !.layers = SubSeq(c.layers, 1, Len(c.layers) - 1)]
        ELSE [c EXCEPT !.layers = Append(c.layers, [dir |-> dir, no |-> no])]

(* Mutant: pos is not advanced, so every round of the loop works on the  *)
(* first block.                                                            *)
CryptBlocksNoAdvance(dir, n, s, a) ==
  LET R[i \in 0..n] ==
        IF i = 0 THEN a
        ELSE [R[i - 1] EXCEPT ![1] = CryptBlock(dir, s + i - 1, R[i - 1][1])]
  IN  R[n]

(* The loop for (i = 0; i < nfiled; i++) over the buffer: block i + 1 at  *)
(* byte pos = 32 * i, sector number sectorNo++.                            *)
CryptBlocks(dir, n, s, a) ==
  [i \in 1..n |-> CryptBlock(dir, s + i - 1, a[i])]

NoCall == [dir |-> "none", n |-> 0, s |-> 0, in |-> <<>>, out |-> <<>>]

Init ==
  /\ alive = TRUE
  /\ gCrypt = "null"
  /\ testBlocks = 0
  /\ store = {}
  /\ last = NoCall

(* crypt_start: malloc g_crypt if it is null, return -1 if that failed,  *)
(* else set the password and run the sector0 loop (the derived state is  *)
(* always the same).                                                       *)
CryptStart ==
  /\ alive
  /\ \E ok \in AllocOK :
       IF gCrypt = "null"
         THEN gCrypt' = IF ok THEN "miners" ELSE "null"
         ELSE UNCHANGED gCrypt
  /\ UNCHANGED <<alive, testBlocks, store, last>>

(* crypt_init_test: a new block on every call into its own static g_crypt *)
(* (the previous block is dropped), then the same derivation.              *)
CryptInitTest ==
  /\ alive /\ testBlocks < MaxInits
  /\ \E ok \in AllocOK : testBlocks' = IF ok THEN testBlocks + 1 ELSE testBlocks
  /\ UNCHANGED <<alive, gCrypt, store, last>>

(* size = 32 * nfiled bytes do not fit in char buf[512]. *)
Overruns(n) == n * BlockBytes > BufBytes

(* The array JNI entry points on a live g_crypt.  size = 32 * nfiled bytes *)
(* of the Java array are copied into buf[512], the loop runs, and size     *)
(* bytes are returned.  Past 512 bytes the memcpy and the loop write over  *)
(* the frame: the result may still come out right, come out wrong, or the  *)
(* process dies.                                                           *)
ArrayCall(dir, n, s, a) ==
  LET done == [dir |-> dir, n |-> n, s |-> s, in |-> a, out |-> CryptBlocks(dir, n, s, a)]
  IN  /\ alive /\ gCrypt = "miners"
      /\ \/ ~Overruns(n) /\ last' = done /\ UNCHANGED alive
         \/ /\ Overruns(n) /\ UNCHANGED alive
            /\ last' \in {done, [done EXCEPT !.out = [i \in 1..n |-> Smashed]]}
         \/ Overruns(n) /\ alive' = FALSE /\ UNCHANGED last
      /\ UNCHANGED <<gCrypt, testBlocks>>

(* dfslib_encrypt_array on a plaintext array; Java keeps the result if    *)
(* the process survived the call.                                          *)
EncryptArray(p, n, s) ==
  /\ ArrayCall("enc", n, s, PlainArray(p, n))
  /\ store' = IF alive' /\ Cardinality(store) < MaxStore
                THEN store \cup {[plain |-> p, n |-> n, s |-> s, blob |-> last'.out]}
                ELSE store

(* dfslib_uncrypt_array on the first n blocks of an array Java kept. *)
UncryptArray(e, n, s) ==
  /\ n <= e.n
  /\ ArrayCall("dec", n, s, SubSeq(e.blob, 1, n))
  /\ UNCHANGED store

(* Either array call before crypt_start succeeded: dfslib_*_array         *)
(* dereferences the null g_crypt and the process dies.                     *)
ArrayCallNullCrypt ==
  /\ alive /\ gCrypt = "null"
  /\ alive' = FALSE
  /\ UNCHANGED <<gCrypt, testBlocks, store, last>>

(* The JVM is started again: native statics are fresh, Java files remain. *)
Restart ==
  /\ ~alive
  /\ alive' = TRUE /\ gCrypt' = "null" /\ testBlocks' = 0
  /\ last' = NoCall
  /\ UNCHANGED store

Next ==
  \/ CryptStart \/ CryptInitTest
  \/ \E p \in Plains, n \in NFileds, s \in SectorNos : EncryptArray(p, n, s)
  \/ \E e \in store, n \in NFileds, s \in SectorNos : UncryptArray(e, n, s)
  \/ ArrayCallNullCrypt \/ Restart

Spec == Init /\ [][Next]_vars

-----------------------------------------------------------------------------
(* An array that dfslib_encrypt_array handed to Java from a call that fit  *)
(* in buf[512], or a prefix of it, given back to dfslib_uncrypt_array with *)
(* the same sectorNo is the plaintext again: each block is undone at the   *)
(* sector number it was done at, whatever calls ran in between.            *)
ArrayRoundTrip ==
  \A e \in store :
     (/\ ~Overruns(e.n)
      /\ last.dir = "dec" /\ last.s = e.s /\ last.n <= e.n
      /\ last.in = SubSeq(e.blob, 1, last.n))
       => last.out = PlainArray(e.plain, last.n)

(* The size = 32 * nfiled bytes an array call copies fit its 512-byte     *)
(* stack buffer.                                                           *)
ArrayFitsBuffer == last.n * BlockBytes <= BufBytes

=============================================================================
