-------------------------- MODULE SeedRandom_proofs --------------------------
(***************************************************************************)
(* Proofs about SeedRandom for every digit size and every set of sizes     *)
(* passed by Java: the type invariant, and that every round after the      *)
(* first of dnet_random_sector re-derives its password from CRC segments   *)
(* tiling the whole sector written before it.                              *)
(***************************************************************************)
EXTENDS SeedRandom, FiniteSetTheorems, TLAPS

USE SeedAssumption

Pcs == {"idle", "fill", "crypt", "password", "slices", "return"}

CallRec ==
  [fn : {"none", "array", "bytes"}, cap : {0, 8, 32}, size : Int, pc : Pcs,
   stride : Nat, round : 0..2, rc : {0, -1}, ret : {"none", "input", "bytes"}]

AccRec == [buf : Buffers, off : Int, len : Nat]

(* The strengthening of TypeOK: the call is a record of its fields, a      *)
(* round that goes on to dfsrsa_crypt is one of the first two, and a call *)
(* past the size check has a size of at least 4 and the buffer of one of  *)
(* the two wrappers.                                                       *)
TInv ==
  /\ keysAlloc \in BOOLEAN /\ alive \in BOOLEAN
  /\ call \in CallRec
  /\ acc \subseteq AccRec
  /\ call.pc \in {"crypt", "password"} => call.round \in 0..1
  /\ call.pc # "idle" => call.size >= 4 /\ call.cap \in {8, 32}

-----------------------------------------------------------------------------
(* Lemmas on the constants and operators of the model.                    *)

(* The private key is 1024 bytes and dfsrsa_crypt of a sector covers the  *)
(* 512 bytes, whatever the digit size.                                     *)
LEMMA DigitFacts ==
  /\ DnetKeyLen * DigitBytes = 1024
  /\ (SectorSize \div DigitBytes) * DigitBytes = 512
  /\ KeylenMin \div 8 \in {4, 8, 16}
  /\ SectorSize = 512 /\ PwdLen = 64 /\ SegmentLen = 64
BY DEF DnetKeyLen, DnetKeySize, SectorSize, KeylenMin, PwdLen, SegmentLen

LEMMA IdleRec == Idle \in CallRec
BY DEF Idle, CallRec, Pcs

(* The regions of one step of the generator are regions of a buffer.      *)
LEMMA TargetRec ==
  ASSUME NEW c \in CallRec
  PROVE  Target(c)[1] \in {"array", "sector"} /\ Target(c)[2] \in Nat
BY DEF Target, CallRec

LEMMA RoundHeadRec ==
  ASSUME NEW b \in {"array", "sector"}, NEW o \in Int
  PROVE  RoundHead(b, o) \subseteq AccRec
BY DigitFacts DEF RoundHead, Acc, AccRec, Buffers, MaskWords, StepsUpTo, StepsBelow

LEMMA CryptAccessesRec ==
  ASSUME NEW b \in {"array", "sector"}, NEW o \in Int
  PROVE  CryptAccesses(b, o) \subseteq AccRec
BY DigitFacts DEF CryptAccesses, Acc, AccRec, Buffers

LEMMA PasswordAccessesRec ==
  ASSUME NEW b \in {"array", "sector"}, NEW o \in Int
  PROVE  PasswordAccesses(b, o) \subseteq AccRec
BY DigitFacts DEF PasswordAccesses, Acc, AccRec, Buffers, SegmentOffset, StepsBelow

LEMMA SliceAccessesRec ==
  ASSUME NEW size \in Int, size >= 4
  PROVE  SliceAccesses(size) \subseteq AccRec
BY DEF SliceAccesses, Acc, AccRec, Buffers, StepsBelow

-----------------------------------------------------------------------------
LEMMA TInvInit == Init => TInv
<1> SUFFICES ASSUME Init PROVE TInv
  OBVIOUS
<1>1. call \in CallRec
  BY IdleRec DEF Init
<1>2. call.pc = "idle" /\ acc = {}
  BY DEF Init, Idle
<1>3. QED
  BY <1>1, <1>2 DEF Init, TInv

(* The entry of either wrapper and the size check. *)
LEMMA TInvStart ==
  ASSUME TInv, NEW fn \in {"array", "bytes"}, NEW cap \in {8, 32}, NEW size \in Int,
         Start(fn, cap, size)
  PROVE  TInv'
<1>1. acc' \subseteq AccRec
  BY DEF Start, Acc, AccRec, Buffers
<1>2. CASE Rejected(size)
  <2> DEFINE d == [Idle EXCEPT !.fn = fn, !.cap = cap, !.size = size, !.rc = -1, !.ret = "input"]
  <2>1. call' = d
    BY <1>2 DEF Start
  <2>2. /\ d.fn \in {"none", "array", "bytes"} /\ d.cap \in {0, 8, 32} /\ d.size \in Int
        /\ d.pc = "idle" /\ d.stride \in Nat /\ d.round \in 0..2 /\ d.rc \in {0, -1}
        /\ d.ret \in {"none", "input", "bytes"}
    BY DEF Idle
  <2>3. d \in CallRec
    BY <2>2, IdleRec DEF CallRec, Pcs
  <2>4. QED
    BY <1>1, <2>1, <2>2, <2>3 DEF Start, TInv
<1>3. CASE ~Rejected(size)
  <2> DEFINE d == [Idle EXCEPT !.fn = fn, !.cap = cap, !.size = size, !.pc = "fill"]
  <2>1. call' = d
    BY <1>3 DEF Start
  <2>2. size >= 4
    BY <1>3 DEF Rejected
  <2>3. /\ d.fn \in {"none", "array", "bytes"} /\ d.cap \in {8, 32} /\ d.size = size
        /\ d.pc = "fill" /\ d.stride \in Nat /\ d.round \in 0..2 /\ d.rc \in {0, -1}
        /\ d.ret \in {"none", "input", "bytes"}
    BY DEF Idle
  <2>4. d \in CallRec
    BY <2>3, IdleRec DEF CallRec, Pcs
  <2>5. QED
    BY <1>1, <2>1, <2>2, <2>3, <2>4 DEF Start, TInv
<1>4. QED
  BY <1>2, <1>3

(* The loop over the sectors: the next stride, the slices or the return. *)
LEMMA AfterSectorRec ==
  ASSUME NEW c \in CallRec, c.round = 2, c.size >= 4, c.cap \in {8, 32}
  PROVE  LET d == AfterSector(c)
         IN  /\ d \in CallRec /\ d.pc \in {"fill", "slices", "return"}
             /\ d.size = c.size /\ d.cap = c.cap
<1>1. CASE c.size < SectorSize
  BY <1>1 DEF AfterSector, CallRec, Pcs
<1>2. CASE ~(c.size < SectorSize) /\ c.stride + SectorSize < c.size
  <2> PICK d : d = [c EXCEPT !.stride = c.stride + SectorSize, !.round = 0, !.pc = "fill"]
    OBVIOUS
  <2>1. AfterSector(c) = d
    BY <1>2 DEF AfterSector
  <2>2. /\ d.fn = c.fn /\ d.cap = c.cap /\ d.size = c.size /\ d.pc = "fill"
        /\ d.stride = c.stride + SectorSize /\ d.round = 0 /\ d.rc = c.rc /\ d.ret = c.ret
    BY DEF CallRec
  <2>3. /\ d.fn \in {"none", "array", "bytes"} /\ d.cap \in {0, 8, 32} /\ d.size \in Int
        /\ d.pc \in Pcs /\ d.stride \in Nat /\ d.round \in 0..2 /\ d.rc \in {0, -1}
        /\ d.ret \in {"none", "input", "bytes"}
    BY <2>2, DigitFacts DEF CallRec, Pcs
  <2>4. d \in CallRec
    <3>1. DOMAIN d = {"fn", "cap", "size", "pc", "stride", "round", "rc", "ret"}
      BY DEF CallRec
    <3>2. QED
      BY <2>3, <3>1 DEF CallRec
  <2>5. QED
    BY <2>1, <2>2, <2>4
<1>3. CASE ~(c.size < SectorSize) /\ ~(c.stride + SectorSize < c.size)
  BY <1>3 DEF AfterSector, CallRec, Pcs
<1>4. QED
  BY <1>1, <1>2, <1>3

(* The head of a round, and the end of a sector. *)
LEMMA TInvFill ==
  ASSUME TInv, FillSector
  PROVE  TInv'
<1>1. acc' \subseteq AccRec
  BY TargetRec, RoundHeadRec DEF FillSector, TInv
<1>2. call.pc = "fill" /\ call.size >= 4 /\ call.cap \in {8, 32} /\ call \in CallRec
  BY DEF FillSector, TInv
<1>3. CASE call.round = 2
  <2>1. call' = AfterSector(call)
    BY <1>3 DEF FillSector
  <2>2. call' \in CallRec /\ call'.pc \in {"fill", "slices", "return"}
        /\ call'.size = call.size /\ call'.cap = call.cap
    BY <1>2, <1>3, <2>1, AfterSectorRec
  <2>3. QED
    BY <1>1, <1>2, <2>2 DEF FillSector, TInv
<1>4. CASE call.round # 2
  <2>1. call' = [call EXCEPT !.pc = "crypt"]
    BY <1>4 DEF FillSector
  <2>2. call' \in CallRec /\ call'.pc = "crypt" /\ call'.round \in 0..1
        /\ call'.size = call.size /\ call'.cap = call.cap
    BY <1>2, <1>4, <2>1 DEF CallRec, Pcs
  <2>3. QED
    BY <1>1, <1>2, <2>2 DEF FillSector, TInv
<1>5. QED
  BY <1>3, <1>4

LEMMA TInvCrypt ==
  ASSUME TInv, CryptSector
  PROVE  TInv'
<1>1. acc' \subseteq AccRec
  BY TargetRec, CryptAccessesRec DEF CryptSector, TInv
<1>2. call' \in CallRec /\ call'.pc = "password" /\ call'.round = call.round
      /\ call'.size = call.size /\ call'.cap = call.cap
  BY DEF CryptSector, TInv, CallRec, Pcs
<1>3. QED
  BY <1>1, <1>2 DEF CryptSector, TInv

LEMMA TInvRepassword ==
  ASSUME TInv, Repassword
  PROVE  TInv'
<1>1. acc' \subseteq AccRec
  BY TargetRec, PasswordAccessesRec DEF Repassword, TInv
<1>2. call \in CallRec /\ call.pc = "password" /\ call.round \in 0..1
  BY DEF Repassword, TInv
<1> PICK d : d = [call EXCEPT !.pc = "fill", !.round = call.round + 1]
  OBVIOUS
<1>3. call' = d
  BY DEF Repassword
<1>4. /\ d.fn = call.fn /\ d.cap = call.cap /\ d.size = call.size /\ d.pc = "fill"
      /\ d.stride = call.stride /\ d.round = call.round + 1 /\ d.rc = call.rc /\ d.ret = call.ret
  BY <1>2 DEF CallRec
<1>5. d \in CallRec
  <2>1. /\ d.fn \in {"none", "array", "bytes"} /\ d.cap \in {0, 8, 32} /\ d.size \in Int
        /\ d.pc \in Pcs /\ d.stride \in Nat /\ d.round \in 0..2 /\ d.rc \in {0, -1}
        /\ d.ret \in {"none", "input", "bytes"}
    BY <1>2, <1>4 DEF CallRec, Pcs
  <2>2. DOMAIN d = {"fn", "cap", "size", "pc", "stride", "round", "rc", "ret"}
    BY <1>2 DEF CallRec
  <2>3. QED
    BY <2>1, <2>2 DEF CallRec
<1>6. QED
  BY <1>1, <1>3, <1>4, <1>5 DEF Repassword, TInv

LEMMA TInvSlices ==
  ASSUME TInv, DeriveSlices
  PROVE  TInv'
<1>1. call.size \in Int /\ call.size >= 4
  BY DEF DeriveSlices, TInv, CallRec
<1>2. acc' \subseteq AccRec
  BY <1>1, SliceAccessesRec DEF DeriveSlices, TInv
<1>3. call' \in CallRec /\ call'.pc = "return"
      /\ call'.size = call.size /\ call'.cap = call.cap
  BY DEF DeriveSlices, TInv, CallRec, Pcs
<1>4. QED
  BY <1>2, <1>3 DEF DeriveSlices, TInv

LEMMA TInvReturn ==
  ASSUME TInv, Return
  PROVE  TInv'
<1>1. acc' \subseteq AccRec
  BY DEF Return, TInv, Acc, AccRec, Buffers, CallRec
<1>2. call' \in CallRec /\ call'.pc = "idle"
  BY DEF Return, TInv, CallRec, Pcs
<1>3. QED
  BY <1>1, <1>2 DEF Return, TInv

LEMMA TInvNext == TInv /\ [Next]_vars => TInv'
<1> SUFFICES ASSUME TInv, [Next]_vars PROVE TInv'
  OBVIOUS
<1>1. CASE DnetCryptInit \/ CryptSectorNullKeys \/ UNCHANGED vars
  BY <1>1 DEF DnetCryptInit, CryptSectorNullKeys, vars, TInv
<1>2. CASE Restart
  BY <1>2, IdleRec DEF Restart, TInv, Idle
<1>3. ASSUME NEW s \in ArraySizes, GenerateRandomArray(s) PROVE TInv'
  BY <1>3, TInvStart DEF GenerateRandomArray
<1>4. ASSUME NEW s \in BytesSizes, GenerateRandomBytes(s) PROVE TInv'
  BY <1>4, TInvStart DEF GenerateRandomBytes
<1>5. QED
  BY <1>1, <1>2, <1>3, <1>4, TInvFill, TInvCrypt, TInvRepassword, TInvSlices,
     TInvReturn DEF Next

(* Every reachable state of the generator satisfies TypeOK: a call is at   *)
(* one of its steps, a round that reaches dfsrsa_crypt is one of the first *)
(* two of dnet_random_sector (the third breaks before it), a rejected size *)
(* returns -1, and every region touched is in one of the four buffers.     *)
THEOREM TypeCorrect == Spec => []TypeOK
<1>1. TInv => TypeOK
  BY DEF TInv, TypeOK, CallRec, AccRec, Pcs
<1>2. QED
  BY <1>1, TInvInit, TInvNext, PTL DEF Spec
-----------------------------------------------------------------------------
(* The password of every round after the first is built from the CRC of   *)
(* segments that tile the sector the previous round wrote.                *)

(* The buffer and offset of the sector the running call writes. *)
TBuf == Target(call)[1]
TOff == Target(call)[2]

(* While a sector is being drawn, the segments of SegmentLen bytes read at *)
(* or past its start are the ones dnet_sector_to_password reads for it,    *)
(* and once a round has re-derived the password, all of them were read.   *)
SegInv ==
  call.pc \in {"fill", "crypt", "password"} =>
    /\ \A a \in acc : (a.buf = TBuf /\ a.len = SegmentLen /\ a.off >= TOff) =>
                        \E i \in 0..7 : a.off = TOff + 64 * i
    /\ call.round > 0 => PasswordAccesses(TBuf, TOff) \subseteq acc

(* The i-th CRC segment starts 64 * i bytes into the sector. *)
LEMMA SegmentOffsetVal ==
  ASSUME NEW i \in Nat
  PROVE  SegmentOffset(i) = 64 * i
BY DigitFacts DEF SegmentOffset

(* dnet_sector_to_password reads the eight segments of the sector and     *)
(* writes the password.                                                    *)
LEMMA PasswordAccessesShape ==
  ASSUME NEW b, NEW o \in Int
  PROVE  /\ \A a \in PasswordAccesses(b, o) :
               a.buf = "password" \/ \E i \in 0..7 : a = Acc(b, o + 64 * i, 64)
         /\ \A i \in 0..7 : Acc(b, o + 64 * i, 64) \in PasswordAccesses(b, o)
<1>1. StepsBelow(0, PwdLen \div 8, 1) = 0..7
  BY DigitFacts DEF StepsBelow
<1>2. \A i \in 0..7 : SegmentOffset(i) = 64 * i
  BY SegmentOffsetVal
<1>3. ASSUME NEW a \in PasswordAccesses(b, o)
      PROVE  a.buf = "password" \/ \E i \in 0..7 : a = Acc(b, o + 64 * i, 64)
  <2>1. PICK i \in 0..7 : a \in {Acc(b, o + SegmentOffset(i), SegmentLen), Acc("password", 8 * i, 9)}
    BY <1>1 DEF PasswordAccesses
  <2>2. QED
    BY <2>1, <1>2, DigitFacts DEF Acc
<1>4. ASSUME NEW i \in 0..7
      PROVE  Acc(b, o + 64 * i, 64) \in PasswordAccesses(b, o)
  <2>1. Acc(b, o + 64 * i, 64) = Acc(b, o + SegmentOffset(i), SegmentLen)
    BY <1>2, DigitFacts
  <2>2. QED
    BY <2>1, <1>1 DEF PasswordAccesses
<1>5. QED
  BY <1>3, <1>4

(* The other regions of a round are not segments of the sector. *)
LEMMA RoundHeadNoSegment ==
  ASSUME NEW b \in {"array", "sector"}, NEW o, NEW a \in RoundHead(b, o)
  PROVE  a.buf = "password" \/ a.len # SegmentLen
BY DigitFacts DEF RoundHead, Acc

LEMMA CryptNoSegment ==
  ASSUME NEW b \in {"array", "sector"}, NEW o, NEW a \in CryptAccesses(b, o)
  PROVE  a.buf = "priv" \/ a.len # SegmentLen
BY DigitFacts DEF CryptAccesses, Acc

LEMMA SegInvInit == Init => SegInv
BY DEF Init, SegInv, Idle

LEMMA SegInvStart ==
  ASSUME TInv, NEW fn, NEW cap \in {8, 32}, NEW size, Start(fn, cap, size)
  PROVE  SegInv'
<1>1. acc' = {Acc("array", 0, cap)} /\ call'.round = 0
  BY DEF Start, Idle
<1>2. \A a \in acc' : a.len # SegmentLen
  BY <1>1, DigitFacts DEF Acc
<1>3. QED
  BY <1>1, <1>2 DEF SegInv

LEMMA SegInvFill ==
  ASSUME TInv, SegInv, FillSector
  PROVE  SegInv'
<1>1. call \in CallRec /\ call.pc = "fill" /\ call.size >= 4
  BY DEF FillSector, TInv
<1>2. TBuf \in {"array", "sector"} /\ TOff \in Nat
  BY <1>1, TargetRec DEF TBuf, TOff
<1>3. acc' = acc \cup RoundHead(TBuf, TOff)
  BY DEF FillSector, TBuf, TOff
<1>4. \A a \in RoundHead(TBuf, TOff) : a.buf \notin {"array", "sector"} \/ a.len # SegmentLen
  BY <1>2, RoundHeadNoSegment
<1>5. CASE call.round # 2
  <2>1. call' = [call EXCEPT !.pc = "crypt"]
    BY <1>5 DEF FillSector
  <2>2. Target(call') = Target(call) /\ call'.pc = "crypt" /\ call'.round = call.round
    BY <1>1, <2>1 DEF Target, CallRec
  <2>3. QED
    BY <1>1, <1>2, <1>3, <1>4, <2>2 DEF SegInv, TBuf, TOff
<1>6. CASE call.round = 2
  <2>1. call' = AfterSector(call)
    BY <1>6 DEF FillSector
  <2>2. CASE call.size < SectorSize \/ ~(call.stride + SectorSize < call.size)
    <3>1. call'.pc \in {"slices", "return"}
      BY <1>1, <2>1, <2>2 DEF AfterSector, CallRec
    <3>2. QED
      BY <3>1 DEF SegInv
  <2>3. CASE ~(call.size < SectorSize) /\ call.stride + SectorSize < call.size
    <3>1. PICK d : d = [call EXCEPT !.stride = call.stride + SectorSize, !.round = 0, !.pc = "fill"]
      OBVIOUS
    <3>2. call' = d
      BY <2>1, <2>3, <3>1 DEF AfterSector
    <3>3. d.size = call.size /\ d.stride = call.stride + 512 /\ d.round = 0 /\ d.pc = "fill"
      BY <1>1, <3>1, DigitFacts DEF CallRec
    <3>4. TBuf = "array" /\ TOff = call.stride /\ call.stride \in Nat
      BY <1>1, <2>3, DigitFacts DEF TBuf, TOff, Target, CallRec
    <3>5. Target(call') = <<"array", call.stride + 512>>
      BY <1>1, <2>3, <3>2, <3>3, DigitFacts DEF Target, CallRec
    <3>6. \A a \in acc' : (a.buf = "array" /\ a.len = SegmentLen) => a.off < call.stride + 512
      <4>1. \A a \in acc : (a.buf = "array" /\ a.len = SegmentLen) => a.off < call.stride + 512
        <5>1. \A a \in acc : a.off \in Int
          BY DEF TInv, AccRec
        <5>2. QED
          BY <1>1, <3>4, <5>1 DEF SegInv
      <4>2. QED
        BY <1>3, <1>4, <3>4, <4>1
    <3>7. \A a \in acc' : a.off \in Int
      BY <1>2, <1>3, RoundHeadRec DEF TInv, AccRec
    <3>8. TBuf' = "array" /\ TOff' = call.stride + 512 /\ call'.pc = "fill" /\ call'.round = 0
      BY <3>2, <3>3, <3>5 DEF TBuf, TOff
    <3>9. QED
      BY <3>4, <3>6, <3>7, <3>8 DEF SegInv
  <2>4. QED
    BY <2>2, <2>3
<1>7. QED
  BY <1>5, <1>6

LEMMA SegInvCrypt ==
  ASSUME TInv, SegInv, CryptSector
  PROVE  SegInv'
<1>1. call \in CallRec /\ call.pc = "crypt"
  BY DEF CryptSector, TInv
<1>2. TBuf \in {"array", "sector"} /\ TOff \in Nat
  BY <1>1, TargetRec DEF TBuf, TOff
<1>3. acc' = acc \cup CryptAccesses(TBuf, TOff)
  BY DEF CryptSector, TBuf, TOff
<1>4. \A a \in CryptAccesses(TBuf, TOff) : a.buf \notin {"array", "sector"} \/ a.len # SegmentLen
  BY <1>2, CryptNoSegment
<1>5. Target(call') = Target(call) /\ call'.pc = "password" /\ call'.round = call.round
  BY <1>1 DEF CryptSector, Target, CallRec
<1>6. QED
  BY <1>1, <1>2, <1>3, <1>4, <1>5 DEF SegInv, TBuf, TOff

LEMMA SegInvRepassword ==
  ASSUME TInv, SegInv, Repassword
  PROVE  SegInv'
<1>1. call \in CallRec /\ call.pc = "password" /\ call.round \in 0..1
  BY DEF Repassword, TInv
<1>2. TBuf \in {"array", "sector"} /\ TOff \in Nat
  BY <1>1, TargetRec DEF TBuf, TOff
<1>3. acc' = acc \cup PasswordAccesses(TBuf, TOff)
  BY DEF Repassword, TBuf, TOff
<1>4. PICK d : d = [call EXCEPT !.pc = "fill", !.round = call.round + 1]
  OBVIOUS
<1>5. call' = d /\ d.size = call.size /\ d.stride = call.stride /\ d.pc = "fill"
      /\ d.round = call.round + 1
  BY <1>1, <1>4 DEF Repassword, CallRec
<1>6. Target(call') = Target(call) /\ call'.round > 0 /\ call'.pc = "fill"
  BY <1>1, <1>5 DEF Target
<1>7. ASSUME NEW a \in PasswordAccesses(TBuf, TOff), a.buf = TBuf
      PROVE  \E i \in 0..7 : a.off = TOff + 64 * i
  <2>1. a.buf = "password" \/ \E i \in 0..7 : a = Acc(TBuf, TOff + 64 * i, 64)
    BY <1>2, PasswordAccessesShape
  <2>2. QED
    BY <1>2, <1>7, <2>1 DEF Acc
<1>8. QED
  BY <1>1, <1>3, <1>6, <1>7 DEF SegInv, TBuf, TOff

LEMMA SegInvNext == TInv /\ SegInv /\ [Next]_vars => SegInv'
<1> SUFFICES ASSUME TInv, SegInv, [Next]_vars PROVE SegInv'
  OBVIOUS
<1>1. CASE DnetCryptInit \/ CryptSectorNullKeys \/ UNCHANGED vars
  BY <1>1 DEF DnetCryptInit, CryptSectorNullKeys, vars, SegInv, TBuf, TOff
<1>2. CASE DeriveSlices \/ Return
  <2>1. call'.pc \in {"return", "idle"}
    BY <1>2 DEF DeriveSlices, Return, TInv, CallRec
  <2>2. QED
    BY <2>1 DEF SegInv
<1>3. CASE Restart
  BY <1>3 DEF Restart, SegInv, Idle
<1>4. ASSUME NEW s \in ArraySizes, GenerateRandomArray(s) PROVE SegInv'
  BY <1>4, SegInvStart DEF GenerateRandomArray
<1>5. ASSUME NEW s \in BytesSizes, GenerateRandomBytes(s) PROVE SegInv'
  BY <1>5, SegInvStart DEF GenerateRandomBytes
<1>6. QED
  BY <1>1, <1>2, <1>3, <1>4, <1>5, SegInvFill, SegInvCrypt, SegInvRepassword DEF Next
(* The invariants give the tiling: the byte x of the sector is covered by *)
(* the segment that starts at the multiple of 64 below it, and by no other.*)
LEMMA SegInvPartition == TInv /\ SegInv => PasswordSegmentsPartition
<1> SUFFICES ASSUME TInv, SegInv, call.pc = "fill", call.round > 0,
                    NEW x \in TOff..(TOff + SectorSize - 1)
             PROVE  Cardinality({a \in {a \in acc : /\ a.buf = TBuf /\ a.len = SegmentLen
                                                    /\ TOff <= a.off /\ a.off < TOff + SectorSize} :
                                   a.off <= x /\ x < a.off + a.len}) = 1
  BY DEF PasswordSegmentsPartition, TBuf, TOff
<1> DEFINE C == {a \in {a \in acc : /\ a.buf = TBuf /\ a.len = SegmentLen
                                    /\ TOff <= a.off /\ a.off < TOff + SectorSize} :
                   a.off <= x /\ x < a.off + a.len}
           k == (x - TOff) \div 64
           e == Acc(TBuf, TOff + 64 * k, 64)
<1>1. TBuf \in {"array", "sector"} /\ TOff \in Nat
  BY TargetRec DEF TInv, TBuf, TOff
<1>2. k \in 0..7 /\ TOff + 64 * k <= x /\ x < TOff + 64 * k + 64
  BY <1>1, DigitFacts
<1>3. e \in acc
  BY <1>1, <1>2, PasswordAccessesShape DEF SegInv
<1>4. e \in C
  BY <1>1, <1>2, <1>3, DigitFacts DEF Acc
<1>5. ASSUME NEW a \in C PROVE a = e
  <2>1. a \in acc /\ a.buf = TBuf /\ a.len = SegmentLen /\ a.off >= TOff
        /\ a.off <= x /\ x < a.off + a.len
    OBVIOUS
  <2>2. a = [buf |-> a.buf, off |-> a.off, len |-> a.len]
    BY <2>1 DEF TInv, AccRec
  <2>3. PICK i \in 0..7 : a.off = TOff + 64 * i
    BY <2>1 DEF SegInv
  <2>4. i = k
    BY <1>1, <1>2, <2>1, <2>3, DigitFacts
  <2>5. QED
    BY <2>1, <2>2, <2>3, <2>4, DigitFacts DEF Acc
<1>6. C = {e}
  BY <1>4, <1>5
<1>7. QED
  BY <1>6, FS_Singleton

(* Every round after the first of dnet_random_sector draws its sector from *)
(* a password that dnet_sector_to_password built from CRC segments tiling  *)
(* each of the 512 bytes of the sector written before it exactly once     *)
(* (src/src/c/dfs/dfs_jni.cc:79-107), for every digit size and every size  *)
(* passed by Java, including sizes of many 512-byte strides.               *)
THEOREM PartitionThm == Spec => []PasswordSegmentsPartition
<1>1. Spec => [](TInv /\ SegInv)
  BY TInvInit, TInvNext, SegInvInit, SegInvNext, PTL DEF Spec
<1>2. QED
  BY <1>1, SegInvPartition, PTL
-----------------------------------------------------------------------------
(* Memory safety, when the sizes that pass the size check fit the buffer  *)
(* of the wrapper they are passed to.                                      *)

(* Every size the check accepts is at most the 32 bytes of the stack array *)
(* of generate_random_array, or the 8 bytes of generate_random_bytes.      *)
SizesFit ==
  /\ \A s \in ArraySizes : ~Rejected(s) => s <= 32
  /\ \A s \in BytesSizes : ~Rejected(s) => s <= 8

(* The regions of S lie inside the buffers of a call whose array has cap   *)
(* bytes.                                                                  *)
InBounds(S, cap) == \A a \in S : a.off >= 0 /\ a.off + a.len <= BufSize(cap)[a.buf]

(* The strengthening: a call past the size check writes into the stack    *)
(* sector, its size being at most its buffer.                              *)
BInv ==
  /\ call.pc # "idle" => call.size <= call.cap
  /\ InBounds(acc, call.cap)

LEMMA RoundHeadBounds ==
  ASSUME NEW cap \in {8, 32}
  PROVE  InBounds(RoundHead("sector", 0), cap)
<1>1. \A w \in MaskWords : w \in 0..127
  <2>1. KeylenMin \div 8 \in {4, 8, 16} /\ SectorSize \div 4 = 128
    BY DigitFacts
  <2>2. QED
    BY <2>1 DEF MaskWords, StepsUpTo, StepsBelow
<1>2. QED
  BY <1>1, DigitFacts DEF InBounds, RoundHead, Acc, BufSize

LEMMA CryptBounds ==
  ASSUME NEW cap \in {8, 32}
  PROVE  InBounds(CryptAccesses("sector", 0), cap)
BY DigitFacts DEF InBounds, CryptAccesses, Acc, BufSize

LEMMA PasswordBounds ==
  ASSUME NEW cap \in {8, 32}
  PROVE  InBounds(PasswordAccesses("sector", 0), cap)
<1>1. StepsBelow(0, PwdLen \div 8, 1) = 0..7
  BY DigitFacts DEF StepsBelow
<1>2. \A i \in 0..7 : SegmentOffset(i) = 64 * i
  BY SegmentOffsetVal
<1>3. QED
  BY <1>1, <1>2, DigitFacts DEF InBounds, PasswordAccesses, Acc, BufSize

(* Slice i of the CRC loop reads 512 / size bytes at i * 512 / size, which *)
(* ends inside the sector for every i below size.                          *)
LEMMA SliceInSector ==
  ASSUME NEW size \in Int, size >= 4, NEW i \in 0..(size - 1)
  PROVE  /\ (i * 512) \div size >= 0
         /\ (i * 512) \div size + 512 \div size <= 512
<1> DEFINE q == (i * 512) \div size
           r == 512 \div size
<1>1. q \in Nat /\ r \in Nat /\ q * size <= i * 512 /\ r * size <= 512
  OBVIOUS
<1>2. (q + r) * size <= size * 512
  <2>1. (q + r) * size <= (i + 1) * 512
    BY <1>1
  <2>2. (i + 1) * 512 <= size * 512
    OBVIOUS
  <2>3. QED
    BY <1>1, <2>1, <2>2
<1>3. QED
  BY <1>1, <1>2

LEMMA SliceBounds ==
  ASSUME NEW cap \in {8, 32}, NEW size \in 4..cap
  PROVE  InBounds(SliceAccesses(size), cap)
<1>1. ASSUME NEW i \in StepsBelow(0, size, 4)
      PROVE  /\ i \in 0..(size - 1) /\ i + 4 <= cap
  BY DEF StepsBelow
<1>2. QED
  BY <1>1, SliceInSector, DigitFacts DEF InBounds, SliceAccesses, Acc, BufSize

LEMMA BInvInit == Init => BInv
BY DEF Init, BInv, InBounds, Idle

LEMMA BInvNext == SizesFit /\ TInv /\ BInv /\ [Next]_vars => BInv'
<1> SUFFICES ASSUME SizesFit, TInv, BInv, [Next]_vars PROVE BInv'
  OBVIOUS
<1>1. call \in CallRec
  BY DEF TInv
<1> DEFINE Running == call.pc # "idle"
<1>2. Running => call.size \in 4..call.cap /\ call.cap \in {8, 32} /\ Target(call) = <<"sector", 0>>
  BY <1>1, DigitFacts DEF BInv, TInv, CallRec, Target
<1>3. ASSUME NEW fn, NEW cap \in {8, 32}, NEW size \in Int, Start(fn, cap, size),
             ~Rejected(size) => size <= cap
      PROVE  BInv'
  <2>1. acc' = {Acc("array", 0, cap)} /\ call'.cap = cap
        /\ (call'.pc # "idle" => call'.size = size /\ ~Rejected(size))
    BY <1>3 DEF Start, Idle
  <2>2. QED
    BY <1>3, <2>1 DEF BInv, InBounds, Acc, BufSize
<1>4. CASE FillSector
  <2>1. acc' = acc \cup RoundHead("sector", 0) /\ call'.cap = call.cap /\ call'.size = call.size
    BY <1>1, <1>2, <1>4, AfterSectorRec DEF FillSector, TInv, CallRec
  <2>2. QED
    BY <1>2, <1>4, <2>1, RoundHeadBounds DEF BInv, InBounds, FillSector
<1>5. CASE CryptSector
  <2>1. acc' = acc \cup CryptAccesses("sector", 0) /\ call'.cap = call.cap /\ call'.size = call.size
    BY <1>1, <1>2, <1>5 DEF CryptSector, CallRec
  <2>2. QED
    BY <1>2, <1>5, <2>1, CryptBounds DEF BInv, InBounds, CryptSector
<1>6. CASE Repassword
  <2>1. acc' = acc \cup PasswordAccesses("sector", 0) /\ call'.cap = call.cap /\ call'.size = call.size
    BY <1>1, <1>2, <1>6 DEF Repassword, CallRec
  <2>2. QED
    BY <1>2, <1>6, <2>1, PasswordBounds DEF BInv, InBounds, Repassword
<1>7. CASE DeriveSlices
  <2>1. acc' = acc \cup SliceAccesses(call.size) /\ call'.cap = call.cap /\ call'.size = call.size
    BY <1>1, <1>7 DEF DeriveSlices, CallRec
  <2>2. QED
    BY <1>2, <1>7, <2>1, SliceBounds DEF BInv, InBounds, DeriveSlices
<1>8. CASE Return
  <2>1. acc' = acc \cup {Acc("array", 0, call.cap)} /\ call'.cap = call.cap
    BY <1>1, <1>8 DEF Return, CallRec
  <2>2. QED
    BY <1>2, <1>8, <2>1 DEF BInv, InBounds, Return, Acc, BufSize
<1>9. CASE DnetCryptInit \/ CryptSectorNullKeys \/ UNCHANGED vars
  BY <1>9 DEF DnetCryptInit, CryptSectorNullKeys, vars, BInv, InBounds
<1>10. CASE Restart
  BY <1>10 DEF Restart, BInv, InBounds, Idle
<1>11. ASSUME NEW s \in ArraySizes, GenerateRandomArray(s) PROVE BInv'
  BY <1>11, <1>3, SeedAssumption DEF GenerateRandomArray, SizesFit
<1>12. ASSUME NEW s \in BytesSizes, GenerateRandomBytes(s) PROVE BInv'
  BY <1>12, <1>3, SeedAssumption DEF GenerateRandomBytes, SizesFit
<1>13. QED
  BY <1>4, <1>5, <1>6, <1>7, <1>8, <1>9, <1>10, <1>11, <1>12 DEF Next

(* When every size the check of dnet_generate_random_array accepts fits    *)
(* the stack array of the wrapper it is passed to, every region that       *)
(* dnet_random_sector, dnet_sector_to_password, the CRC-slice loop and the *)
(* wrappers read or write lies inside its buffer                           *)
(* (src/src/c/dfs/dfs_jni.cc:79-124, 391-424), for every digit size.       *)
THEOREM BoundsThm ==
  ASSUME SizesFit
  PROVE  Spec => []AccessesInBounds
<1>1. Spec => [](TInv /\ BInv)
  <2>1. TInv /\ BInv /\ [Next]_vars => TInv' /\ BInv'
    BY TInvNext, BInvNext
  <2>2. QED
    BY <2>1, TInvInit, BInvInit, PTL DEF Spec
<1>2. QED
  BY <1>1, PTL DEF BInv, InBounds, AccessesInBounds
=============================================================================
