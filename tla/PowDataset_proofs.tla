-------------------------- MODULE PowDataset_proofs --------------------------
(***************************************************************************)
(* Proofs about PowDataset: the seedinfo ranges initDataSet computes are a *)
(* partition of the dataset items for every item count and every jminers   *)
(* > 1, and every reachable state has each item written at most once. When *)
(* a call has returned, the items of the workers it started are written    *)
(* once and those of slots whose CTHR_THREAD_CREATE failed not at all, so  *)
(* the dataset is complete exactly when no thread creation failed.         *)
(***************************************************************************)
EXTENDS PowDataset, TLAPS

USE PowAssumption

(* Integer division as the code's unsigned long division on non-negative  *)
(* operands: delta = n / j satisfies j * delta <= n < j * delta + j.       *)
LEMMA DivBounds ==
  ASSUME NEW n \in Nat, NEW j \in Int, j > 0
  PROVE  /\ n \div j \in Nat
         /\ j * (n \div j) <= n
         /\ n < j * (n \div j) + j
  BY SMT

(* Share number i of delta items is [i * delta, i * delta + delta); an    *)
(* item lies in it exactly when item / delta = i.                          *)
LEMMA DivChar ==
  ASSUME NEW x \in Nat, NEW d \in Nat, d > 0, NEW i \in Nat
  PROVE  (i * d <= x /\ x < i * d + d) <=> x \div d = i
  BY SMT

(* The seedinfo entries are unsigned: no start and no count is negative, *)
(* the last worker's remainder included.                                   *)
LEMMA PartitionType ==
  ASSUME NEW j \in Int, j > 1
  PROVE  Partition(j) \in [0..(j - 1) -> [start : Nat, count : Nat]]
<1> DEFINE d == ItemCount \div j
<1>1. d \in Nat /\ j * d <= ItemCount
  BY DivBounds
<1>2. \A i \in 0..(j - 1) : i < j - 1 => [start |-> i * d, count |-> d] \in [start : Nat, count : Nat]
  BY <1>1, SMT
<1>3. [start |-> (j - 1) * d, count |-> ItemCount - (j - 1) * d] \in [start : Nat, count : Nat]
  BY <1>1, SMT
<1>4. QED
  BY <1>2, <1>3 DEF Partition
(* Every share starts at its number times delta, and all but the last     *)
(* hold delta items; the last ends at the item count.                     *)
LEMMA PartitionShape ==
  ASSUME NEW j \in Int, j > 1, NEW t \in 0..(j - 1)
  PROVE  /\ Partition(j)[t].start = t * (ItemCount \div j)
         /\ t < j - 1 => Partition(j)[t].count = ItemCount \div j
         /\ t = j - 1 => Partition(j)[t].start + Partition(j)[t].count = ItemCount
<1> DEFINE d == ItemCount \div j
<1>1. Partition(j)[t] = IF t < j - 1 THEN [start |-> t * d, count |-> d]
                        ELSE [start |-> (j - 1) * d, count |-> ItemCount - (j - 1) * d]
  BY DEF Partition
<1>2. CASE t < j - 1
  BY <1>1, <1>2
<1>3. CASE t = j - 1
  BY <1>1, <1>3, SMT
<1>4. QED
  BY <1>2, <1>3, SMT

(* Two distinct workers of one call never share an item: the ranges      *)
(* si[s] and si[t] set up by the fill loop are disjoint.                   *)
LEMMA PartitionDisjoint ==
  ASSUME NEW j \in Int, j > 1, NEW x \in Int,
         NEW s \in 0..(j - 1), NEW t \in 0..(j - 1),
         InRange(x, Partition(j)[s]), InRange(x, Partition(j)[t])
  PROVE  s = t
<1> DEFINE d == ItemCount \div j
<1>1. d \in Nat
  BY DivBounds
<1>2. /\ Partition(j)[s].start = s * d /\ Partition(j)[t].start = t * d
      /\ s < j - 1 => Partition(j)[s].count = d
      /\ t < j - 1 => Partition(j)[t].count = d
  BY PartitionShape
<1>3. /\ s * d <= x /\ x < s * d + Partition(j)[s].count
      /\ t * d <= x /\ x < t * d + Partition(j)[t].count
  BY <1>2 DEF InRange
<1>4. CASE s < t
  BY <1>1, <1>2, <1>3, <1>4, SMT
<1>5. CASE t < s
  BY <1>1, <1>2, <1>3, <1>5, SMT
<1>6. QED
  BY <1>4, <1>5, SMT

(* The shares cover every item: the last worker's remainder closes the    *)
(* gap the integer division leaves.                                        *)
LEMMA PartitionCovers ==
  ASSUME NEW j \in Int, j > 1, NEW x \in Items
  PROVE  \E t \in 0..(j - 1) : InRange(x, Partition(j)[t])
<1> DEFINE d == ItemCount \div j
<1>1. d \in Nat /\ j * d <= ItemCount
  BY DivBounds
<1>2. x \in Nat /\ x < ItemCount
  BY DEF Items
<1>3. /\ Partition(j)[j - 1].start = (j - 1) * d
      /\ Partition(j)[j - 1].start + Partition(j)[j - 1].count = ItemCount
  <2>1. j - 1 \in 0..(j - 1)
    BY SMT
  <2>2. QED
    BY <2>1, PartitionShape
<1>4. CASE d = 0
  <2>1. InRange(x, Partition(j)[j - 1])
    BY <1>2, <1>3, <1>4, SMT DEF InRange
  <2>2. QED
    BY <2>1, SMT
<1>5. CASE d > 0 /\ x \div d < j - 1
  <2> DEFINE q == x \div d
  <2>1. q \in 0..(j - 1) /\ q < j - 1
    BY <1>1, <1>2, <1>5, SMT
  <2>2. q * d <= x /\ x < q * d + d
    BY <1>1, <1>2, <1>5, DivChar
  <2>3. Partition(j)[q].start = q * d /\ Partition(j)[q].count = d
    BY <2>1, PartitionShape
  <2>4. InRange(x, Partition(j)[q])
    BY <2>2, <2>3 DEF InRange
  <2>5. QED
    BY <2>1, <2>4
<1>6. CASE d > 0 /\ x \div d >= j - 1
  <2>1. (j - 1) * d <= x
    <3>1. (x \div d) * d <= x
      BY <1>1, <1>2, <1>6, SMT
    <3>2. (j - 1) * d <= (x \div d) * d
      BY <1>1, <1>2, <1>6, SMT
    <3>3. QED
      BY <1>1, <1>2, <3>1, <3>2, SMT
  <2>2. InRange(x, Partition(j)[j - 1])
    BY <1>2, <1>3, <2>1 DEF InRange
  <2>3. QED
    BY <2>2, SMT
<1>7. d = 0 \/ (d > 0 /\ x \div d < j - 1) \/ (d > 0 /\ x \div d >= j - 1)
  BY <1>1, <1>2, SMT
<1>8. QED
  BY <1>4, <1>5, <1>6, <1>7
-----------------------------------------------------------------------------
-----------------------------------------------------------------------------
(* A thread slot of a call with jminers = m is one of Threads.            *)
LEMMA SlotInThreads ==
  ASSUME NEW m \in Miners, NEW t \in 0..(m - 1)
  PROVE  t \in Threads
BY DEF Threads

(* Thread slots are natural numbers.                                      *)
LEMMA ThreadsNat == \A t \in Threads : t \in Nat
BY PowAssumption, SMT DEF Threads

(* The initial state, before any initDataSet, satisfies DatasetInv.      *)
LEMMA InvInit == Init => DatasetInv
<1> SUFFICES ASSUME Init PROVE DatasetInv
  OBVIOUS
<1>1. TypeOK
  <2>1. 0..(0 - 1) = {}
    BY SMT
  <2>2. si \in [0..(miners - 1) -> [start : Nat, count : Nat]]
    BY <2>1, Zenon DEF Init
  <2>3. inits \in [Items -> Nat] /\ thr \in [Threads -> {"none", "running", "done"}]
        /\ noThread \subseteq Threads
    BY DEF Init
  <2>4. QED
    BY <2>2, <2>3 DEF Init, TypeOK
<1>2. NoOverlap
  BY SMT DEF Init, NoOverlap
<1>3. CallInv /\ ThreadsInv /\ SlotsInv /\ SpawnInv /\ JoinInv /\ BuiltAsStarted
  BY DEF Init, CallInv, ThreadsInv, SlotsInv, SpawnInv, JoinInv, BuiltAsStarted
<1>4. QED
  BY <1>1, <1>2, <1>3 DEF DatasetInv

LEMMA VmStep ==
  ASSUME DatasetInv,
         \/ \E ok \in SUBSET VmFlagSets : CreateVm(ok)
         \/ DestroyVm
         \/ UNCHANGED vars
  PROVE  DatasetInv'
<1>1. UNCHANGED <<pc, miners, si, siMem, stMem, thr, idx, inits, built, fault, noThread>>
  BY DEF CreateVm, DestroyVm, vars
<1>2. vm' \in {"none", "null", "large", "host", "default"}
  <2>1. CASE \E ok \in SUBSET VmFlagSets : CreateVm(ok)
    <3>1. PICK ok \in SUBSET VmFlagSets : CreateVm(ok)
      BY <2>1
    <3>2. \A a \in 1..3 : VmAttempts[a] \in {"large", "host", "default"}
      BY DEF VmAttempts
    <3>3. (CHOOSE a \in 1..3 : VmAttempts[a] \in ok /\ \A b \in 1..(a - 1) : VmAttempts[b] \notin ok) \in 1..3
          \/ ~\E a \in 1..3 : VmAttempts[a] \in ok
      <4>1. CASE \E a \in 1..3 : VmAttempts[a] \in ok
        <5>1. \E a \in 1..3 : VmAttempts[a] \in ok /\ \A b \in 1..(a - 1) : VmAttempts[b] \notin ok
          <6>1. PICK a0 \in 1..3 : VmAttempts[a0] \in ok
            BY <4>1
          <6>2. CASE VmAttempts[1] \in ok
            BY <6>2, SMT
          <6>3. CASE VmAttempts[1] \notin ok /\ VmAttempts[2] \in ok
            BY <6>3, SMT
          <6>4. CASE VmAttempts[1] \notin ok /\ VmAttempts[2] \notin ok
            <7>1. a0 = 3
              BY <6>1, <6>4, SMT
            <7>2. QED
              BY <6>1, <6>4, <7>1, SMT
          <6>5. QED
            BY <6>2, <6>3, <6>4
        <5>2. QED
          BY <5>1
      <4>2. QED
        BY <4>1
    <3>4. QED
      BY <3>1, <3>2, <3>3 DEF CreateVm
  <2>2. CASE DestroyVm
    BY <2>2 DEF DestroyVm
  <2>3. CASE UNCHANGED vars
    BY <2>3 DEF vars, DatasetInv, TypeOK
  <2>4. QED
    BY <2>1, <2>2, <2>3
<1>3. QED
  BY <1>1, <1>2 DEF DatasetInv, TypeOK, NoOverlap, CallInv, ThreadsInv, SpawnInv,
                    SlotsInv, JoinInv, BuiltAsStarted, Covered, Ran
(* initDataSet on the calling thread writes every item once and returns.  *)
LEMMA SingleStep ==
  ASSUME DatasetInv, NEW j \in Miners, InitDataSetSingle(j)
  PROVE  DatasetInv'
<1>1. UNCHANGED <<pc, miners, si, siMem, stMem, thr, idx, fault, vm>>
  BY DEF InitDataSetSingle
<1>2. pc = "idle" /\ inits' = [x \in Items |-> 1] /\ built' = TRUE /\ noThread' = {}
  BY DEF InitDataSetSingle
<1>3. TypeOK'
  BY <1>1, <1>2 DEF DatasetInv, TypeOK
<1>4. (NoOverlap /\ BuiltAsStarted /\ SlotsInv)'
  BY <1>2, SMT DEF NoOverlap, BuiltAsStarted, SlotsInv
<1>5. (CallInv /\ ThreadsInv /\ SpawnInv /\ JoinInv)'
  <2>1. \A t \in Threads : thr[t] = "none"
    BY <1>2 DEF DatasetInv, ThreadsInv
  <2>2. QED
    BY <1>1, <1>2, <2>1 DEF CallInv, ThreadsInv, SpawnInv, JoinInv
<1>6. QED
  BY <1>3, <1>4, <1>5 DEF DatasetInv

(* The start of a parallel initDataSet: si is the partition of jminers,  *)
(* no worker exists yet, no slot has been tried and no item written.       *)
LEMMA ParallelStep ==
  ASSUME DatasetInv, NEW j \in Miners, InitDataSetParallel(j)
  PROVE  DatasetInv'
<1>1. /\ pc = "idle" /\ j > 1 /\ miners' = j /\ si' = Partition(j) /\ idx' = 0
      /\ inits' = [x \in Items |-> 0] /\ noThread' = {}
      /\ UNCHANGED <<thr, built, vm>>
  BY DEF InitDataSetParallel
<1>2. PICK sa \in AllocResults, ta \in AllocResults :
         /\ siMem' = IF sa = "null" THEN "null" ELSE IF ta = "null" THEN "freed" ELSE "ok"
         /\ stMem' = ta
         /\ fault' = (sa = "null" \/ ta = "null")
         /\ pc' = IF sa = "null" \/ ta = "null" THEN "crashed" ELSE "spawn"
  BY DEF InitDataSetParallel
<1>3. \A t \in Threads : thr[t] = "none"
  BY <1>1 DEF DatasetInv, ThreadsInv
<1>4. j \in Int
  BY PowAssumption
<1>5. TypeOK'
  <2>1. si' \in [0..(miners' - 1) -> [start : Nat, count : Nat]]
    BY <1>1, <1>4, PartitionType
  <2>2. pc' \in {"idle", "spawn", "join", "hung", "crashed"} /\ siMem' \in {"none", "ok", "null", "freed"}
        /\ stMem' \in {"none", "ok", "null"} /\ fault' \in BOOLEAN
    BY <1>2, PowAssumption
  <2>3. inits' \in [Items -> Nat] /\ idx' \in Nat /\ miners' \in {0} \cup Miners
        /\ noThread' \subseteq Threads
    BY <1>1
  <2>4. QED
    BY <1>1, <2>1, <2>2, <2>3 DEF DatasetInv, TypeOK
<1>6. NoOverlap'
  BY <1>1, SMT DEF NoOverlap
<1>7. \A x \in Items : ~Covered(x)'
  <2>1. \A t \in 0..(j - 1) : thr'[t] = "none"
    BY <1>1, <1>3, SlotInThreads
  <2>2. pc' \notin {"join", "hung"}
    BY <1>2
  <2>3. QED
    BY <1>1, <2>1, <2>2 DEF Covered, Ran
<1>8. CallInv'
  BY <1>1, <1>4, <1>7 DEF CallInv
<1>9. (ThreadsInv /\ SlotsInv /\ SpawnInv /\ JoinInv /\ BuiltAsStarted)'
  <2>1. pc' \in {"crashed", "spawn"}
    BY <1>2
  <2>2. QED
    BY <1>1, <1>3, <2>1, ThreadsNat, SMT
       DEF ThreadsInv, SlotsInv, SpawnInv, JoinInv, BuiltAsStarted
<1>10. QED
  BY <1>5, <1>6, <1>8, <1>9 DEF DatasetInv

(* One turn of the spawn loop starts worker i; nothing it owns is written *)
(* yet by this step.                                                       *)
LEMMA SpawnStep ==
  ASSUME DatasetInv, SpawnWorker
  PROVE  DatasetInv'
<1>1. /\ pc = "spawn" /\ idx < miners
      /\ thr' = [thr EXCEPT ![idx] = "running"] /\ idx' = idx + 1
      /\ UNCHANGED <<pc, miners, si, siMem, stMem, inits, built, fault, vm, noThread>>
  BY DEF SpawnWorker
<1>2. miners \in Miners /\ miners > 1 /\ idx \in 0..miners /\ si = Partition(miners)
  BY <1>1 DEF DatasetInv, CallInv
<1>3. idx \in Threads
  BY <1>1, <1>2, PowAssumption, SlotInThreads, SMT
<1>4. thr[idx] = "none" /\ idx \notin noThread
  <2>1. (thr[idx] # "none" \/ idx \in noThread) <=> idx < idx
    BY <1>1, <1>3 DEF DatasetInv, SpawnInv
  <2>2. ~(idx < idx)
    BY <1>2, SMT
  <2>3. QED
    BY <2>1, <2>2
<1>6. TypeOK'
  BY <1>1, <1>2, <1>3, SMT DEF DatasetInv, TypeOK
<1>7. \A t \in Threads : Ran(t)' <=> Ran(t)
  BY <1>1, <1>3, <1>4 DEF Ran
<1>8. \A x \in Items : Covered(x)' <=> Covered(x)
  <2>1. \A t \in 0..(miners - 1) : t \in Threads
    BY <1>2, SlotInThreads
  <2>2. QED
    BY <1>1, <1>7, <2>1 DEF Covered
<1>9. CallInv'
  <2>1. idx' \in 0..miners'
    BY <1>1, <1>2, SMT
  <2>2. \A x \in Items : inits'[x] = IF Covered(x)' THEN 1 ELSE 0
    BY <1>1, <1>2, <1>8 DEF DatasetInv, CallInv
  <2>3. QED
    BY <1>1, <1>2, <2>1, <2>2 DEF CallInv
<1>10. \A t \in Threads : thr'[t] = IF t = idx THEN "running" ELSE thr[t]
  BY <1>1, <1>3 DEF DatasetInv, TypeOK
<1>11. ThreadsInv'
  <2> SUFFICES ASSUME NEW t \in Threads, thr'[t] # "none"
               PROVE  pc' \in {"spawn", "join", "hung"} /\ t < miners'
    BY DEF ThreadsInv
  <2>1. CASE t = idx
    BY <1>1, <2>1
  <2>2. CASE t # idx
    BY <1>1, <1>10, <2>2 DEF DatasetInv, ThreadsInv
  <2>3. QED
    BY <2>1, <2>2
<1>12. SpawnInv'
  <2> SUFFICES ASSUME NEW t \in Threads
               PROVE  /\ (thr'[t] # "none" \/ t \in noThread) <=> t < idx + 1
                      /\ ~(thr'[t] # "none" /\ t \in noThread)
    BY <1>1 DEF SpawnInv
  <2>1. CASE t = idx
    BY <1>2, <1>4, <1>10, <2>1, SMT
  <2>2. CASE t # idx
    <3>1. thr'[t] = thr[t]
      BY <1>10, <2>2
    <3>2. /\ (thr[t] # "none" \/ t \in noThread) <=> t < idx
          /\ ~(thr[t] # "none" /\ t \in noThread)
      BY <1>1 DEF DatasetInv, SpawnInv
    <3>3. t < idx <=> t < idx + 1
      BY <1>2, <2>2, ThreadsNat, SMT
    <3>4. QED
      BY <3>1, <3>2, <3>3
  <2>3. QED
    BY <2>1, <2>2
<1>13. (JoinInv /\ SlotsInv /\ BuiltAsStarted)'
  BY <1>1 DEF DatasetInv, JoinInv, SlotsInv, BuiltAsStarted
<1>14. NoOverlap'
  BY <1>1 DEF DatasetInv, NoOverlap
<1>15. QED
  BY <1>6, <1>9, <1>11, <1>12, <1>13, <1>14 DEF DatasetInv

(* A turn of the spawn loop whose thread creation fails: slot i joins     *)
(* noThread, no worker exists for it, and nothing is written.              *)
LEMMA SpawnFailStep ==
  ASSUME DatasetInv, SpawnWorkerFailed
  PROVE  DatasetInv'
<1>1. /\ pc = "spawn" /\ idx < miners
      /\ noThread' = noThread \cup {idx} /\ idx' = idx + 1
      /\ UNCHANGED <<pc, miners, si, siMem, stMem, thr, inits, built, fault, vm>>
  BY DEF SpawnWorkerFailed
<1>2. miners \in Miners /\ miners > 1 /\ idx \in 0..miners /\ si = Partition(miners)
  BY <1>1 DEF DatasetInv, CallInv
<1>3. idx \in Threads /\ idx \in 0..(miners - 1)
  BY <1>1, <1>2, PowAssumption, SlotInThreads, SMT
<1>4. thr[idx] = "none" /\ idx \notin noThread
  <2>1. (thr[idx] # "none" \/ idx \in noThread) <=> idx < idx
    BY <1>1, <1>3 DEF DatasetInv, SpawnInv
  <2>2. ~(idx < idx)
    BY <1>2, SMT
  <2>3. QED
    BY <2>1, <2>2
<1>5. TypeOK'
  BY <1>1, <1>2, <1>3, SMT DEF DatasetInv, TypeOK
<1>6. SlotsInv'
  BY <1>1, <1>3 DEF DatasetInv, SlotsInv
<1>7. \A t \in Threads : Ran(t)' <=> Ran(t)
  BY <1>1 DEF Ran
<1>8. CallInv'
  <2>1. \A x \in Items : Covered(x)' <=> Covered(x)
    <3>1. \A t \in 0..(miners - 1) : t \in Threads
      BY <1>2, SlotInThreads
    <3>2. QED
      BY <1>1, <1>7, <3>1 DEF Covered
  <2>2. idx' \in 0..miners'
    BY <1>1, <1>2, SMT
  <2>3. QED
    BY <1>1, <1>2, <2>1, <2>2 DEF DatasetInv, CallInv
<1>9. SpawnInv'
  <2> SUFFICES ASSUME NEW t \in Threads
               PROVE  /\ (thr[t] # "none" \/ t \in noThread') <=> t < idx + 1
                      /\ ~(thr[t] # "none" /\ t \in noThread')
    BY <1>1 DEF SpawnInv
  <2>1. CASE t = idx
    BY <1>1, <1>2, <1>4, <2>1, SMT
  <2>2. CASE t # idx
    <3>1. /\ (thr[t] # "none" \/ t \in noThread) <=> t < idx
          /\ ~(thr[t] # "none" /\ t \in noThread)
      BY <1>1 DEF DatasetInv, SpawnInv
    <3>2. t < idx <=> t < idx + 1
      BY <1>2, <2>2, ThreadsNat, SMT
    <3>3. t \in noThread' <=> t \in noThread
      BY <1>1, <2>2
    <3>4. QED
      BY <3>1, <3>2, <3>3
  <2>3. QED
    BY <2>1, <2>2
<1>10. (NoOverlap /\ ThreadsInv /\ JoinInv /\ BuiltAsStarted)'
  BY <1>1 DEF DatasetInv, NoOverlap, ThreadsInv, JoinInv, BuiltAsStarted
<1>11. QED
  BY <1>5, <1>6, <1>8, <1>9, <1>10 DEF DatasetInv

(* The spawn loop ends with every slot below jminers tried; the join loop *)
(* starts at slot 0 and has to reap exactly the slots that hold a thread.  *)
LEMMA SpawnDoneStep ==
  ASSUME DatasetInv, SpawnDone
  PROVE  DatasetInv'
<1>1. /\ pc = "spawn" /\ idx = miners /\ pc' = "join" /\ idx' = 0
      /\ UNCHANGED <<miners, si, siMem, stMem, thr, inits, built, fault, vm, noThread>>
  BY DEF SpawnDone
<1>2. miners \in Miners /\ miners > 1 /\ si = Partition(miners)
  BY <1>1 DEF DatasetInv, CallInv
<1>4. TypeOK'
  BY <1>1 DEF DatasetInv, TypeOK
<1>5. \A t \in Threads : Ran(t)' <=> Ran(t)
  BY <1>1, ThreadsNat, SMT DEF Ran
<1>6. \A x \in Items : Covered(x)' <=> Covered(x)
  <2>1. \A t \in 0..(miners - 1) : t \in Threads
    BY <1>2, SlotInThreads
  <2>2. QED
    BY <1>1, <1>5, <2>1 DEF Covered
<1>7. CallInv'
  BY <1>1, <1>2, <1>6, SMT DEF DatasetInv, CallInv
<1>8. JoinInv'
  <2> SUFFICES ASSUME NEW t \in Threads, t < miners
               PROVE  thr[t] # "none" <=> (0 <= t /\ t \notin noThread)
    BY <1>1 DEF JoinInv
  <2>1. /\ (thr[t] # "none" \/ t \in noThread) <=> t < miners
        /\ ~(thr[t] # "none" /\ t \in noThread)
    BY <1>1 DEF DatasetInv, SpawnInv
  <2>2. 0 <= t
    BY ThreadsNat, SMT
  <2>3. QED
    BY <2>1, <2>2
<1>9. (ThreadsInv /\ SlotsInv /\ SpawnInv /\ NoOverlap /\ BuiltAsStarted)'
  BY <1>1 DEF DatasetInv, ThreadsInv, SlotsInv, SpawnInv, NoOverlap, BuiltAsStarted
<1>10. QED
  BY <1>4, <1>7, <1>8, <1>9 DEF DatasetInv

(* A worker writes its own range.  None of those items was written       *)
(* before: a worker that has already run and owns one of them would be     *)
(* this worker, by PartitionDisjoint.                                      *)
LEMMA SeedStep ==
  ASSUME DatasetInv, NEW w \in Threads, SeedThread(w)
  PROVE  DatasetInv'
<1>1. /\ thr[w] = "running"
      /\ inits' = InitRange(si[w])
      /\ thr' = [thr EXCEPT ![w] = "done"]
      /\ UNCHANGED <<pc, miners, si, siMem, stMem, idx, built, fault, vm, noThread>>
  BY DEF SeedThread
<1>2. pc \in {"spawn", "join", "hung"} /\ w < miners
  BY <1>1 DEF DatasetInv, ThreadsInv
<1>3. /\ miners \in Miners /\ miners > 1 /\ si = Partition(miners) /\ idx \in 0..miners
      /\ \A x \in Items : inits[x] = IF Covered(x) THEN 1 ELSE 0
  BY <1>2 DEF DatasetInv, CallInv
<1>4. \A t \in Threads : t \in Nat
  BY PowAssumption, SMT DEF Threads
<1>5. w \in 0..(miners - 1) /\ miners \in Int
  BY <1>2, <1>3, <1>4, PowAssumption, SMT
<1>6. \A t \in Threads : thr'[t] = IF t = w THEN "done" ELSE thr[t]
  BY <1>1 DEF DatasetInv, TypeOK
<1>7. ~Ran(w)
  <2>1. pc \in {"join", "hung"} => idx <= w
    BY <1>1, <1>5 DEF DatasetInv, JoinInv
  <2>2. QED
    BY <1>1, <1>3, <1>4, <2>1, SMT DEF Ran
<1>8. Ran(w)'
  BY <1>6 DEF Ran
<1>9. \A t \in Threads : t # w => (Ran(t)' <=> Ran(t))
  BY <1>1, <1>6 DEF Ran
<1>10. \A t \in 0..(miners - 1) : t \in Threads
  BY <1>3, SlotInThreads
<1>11. \A x \in Items : inits'[x] = IF InRange(x, si[w]) THEN inits[x] + 1 ELSE inits[x]
  BY <1>1 DEF InitRange
<1>12. ASSUME NEW x \in Items
       PROVE  inits'[x] = IF Covered(x)' THEN 1 ELSE 0
  <2>1. CASE InRange(x, si[w])
    <3>1. ~Covered(x)
      <4> SUFFICES ASSUME NEW t \in 0..(miners - 1), Ran(t), InRange(x, si[t])
                   PROVE  FALSE
        BY DEF Covered
      <4>1. x \in Int
        BY DEF Items
      <4>2. t = w
        BY <1>3, <1>5, <2>1, <4>1, PartitionDisjoint
      <4>3. QED
        BY <1>7, <4>2
    <3>2. Covered(x)'
      BY <1>1, <1>5, <1>8, <2>1 DEF Covered
    <3>3. inits[x] = 0
      BY <1>3, <3>1
    <3>4. QED
      BY <1>11, <2>1, <3>2, <3>3, SMT
  <2>2. CASE ~InRange(x, si[w])
    <3>1. Covered(x)' <=> Covered(x)
      BY <1>1, <1>9, <1>10, <2>2 DEF Covered
    <3>2. QED
      BY <1>3, <1>11, <2>2, <3>1
  <2>3. QED
    BY <2>1, <2>2
<1>13. TypeOK'
  <2>1. inits' \in [Items -> Nat]
    <3>2. \A x \in Items : inits'[x] \in Nat
      BY <1>12
    <3>3. inits' = [x \in Items |-> inits'[x]]
      BY <1>1 DEF InitRange
    <3>4. QED
      BY <3>2, <3>3, Zenon
  <2>2. QED
    BY <1>1, <2>1 DEF DatasetInv, TypeOK
<1>14. NoOverlap'
  BY <1>12, SMT DEF NoOverlap
<1>15. CallInv'
  BY <1>1, <1>3, <1>12 DEF CallInv
<1>16. (ThreadsInv /\ SlotsInv /\ SpawnInv /\ JoinInv)'
  <2>1. \A t \in Threads : thr'[t] # "none" <=> thr[t] # "none"
    BY <1>1, <1>6
  <2>2. QED
    BY <1>1, <2>1 DEF DatasetInv, ThreadsInv, SlotsInv, SpawnInv, JoinInv
<1>17. BuiltAsStarted'
  BY <1>1, <1>2 DEF BuiltAsStarted
<1>18. QED
  BY <1>1, <1>13, <1>14, <1>15, <1>16, <1>17 DEF DatasetInv
(* One turn of the join loop reaps worker i, which has run; the set of    *)
(* workers that have run is unchanged.                                     *)
LEMMA JoinStep ==
  ASSUME DatasetInv, JoinWorker
  PROVE  DatasetInv'
<1>1. /\ pc = "join" /\ idx < miners /\ thr[idx] = "done"
      /\ thr' = [thr EXCEPT ![idx] = "none"] /\ idx' = idx + 1
      /\ UNCHANGED <<pc, miners, si, siMem, stMem, inits, built, fault, vm, noThread>>
  BY DEF JoinWorker
<1>2. miners \in Miners /\ miners > 1 /\ idx \in 0..miners /\ si = Partition(miners)
  BY <1>1 DEF DatasetInv, CallInv
<1>3. idx \in Threads
  BY <1>1, <1>2, PowAssumption, SlotInThreads, SMT
<1>4. idx \notin noThread
  BY <1>1, <1>3 DEF DatasetInv, JoinInv
<1>5. \A t \in Threads : thr'[t] = IF t = idx THEN "none" ELSE thr[t]
  BY <1>1, <1>3 DEF DatasetInv, TypeOK
<1>6. \A t \in Threads : Ran(t)' <=> Ran(t)
  <2> SUFFICES ASSUME NEW t \in Threads PROVE Ran(t)' <=> Ran(t)
    OBVIOUS
  <2>1. CASE t = idx
    <3>1. Ran(t)
      BY <1>1, <2>1 DEF Ran
    <3>2. t < idx'
      BY <1>1, <1>2, <2>1, SMT
    <3>3. QED
      BY <1>1, <1>4, <2>1, <3>1, <3>2 DEF Ran
  <2>2. CASE t # idx
    <3>1. thr'[t] = thr[t]
      BY <1>5, <2>2
    <3>2. t < idx + 1 <=> t < idx
      BY <1>2, <2>2, ThreadsNat, SMT
    <3>3. QED
      BY <1>1, <3>1, <3>2 DEF Ran
  <2>3. QED
    BY <2>1, <2>2
<1>7. \A x \in Items : Covered(x)' <=> Covered(x)
  <2>1. \A t \in 0..(miners - 1) : t \in Threads
    BY <1>2, SlotInThreads
  <2>2. QED
    BY <1>1, <1>6, <2>1 DEF Covered
<1>8. TypeOK'
  BY <1>1, <1>3 DEF DatasetInv, TypeOK
<1>9. CallInv'
  <2>1. idx' \in 0..miners'
    BY <1>1, <1>2, SMT
  <2>2. \A x \in Items : inits'[x] = IF Covered(x)' THEN 1 ELSE 0
    BY <1>1, <1>2, <1>7 DEF DatasetInv, CallInv
  <2>3. QED
    BY <1>1, <1>2, <2>1, <2>2 DEF CallInv
<1>10. ThreadsInv'
  BY <1>1, <1>5 DEF DatasetInv, ThreadsInv
<1>11. JoinInv'
  <2> SUFFICES ASSUME NEW t \in Threads, t < miners
               PROVE  thr'[t] # "none" <=> (idx + 1 <= t /\ t \notin noThread)
    BY <1>1 DEF JoinInv
  <2>1. CASE t = idx
    BY <1>2, <1>5, <2>1, SMT
  <2>2. CASE t # idx
    <3>1. thr[t] # "none" <=> (idx <= t /\ t \notin noThread)
      BY <1>1 DEF DatasetInv, JoinInv
    <3>2. idx <= t <=> idx + 1 <= t
      BY <1>2, <2>2, ThreadsNat, SMT
    <3>3. QED
      BY <1>5, <2>2, <3>1, <3>2
  <2>3. QED
    BY <2>1, <2>2
<1>12. (SlotsInv /\ SpawnInv /\ NoOverlap /\ BuiltAsStarted)'
  BY <1>1 DEF DatasetInv, SlotsInv, SpawnInv, NoOverlap, BuiltAsStarted
<1>13. QED
  BY <1>8, <1>9, <1>10, <1>11, <1>12 DEF DatasetInv

(* The join loop passing a slot that holds no thread: no worker has run   *)
(* there before or after, so the written items stay the same.              *)
LEMMA JoinFailGoesOn ==
  ASSUME DatasetInv, JoinFailedWorker, idx' = idx + 1
  PROVE  DatasetInv'
<1>1. /\ pc = "join" /\ idx < miners /\ idx \in noThread /\ pc' = pc /\ thr' = thr
      /\ UNCHANGED <<miners, si, siMem, stMem, inits, built, fault, vm, noThread>>
  <2>1. idx \in Nat
    BY DEF DatasetInv, TypeOK
  <2>2. QED
    BY <2>1, SMT DEF JoinFailedWorker
<1>2. miners \in Miners /\ miners > 1 /\ idx \in 0..miners /\ si = Partition(miners)
  BY <1>1 DEF DatasetInv, CallInv
<1>3. \A t \in Threads : Ran(t)' <=> Ran(t)
  <2> SUFFICES ASSUME NEW t \in Threads PROVE Ran(t)' <=> Ran(t)
    OBVIOUS
  <2>1. CASE t = idx
    BY <1>1, <2>1 DEF Ran
  <2>2. CASE t # idx
    <3>1. t < idx + 1 <=> t < idx
      BY <1>2, <2>2, ThreadsNat, SMT
    <3>2. QED
      BY <1>1, <3>1 DEF Ran
  <2>3. QED
    BY <2>1, <2>2
<1>4. CallInv'
  <2>1. \A x \in Items : Covered(x)' <=> Covered(x)
    <3>1. \A t \in 0..(miners - 1) : t \in Threads
      BY <1>2, SlotInThreads
    <3>2. QED
      BY <1>1, <1>3, <3>1 DEF Covered
  <2>2. idx' \in 0..miners'
    BY <1>1, <1>2, SMT
  <2>3. QED
    BY <1>1, <1>2, <2>1, <2>2 DEF DatasetInv, CallInv
<1>5. JoinInv'
  <2> SUFFICES ASSUME NEW t \in Threads, t < miners
               PROVE  thr[t] # "none" <=> (idx + 1 <= t /\ t \notin noThread)
    BY <1>1 DEF JoinInv
  <2>1. thr[t] # "none" <=> (idx <= t /\ t \notin noThread)
    BY <1>1 DEF DatasetInv, JoinInv
  <2>2. (idx <= t /\ t \notin noThread) <=> (idx + 1 <= t /\ t \notin noThread)
    BY <1>1, <1>2, ThreadsNat, SMT
  <2>3. QED
    BY <2>1, <2>2
<1>6. (TypeOK /\ NoOverlap /\ ThreadsInv /\ SlotsInv /\ SpawnInv /\ BuiltAsStarted)'
  BY <1>1, <1>2, SMT DEF DatasetInv, TypeOK, NoOverlap, ThreadsInv, SlotsInv, SpawnInv,
                         BuiltAsStarted
<1>7. QED
  BY <1>4, <1>5, <1>6 DEF DatasetInv

(* The join on a slot with no thread crashing the process: no worker is  *)
(* left, and no loop of initDataSet is in progress.                        *)
LEMMA JoinFailCrashes ==
  ASSUME DatasetInv, JoinFailedWorker, pc' = "crashed"
  PROVE  DatasetInv'
<1>1. /\ pc = "join" /\ thr' = [t \in Threads |-> "none"]
      /\ UNCHANGED <<miners, si, siMem, stMem, inits, built, fault, vm, noThread>>
  BY DEF JoinFailedWorker
<1>2. idx' \in Nat
  BY <1>1 DEF JoinFailedWorker, DatasetInv, TypeOK
<1>3. TypeOK'
  BY <1>1, <1>2 DEF DatasetInv, TypeOK
<1>4. QED
  BY <1>1, <1>3 DEF DatasetInv, NoOverlap, CallInv, ThreadsInv, SlotsInv, SpawnInv, JoinInv,
                    BuiltAsStarted

(* The join on a slot with no thread blocking for ever: the caller stays  *)
(* at slot i with the same workers, which go on running their ranges.      *)
LEMMA JoinFailHangs ==
  ASSUME DatasetInv, JoinFailedWorker, pc' = "hung"
  PROVE  DatasetInv'
<1>1. /\ pc = "join" /\ idx' = idx /\ thr' = thr
      /\ UNCHANGED <<miners, si, siMem, stMem, inits, built, fault, vm, noThread>>
  BY DEF JoinFailedWorker
<1>2. \A t \in Threads : Ran(t)' <=> Ran(t)
  BY <1>1 DEF Ran
<1>3. \A x \in Items : Covered(x)' <=> Covered(x)
  <2>1. miners \in Miners /\ miners > 1
    BY <1>1 DEF DatasetInv, CallInv
  <2>2. \A t \in 0..(miners - 1) : t \in Threads
    BY <2>1, SlotInThreads
  <2>3. QED
    BY <1>1, <1>2, <2>2 DEF Covered
<1>4. TypeOK'
  BY <1>1 DEF DatasetInv, TypeOK
<1>5. CallInv'
  BY <1>1, <1>3 DEF DatasetInv, CallInv
<1>6. (ThreadsInv /\ SpawnInv /\ JoinInv)'
  BY <1>1 DEF DatasetInv, ThreadsInv, SpawnInv, JoinInv
<1>7. (NoOverlap /\ SlotsInv /\ BuiltAsStarted)'
  BY <1>1 DEF DatasetInv, NoOverlap, SlotsInv, BuiltAsStarted
<1>8. QED
  BY <1>4, <1>5, <1>6, <1>7 DEF DatasetInv

(* initDataSet returns after the join loop: every slot that holds a      *)
(* thread has run, so by PartitionCovers and PartitionDisjoint an item is  *)
(* written once unless the slot owning it had no thread.                   *)
LEMMA ReturnStep ==
  ASSUME DatasetInv, InitDataSetReturn
  PROVE  DatasetInv'
<1>1. /\ pc = "join" /\ idx = miners /\ pc' = "idle"
      /\ siMem' = "none" /\ stMem' = "none" /\ built' = TRUE
      /\ UNCHANGED <<miners, si, thr, idx, inits, fault, vm, noThread>>
  BY DEF InitDataSetReturn
<1>2. /\ miners \in Miners /\ miners > 1 /\ si = Partition(miners)
      /\ \A x \in Items : inits[x] = IF Covered(x) THEN 1 ELSE 0
  BY <1>1 DEF DatasetInv, CallInv
<1>3. miners \in Int
  BY <1>2, PowAssumption
<1>4. \A t \in Threads : thr[t] = "none"
  <2> SUFFICES ASSUME NEW t \in Threads PROVE thr[t] = "none"
    OBVIOUS
  <2>1. CASE t < miners
    <3>1. thr[t] # "none" <=> (miners <= t /\ t \notin noThread)
      BY <1>1, <2>1 DEF DatasetInv, JoinInv
    <3>2. QED
      BY <1>3, <2>1, <3>1, ThreadsNat, SMT
  <2>2. CASE ~(t < miners)
    BY <2>2 DEF DatasetInv, ThreadsInv
  <2>3. QED
    BY <2>1, <2>2
<1>5. ASSUME NEW x \in Items
      PROVE  Covered(x) <=> ~\E f \in noThread : InRange(x, si[f])
  <2>1. x \in Int
    BY DEF Items
  <2>2. noThread \subseteq 0..(miners - 1)
    BY DEF DatasetInv, SlotsInv
  <2>3. ASSUME NEW t \in 0..(miners - 1), Ran(t), InRange(x, si[t]),
               NEW f \in noThread, InRange(x, si[f])
        PROVE  FALSE
    <3>1. t = f
      BY <1>2, <1>3, <2>1, <2>2, <2>3, PartitionDisjoint
    <3>2. t \notin noThread
      BY <1>1, <1>4, <2>3, SlotInThreads, <1>2 DEF Ran
    <3>3. QED
      BY <2>3, <3>1, <3>2
  <2>4. ASSUME ~\E f \in noThread : InRange(x, si[f])
        PROVE  Covered(x)
    <3>1. PICK t \in 0..(miners - 1) : InRange(x, Partition(miners)[t])
      BY <1>2, <1>3, PartitionCovers
    <3>2. t \notin noThread
      BY <1>2, <2>4, <3>1
    <3>3. Ran(t)
      BY <1>1, <1>3, <3>2, SMT DEF Ran
    <3>4. QED
      BY <1>2, <3>1, <3>3 DEF Covered
  <2>5. QED
    BY <2>3, <2>4 DEF Covered
<1>6. BuiltAsStarted'
  BY <1>1, <1>2, <1>5 DEF BuiltAsStarted
<1>7. TypeOK'
  BY <1>1 DEF DatasetInv, TypeOK
<1>8. (NoOverlap /\ SlotsInv)'
  BY <1>1 DEF DatasetInv, NoOverlap, SlotsInv
<1>9. (CallInv /\ ThreadsInv /\ SpawnInv /\ JoinInv)'
  BY <1>1, <1>4 DEF CallInv, ThreadsInv, SpawnInv, JoinInv
<1>10. QED
  BY <1>6, <1>7, <1>8, <1>9 DEF DatasetInv

(* Every step of the model keeps DatasetInv.                              *)
LEMMA InvNext == DatasetInv /\ [Next]_vars => DatasetInv'
<1> SUFFICES ASSUME DatasetInv, [Next]_vars PROVE DatasetInv'
  OBVIOUS
<1>1. CASE \E j \in Miners : InitDataSetSingle(j)
  BY <1>1, SingleStep
<1>2. CASE \E j \in Miners : InitDataSetParallel(j)
  BY <1>2, ParallelStep
<1>3. CASE SpawnWorker
  BY <1>3, SpawnStep
<1>4. CASE SpawnWorkerFailed
  BY <1>4, SpawnFailStep
<1>5. CASE SpawnDone
  BY <1>5, SpawnDoneStep
<1>6. CASE JoinWorker
  BY <1>6, JoinStep
<1>7. CASE JoinFailedWorker
  <2>1. idx' = idx + 1 \/ pc' = "hung" \/ pc' = "crashed"
    BY <1>7 DEF JoinFailedWorker
  <2>2. QED
    BY <1>7, <2>1, JoinFailGoesOn, JoinFailHangs, JoinFailCrashes
<1>8. CASE InitDataSetReturn
  BY <1>8, ReturnStep
<1>9. CASE \E t \in Threads : SeedThread(t)
  BY <1>9, SeedStep
<1>10. CASE (\E ok \in SUBSET VmFlagSets : CreateVm(ok)) \/ DestroyVm \/ UNCHANGED vars
  BY <1>10, VmStep
<1>11. QED
  BY <1>1, <1>2, <1>3, <1>4, <1>5, <1>6, <1>7, <1>8, <1>9, <1>10 DEF Next, CallerStep

(* Where thread creation cannot fail, noThread stays empty: only the     *)
(* failing turn of the spawn loop adds to it.                              *)
LEMMA StartedNext == AllStarted /\ [Next]_vars => AllStarted'
<1> SUFFICES ASSUME AllStarted, [Next]_vars, "fail" \notin SpawnResults
             PROVE  noThread' = {}
  BY DEF AllStarted
<1>1. noThread = {}
  BY DEF AllStarted
<1>2. ~SpawnWorkerFailed
  BY DEF SpawnWorkerFailed
<1>3. QED
  BY <1>1, <1>2 DEF Next, CallerStep, vars, InitDataSetSingle, InitDataSetParallel,
       SpawnWorker, SpawnDone, JoinWorker, JoinFailedWorker, InitDataSetReturn, SeedThread,
       CreateVm, DestroyVm

(* The invariant holds in every reachable state of initDataSet and        *)
(* createVm, whatever the item count, the jminers values and the outcomes  *)
(* of malloc and thread creation.                                          *)
THEOREM DatasetSafe == Spec => []DatasetInv
BY InvInit, InvNext, PTL DEF Spec

(* Every reachable state is well typed: in particular the count handed to *)
(* the last worker, item_count - (jminers - 1) * delta, never wraps below  *)
(* zero as an unsigned long, for every item count and every jminers.       *)
THEOREM TypeCorrect == Spec => []TypeOK
BY DatasetSafe, PTL DEF DatasetInv

(* No dataset item is written twice in one initDataSet call, for every    *)
(* item count and every jminers: the seedinfo ranges are disjoint.         *)
THEOREM NoOverlapThm == Spec => []NoOverlap
BY DatasetSafe, PTL DEF DatasetInv

(* When initDataSet returns, an item is unwritten exactly when the slot  *)
(* owning it failed to start a thread, and written once otherwise, for     *)
(* every item count, every jminers and every pattern of failed creates.    *)
THEOREM BuiltAsStartedThm == Spec => []BuiltAsStarted
BY DatasetSafe, PTL DEF DatasetInv

(* Where CTHR_THREAD_CREATE never fails, initDataSet returns with every   *)
(* dataset item written exactly once, for every item count and jminers.    *)
THEOREM BuiltCompleteThm ==
  ASSUME "fail" \notin SpawnResults
  PROVE  Spec => []BuiltComplete
<1>1. Init => AllStarted
  BY DEF Init, AllStarted
<1>2. Spec => []AllStarted
  BY <1>1, StartedNext, PTL DEF Spec
<1>3. DatasetInv /\ AllStarted => BuiltComplete
  BY DEF DatasetInv, AllStarted, BuiltAsStarted, BuiltComplete
<1>4. QED
  BY DatasetSafe, <1>2, <1>3, PTL
====
