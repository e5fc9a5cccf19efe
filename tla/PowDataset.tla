----------------------------- MODULE PowDataset -----------------------------
(***************************************************************************)
(* The proof-of-work dataset bootstrap of                                  *)
(* src/src/c/randomx/src/randomx_jni.cpp: initDataSet splits the dataset   *)
(* items among jminers worker threads (rx_seedthread), starts them and     *)
(* joins them; createVm tries three flag sets in turn.  The caller of      *)
(* initDataSet and each worker are separate actors; the body of            *)
(* randomx_init_dataset over one range is one step of its worker, since    *)
(* the ranges are meant to be disjoint and nothing else touches them.      *)
(* The malloc results of the two bookkeeping arrays and the result of     *)
(* each CTHR_THREAD_CREATE are inputs.                                      *)
(***************************************************************************)
EXTENDS Integers

CONSTANTS
  ItemCount,     \* randomx_dataset_item_count()
  Miners,        \* jminers values the Java side passes to initDataSet
  AllocResults,  \* outcomes of malloc: "ok", and "null" where it may fail
  VmFlagSets,    \* flag sets randomx_create_vm succeeds with on this host
  SpawnResults   \* outcomes of CTHR_THREAD_CREATE: "ok", and "fail" where it may fail

ASSUME PowAssumption ==
  /\ ItemCount \in Nat
  /\ Miners \subseteq Int
  /\ AllocResults \subseteq {"ok", "null"} /\ "ok" \in AllocResults
  /\ VmFlagSets \subseteq {"large", "host", "default"}
  /\ SpawnResults \subseteq {"ok", "fail"} /\ "ok" \in SpawnResults

VARIABLES
  pc,        \* where the initDataSet caller is: idle, spawn, join, hung, crashed
  miners,    \* jminers of the call in progress
  si,        \* seedinfo array: thread -> [start, count]
  siMem,     \* state of the si block: none, ok, null, freed
  stMem,     \* state of the st block: none, ok, null
  thr,       \* worker thread -> none, running, done
  idx,       \* loop index i of the spawn and join loops
  inits,     \* dataset item -> times randomx_init_dataset wrote it this call
  built,     \* an initDataSet call has returned
  fault,     \* the caller wrote through a null or freed pointer
  vm,        \* result of the last createVm: none, a flag set, or "null"
  noThread   \* st slots of this call whose CTHR_THREAD_CREATE failed

vars == <<pc, miners, si, siMem, stMem, thr, idx, inits, built, fault, vm, noThread>>

-----------------------------------------------------------------------------
Items == 0..(ItemCount - 1)
(* Thread slots st[0..jminers-1] over every jminers the caller passes.    *)
Threads == UNION {0..(m - 1) : m \in Miners}

(* Mutant: start is not advanced after each share.                        *)
PartitionNoAdvance(j) ==
  LET delta == ItemCount \div j
  IN  [i \in 0..(j - 1) |->
         IF i < j - 1
           THEN [start |-> 0, count |-> delta]
           ELSE [start |-> 0, count |-> ItemCount - (j - 1) * delta]]

(* Mutant: the last thread gets delta items too, dropping the remainder.  *)
PartitionNoRemainder(j) ==
  LET delta == ItemCount \div j
  IN  [i \in 0..(j - 1) |-> [start |-> i * delta, count |-> delta]]

(* Mutant: delta rounded up instead of down.                              *)
PartitionRoundUp(j) ==
  LET delta == (ItemCount + j - 1) \div j
  IN  [i \in 0..(j - 1) |->
         IF i < j - 1
           THEN [start |-> i * delta, count |-> delta]
           ELSE [start |-> (j - 1) * delta, count |-> ItemCount - (j - 1) * delta]]

(* The seedinfo entries: equal shares of delta items for threads 0..j-2,   *)
(* the rest of the items for the last thread.                              *)
Partition(j) ==
  LET delta == ItemCount \div j
  IN  [i \in 0..(j - 1) |->
         IF i < j - 1
           THEN [start |-> i * delta, count |-> delta]
           ELSE [start |-> (j - 1) * delta, count |-> ItemCount - (j - 1) * delta]]

InRange(x, r) == r.start <= x /\ x < r.start + r.count

(* randomx_init_dataset(dataset, cache, start, count) over one range.      *)
InitRange(r) == [x \in Items |-> IF InRange(x, r) THEN inits[x] + 1 ELSE inits[x]]

-----------------------------------------------------------------------------
Init ==
  /\ pc = "idle"
  /\ miners = 0
  /\ si = [i \in {} |-> [start |-> 0, count |-> 0]]
  /\ siMem = "none"
  /\ stMem = "none"
  /\ thr = [t \in Threads |-> "none"]
  /\ idx = 0
  /\ inits = [x \in Items |-> 0]
  /\ built = FALSE
  /\ fault = FALSE
  /\ vm = "none"
  /\ noThread = {}

(* initDataSet(cache, dataset, jminers) with jminers <= 1: the whole range *)
(* on the calling thread.                                                  *)
InitDataSetSingle(j) ==
  /\ pc = "idle"
  /\ j <= 1
  /\ inits' = [x \in Items |-> 1]
  /\ built' = TRUE
  /\ noThread' = {}
  /\ UNCHANGED <<pc, miners, si, siMem, stMem, thr, idx, fault, vm>>

(* initDataSet with jminers > 1, up to the spawn loop: malloc si (a NULL   *)
(* is only reported), malloc st (a NULL frees si and is only reported),    *)
(* then fill si[0..jminers-1].  Filling through a NULL or freed si, or     *)
(* creating threads into a NULL st, is undefined: the call crashes.        *)
InitDataSetParallel(j) ==
  /\ pc = "idle"
  /\ j > 1
  /\ \E sa, ta \in AllocResults :
       LET siState == IF sa = "null" THEN "null"
                      ELSE IF ta = "null" THEN "freed" ELSE "ok"
           broken  == sa = "null" \/ ta = "null"
       IN  /\ siMem' = siState
           /\ stMem' = ta
           /\ fault' = broken
           /\ pc' = IF broken THEN "crashed" ELSE "spawn"
  /\ miners' = j
  /\ si' = Partition(j)
  /\ idx' = 0
  /\ inits' = [x \in Items |-> 0]
  /\ noThread' = {}
  /\ UNCHANGED <<thr, built, vm>>

(* Mutant: the spawn loop stops one thread short (i < jminers - 1).       *)
SpawnDoneEarly ==
  /\ pc = "spawn"
  /\ idx = miners - 1
  /\ pc' = "join"
  /\ idx' = 0
  /\ UNCHANGED <<miners, si, siMem, stMem, thr, inits, built, fault, vm, noThread>>

(* for (i = 0; i < jminers; i++) CTHR_THREAD_CREATE(st[i], rx_seedthread, &si[i]); *)
SpawnWorker ==
  /\ pc = "spawn"
  /\ idx < miners
  /\ thr' = [thr EXCEPT ![idx] = "running"]
  /\ idx' = idx + 1
  /\ UNCHANGED <<pc, miners, si, siMem, stMem, inits, built, fault, vm, noThread>>

(* The same turn when CTHR_THREAD_CREATE fails: its result is not       *)
(* checked, no worker runs range i, and st[i] holds no thread.             *)
SpawnWorkerFailed ==
  /\ pc = "spawn"
  /\ idx < miners
  /\ "fail" \in SpawnResults
  /\ noThread' = noThread \cup {idx}
  /\ idx' = idx + 1
  /\ UNCHANGED <<pc, miners, si, siMem, stMem, thr, inits, built, fault, vm>>

SpawnDone ==
  /\ pc = "spawn"
  /\ idx = miners
  /\ pc' = "join"
  /\ idx' = 0
  /\ UNCHANGED <<miners, si, siMem, stMem, thr, inits, built, fault, vm, noThread>>

(* rx_seedthread(&si[t]): randomx_init_dataset over its own range.         *)
SeedThread(t) ==
  /\ thr[t] = "running"
  /\ inits' = InitRange(si[t])
  /\ thr' = [thr EXCEPT ![t] = "done"]
  /\ UNCHANGED <<pc, miners, si, siMem, stMem, idx, built, fault, vm, noThread>>

(* for (i = 0; i < jminers; i++) CTHR_THREAD_JOIN(st[i]); blocks on i.     *)
JoinWorker ==
  /\ pc = "join"
  /\ idx < miners
  /\ thr[idx] = "done"
  /\ thr' = [thr EXCEPT ![idx] = "none"]
  /\ idx' = idx + 1
  /\ UNCHANGED <<pc, miners, si, siMem, stMem, inits, built, fault, vm, noThread>>

(* CTHR_THREAD_JOIN on a slot that holds no thread: st[i] is whatever    *)
(* malloc left there (or the -1 of a failed _beginthread).  The join fails *)
(* at once and the loop goes on; or it waits on whatever thread that value *)
(* names and the caller blocks forever ("hung"), its other workers still  *)
(* running; or the process crashes and its workers with it.                *)
JoinFailedWorker ==
  /\ pc = "join"
  /\ idx < miners
  /\ idx \in noThread
  /\ \/ idx' = idx + 1 /\ pc' = pc /\ thr' = thr
     \/ pc' = "hung" /\ idx' = idx /\ thr' = thr
     \/ pc' = "crashed" /\ idx' = idx /\ thr' = [t \in Threads |-> "none"]
  /\ UNCHANGED <<miners, si, siMem, stMem, inits, built, fault, vm, noThread>>

(* free(st); free(si); return.                                             *)
InitDataSetReturn ==
  /\ pc = "join"
  /\ idx = miners
  /\ pc' = "idle"
  /\ siMem' = "none"
  /\ stMem' = "none"
  /\ built' = TRUE
  /\ UNCHANGED <<miners, si, thr, idx, inits, fault, vm, noThread>>

(* createVm: large pages first, then the host flags, then the default      *)
(* flags; 0 ("null") when all three fail.  Any Java thread may call it,   *)
(* whatever initDataSet is doing.                                          *)
VmAttempts == <<"large", "host", "default">>

CreateVm(ok) ==
  /\ vm' = IF \E a \in 1..3 : VmAttempts[a] \in ok
             THEN VmAttempts[CHOOSE a \in 1..3 :
                               VmAttempts[a] \in ok /\ \A b \in 1..(a - 1) : VmAttempts[b] \notin ok]
             ELSE "null"
  /\ UNCHANGED <<pc, miners, si, siMem, stMem, thr, idx, inits, built, fault, noThread>>

DestroyVm ==
  /\ vm \notin {"none", "null"}
  /\ vm' = "none"
  /\ UNCHANGED <<pc, miners, si, siMem, stMem, thr, idx, inits, built, fault, noThread>>

CallerStep ==
  \/ SpawnWorker \/ SpawnWorkerFailed \/ SpawnDone
  \/ JoinWorker \/ JoinFailedWorker \/ InitDataSetReturn

Next ==
  \/ \E j \in Miners : InitDataSetSingle(j) \/ InitDataSetParallel(j)
  \/ CallerStep
  \/ \E t \in Threads : SeedThread(t)
  \/ \E ok \in SUBSET VmFlagSets : CreateVm(ok)
  \/ DestroyVm

(* The OS schedules every started thread, the caller included: a runnable *)
(* thread eventually takes its next step.                                  *)
Spec ==
  /\ Init /\ [][Next]_vars
  /\ WF_vars(CallerStep)
  /\ \A t \in Threads : WF_vars(SeedThread(t))

-----------------------------------------------------------------------------
(* Types, where si_start and si_count are unsigned long: the count handed *)
(* to the last worker, ItemCount - (jminers - 1) * delta, never wraps.     *)
TypeOK ==
  /\ pc \in {"idle", "spawn", "join", "hung", "crashed"}
  /\ miners \in {0} \cup Miners
  /\ si \in [0..(miners - 1) -> [start : Nat, count : Nat]]
  /\ siMem \in {"none", "ok", "null", "freed"}
  /\ stMem \in {"none", "ok", "null"}
  /\ thr \in [Threads -> {"none", "running", "done"}]
  /\ idx \in Nat
  /\ inits \in [Items -> Nat]
  /\ built \in BOOLEAN
  /\ fault \in BOOLEAN
  /\ vm \in {"none", "null", "large", "host", "default"}
  /\ noThread \subseteq Threads

(* No dataset item is written by two workers of one initDataSet call: the *)
(* seedinfo ranges computed from delta and start are disjoint.             *)
NoOverlap == \A x \in Items : inits[x] <= 1

(* When initDataSet has returned, every dataset item has been initialised *)
(* exactly once in that call: the joins waited for every worker, and the   *)
(* last worker's remainder closes the gap left by the integer division.    *)
BuiltComplete ==
  (pc = "idle" /\ built) => \A x \in Items : inits[x] = 1

(* When initDataSet returns after some CTHR_THREAD_CREATE failed, the    *)
(* damage is confined to the ranges of the slots with no thread: those     *)
(* items are left unwritten and every other item is written exactly once.  *)
BuiltAsStarted ==
  (pc = "idle" /\ built) =>
     \A x \in Items :
        inits[x] = IF \E t \in noThread : InRange(x, si[t]) THEN 0 ELSE 1

(* A call whose CTHR_THREAD_CREATE calls all succeeded returns: once the *)
(* spawn loop is over with every slot holding a thread, the join loop,    *)
(* which waits on st[0], st[1], ... in that order, reaps every worker and  *)
(* initDataSet returns.  (A failed slot may block the join for ever.)      *)
DataSetCallReturns == (pc = "join" /\ noThread = {}) ~> (pc = "idle")

(* Every initDataSet call ends once its threads are being started: it     *)
(* returns, or the build fails (here: the process dies).  The spec (7)     *)
(* makes a thread that cannot be created fatal to the build; the join on   *)
(* the slot it left unset (line 124) must not block for ever.              *)
DataSetCallEnds == (pc \in {"spawn", "join"}) ~> (pc \in {"idle", "crashed"})

(* Inductive strengthening of NoOverlap and BuiltAsStarted.  A worker    *)
(* has run when it is done, or joined already and started at all; during  *)
(* a call each item has been written once if a worker that has run owns    *)
(* it, else not at all.                                                    *)
Ran(t) == thr[t] = "done" \/ (pc \in {"join", "hung"} /\ t < idx /\ t \notin noThread)

Covered(x) == \E t \in 0..(miners - 1) : Ran(t) /\ InRange(x, si[t])

(* While a call is between its spawn loop and its return, its seedinfo   *)
(* is the partition of its jminers and the items written are the ones a    *)
(* worker that has run owns.                                               *)
CallInv ==
  pc \in {"spawn", "join", "hung"} =>
     /\ miners \in Miners /\ miners > 1
     /\ si = Partition(miners)
     /\ idx \in 0..miners
     /\ \A x \in Items : inits[x] = IF Covered(x) THEN 1 ELSE 0

(* Only the workers of the call in progress exist: the spawn loop has     *)
(* tried exactly the slots below i, each of which holds a thread or is in  *)
(* noThread, and the join loop has reaped them.                            *)
ThreadsInv == \A t \in Threads : thr[t] # "none" => pc \in {"spawn", "join", "hung"} /\ t < miners
SlotsInv == noThread \subseteq 0..(miners - 1)
SpawnInv ==
  pc = "spawn" =>
     \A t \in Threads : /\ (thr[t] # "none" \/ t \in noThread) <=> t < idx
                        /\ ~(thr[t] # "none" /\ t \in noThread)
JoinInv ==
  pc \in {"join", "hung"} =>
     \A t \in Threads : t < miners => (thr[t] # "none" <=> (idx <= t /\ t \notin noThread))

DatasetInv ==
  /\ TypeOK /\ NoOverlap /\ CallInv /\ ThreadsInv /\ SlotsInv /\ SpawnInv /\ JoinInv
  /\ BuiltAsStarted

(* Where CTHR_THREAD_CREATE cannot fail, no slot is ever without a thread. *)
AllStarted == "fail" \notin SpawnResults => noThread = {}

(* A failed malloc of the seedinfo or thread arrays is never written      *)
(* through (the spec: a failed allocation fails the build).                *)
AllocFailureNotUsed == ~fault
=============================================================================
