---------------------------- MODULE MumuleProofs ----------------------------
(***************************************************************************)
(* Proofs about the thread pool, for every finite set of workers and every *)
(* bound on the queue: the invariant of MumuleInv is inductive, it implies *)
(* the safety properties that TLC checks on small instances, and the pool  *)
(* implements WorkPool.                                                    *)
(*                                                                         *)
(* One lemma shows that a step preserves one conjunct of the invariant; in *)
(* it the actions are taken in five groups, the loop of the workers and    *)
(* the calls of the dispatcher.                                            *)
(***************************************************************************)
EXTENDS MumuleInv, FiniteSetTheorems, TLAPS

StartStep ==
    \/ Start
    \/ StartRunning
    \/ StartStopped
    \/ \E w \in Workers : CreateThread(w)
    \/ StartReturn

StopStep ==
    \/ Stop
    \/ StopCheck
    \/ StopBroadcast
    \/ \E w \in Workers : JoinThread(w)
    \/ Joined
    \/ StopReturn

SubmitStep == Submit \/ SubmitBroadcast

SyncStep ==
    \/ Sync
    \/ SyncBroadcast
    \/ SyncLock
    \/ SyncLoadQueued
    \/ SyncUnfinished
    \/ SyncWait
    \/ SyncTimeout
    \/ SyncQuenched
    \/ SyncReturn

ResetStep ==
    \/ ResetQueued
    \/ ResetProcessing
    \/ ResetProcessed
    \/ ResetReturn

WorkerStep == \E w \in Workers : Worker(w)

LEMMA NextSplit ==
    ASSUME [Next]_vars
    PROVE  \/ WorkerStep
           \/ StartStep
           \/ StopStep
           \/ SubmitStep
           \/ SyncStep
           \/ ResetStep
           \/ UNCHANGED vars
BY DEF Next, InCall, WorkerStep, StartStep, StopStep, SubmitStep, SyncStep,
       ResetStep, Terminated

USE DEF counters, locals, client, Goto, DGoto, Acquire, Release, Allowed,
        WorkersWoken, DispatcherWoken

-----------------------------------------------------------------------------
(* Type correctness *)

LEMMA TypeInit == Init => TypeOK
<1> SUFFICES ASSUME Init PROVE TypeOK
  OBVIOUS
<1>1. mutex \in Workers \union {Dispatcher, Nobody} BY DEF Init
<1>2. queued \in 0..MaxQueued BY MaxQueuedAssumption DEF Init
<1>3. pc \in [Workers -> WorkerPC] BY DEF Init, WorkerPC
<1>4. dpc \in DispatcherPC BY DEF Init, DispatcherPC
<1>5. my_queued \in [Workers -> Nat] BY DEF Init
<1> QED BY <1>1, <1>2, <1>3, <1>4, <1>5 DEF Init, TypeOK

\* The count of the threads is a natural number because AliveInv says what it
\* counts.
LEMMA AliveNat ==
    ASSUME AliveInv
    PROVE  IsFiniteSet(Alive) /\ threads_running \in Nat
BY WorkersAssumption, FS_Subset, FS_CardinalityType DEF AliveInv, Alive

\* TypeOK but for the count of the threads.
ValuesOK ==
    /\ mutex \in Workers \union {Dispatcher, Nobody} /\ running \in BOOLEAN
    /\ queued \in 0..MaxQueued /\ processing \in Nat /\ processed \in Nat
    /\ pc \in [Workers -> WorkerPC]
    /\ my_queued \in [Workers -> Nat] /\ my_processing \in [Workers -> Nat]
    /\ dpc \in DispatcherPC
    /\ call \in {"none", "sync", "reset", "stop", "destroy"}
    /\ sync_queued \in Nat
    /\ done \subseteq Nat

LEMMA TypeWorker ==
    ASSUME TypeOK, NEW w \in Workers, Worker(w)
    PROVE  ValuesOK'
<1> USE DEF Worker, WorkerStart, LoadQueued, LoadProcessing, Claim,
            ClaimFailed, Kernel, CountProcessed, SignalDispatcher, WorkerLock,
            CheckRunning, WorkerTimeout, WorkerRelock, WorkerExit
<1>1. (mutex \in Workers \union {Dispatcher, Nobody} /\ running \in BOOLEAN)'
  BY DEF TypeOK
<1>2. (queued \in 0..MaxQueued /\ processing \in Nat /\ processed \in Nat)'
  BY DEF TypeOK
<1>3. (pc \in [Workers -> WorkerPC])'
  BY DEF TypeOK, WorkerPC
<1>4. (my_queued \in [Workers -> Nat] /\ my_processing \in [Workers -> Nat])'
  BY DEF TypeOK
<1>5. (dpc \in DispatcherPC)' /\ UNCHANGED <<call, sync_queued>>
  BY DEF TypeOK, DispatcherPC, SyncPC
<1>6. (done \subseteq Nat)'
  <2>1. my_processing[w] + 1 \in Nat BY DEF TypeOK
  <2>2. done' \in {done, done \union {my_processing[w] + 1}} OBVIOUS
  <2> QED BY <2>1, <2>2, Zenon DEF TypeOK
<1> QED
  BY <1>1, <1>2, <1>3, <1>4, <1>5, <1>6 DEF TypeOK, ValuesOK

LEMMA TypeCall ==
    ASSUME TypeOK, StartStep \/ StopStep \/ SubmitStep \/ SyncStep \/ ResetStep
    PROVE  ValuesOK'
<1> USE DEF StartStep, Start, StartRunning, StartStopped, CreateThread,
            StartReturn, StopStep, Stop, StopCheck, StopBroadcast, JoinThread,
            Joined, StopReturn, SubmitStep, Submit, SubmitBroadcast
<1> USE DEF SyncStep, Sync, SyncBroadcast, SyncLock, SyncLoadQueued,
SyncUnfinished, SyncWait,
            SyncTimeout, SyncQuenched, SyncReturn, ResetStep, ResetQueued,
            ResetProcessing, ResetProcessed, ResetReturn
<1>1. (mutex \in Workers \union {Dispatcher, Nobody} /\ running \in BOOLEAN)'
  BY DEF TypeOK
<1>2. (queued \in 0..MaxQueued /\ processing \in Nat /\ processed \in Nat)'
  BY MaxQueuedAssumption DEF TypeOK
<1>3. (pc \in [Workers -> WorkerPC])' /\ UNCHANGED locals
  BY DEF TypeOK, WorkerPC
<1>4. (dpc \in DispatcherPC)'
  BY DEF TypeOK, DispatcherPC, SyncPC, ResetPC, StartPC, StopPC
<1>5. (/\ call \in {"none", "sync", "reset", "stop", "destroy"}
       /\ sync_queued \in Nat)'
  BY DEF TypeOK
<1>6. done' \in {done, {}}
  OBVIOUS
<1> QED
  BY <1>1, <1>2, <1>3, <1>4, <1>5, <1>6 DEF TypeOK, ValuesOK

LEMMA TypeStep ==
    ASSUME TypeOK, AliveInv', [Next]_vars
    PROVE  TypeOK'
<1>1. (threads_running \in Nat)'
  BY WorkersAssumption, FS_Subset, FS_CardinalityType DEF AliveInv, Alive
<1>2. ValuesOK'
  <2>1. CASE UNCHANGED vars BY <2>1 DEF vars, TypeOK, ValuesOK
  <2> QED BY <2>1, NextSplit, TypeWorker, TypeCall DEF WorkerStep
<1> QED BY <1>1, <1>2 DEF TypeOK, ValuesOK
-----------------------------------------------------------------------------
(* The conjuncts of the invariant that follow from control alone *)

\* A thread that enters a critical section found the mutex free.
LEMMA MutexStep ==
    ASSUME TypeOK, MutexInv, [Next]_vars
    PROVE  MutexInv'
<1> USE DEF TypeOK, MutexInv, LockedPC, Dispatcher, Nobody
<1>1. ASSUME NEW w \in Workers, Worker(w)
      PROVE  MutexInv'
  BY <1>1, NamesAssumption
     DEF Worker, WorkerStart, LoadQueued, LoadProcessing, Claim, ClaimFailed,
         Kernel, CountProcessed, SignalDispatcher, WorkerLock, CheckRunning,
         WorkerTimeout, WorkerRelock, WorkerExit
<1>2. CASE StartStep
  BY <1>2, NamesAssumption
     DEF StartStep, Start, StartRunning, StartStopped, CreateThread,
         StartReturn
<1>3. CASE StopStep
  BY <1>3, NamesAssumption
     DEF StopStep, Stop, StopCheck, StopBroadcast, JoinThread, Joined,
         StopReturn
<1>4. CASE SubmitStep
  BY <1>4, NamesAssumption DEF SubmitStep, Submit, SubmitBroadcast
<1>5. CASE SyncStep
  BY <1>5, NamesAssumption
     DEF SyncStep, Sync, SyncBroadcast, SyncLock, SyncLoadQueued,
         SyncUnfinished, SyncWait,
         SyncTimeout, SyncQuenched, SyncReturn
<1>6. CASE ResetStep
  BY <1>6, NamesAssumption
     DEF ResetStep, ResetQueued, ResetProcessing, ResetProcessed, ResetReturn
<1>7. CASE UNCHANGED vars
  BY <1>7 DEF vars
<1> QED
  BY <1>1, <1>2, <1>3, <1>4, <1>5, <1>6, <1>7, NextSplit DEF WorkerStep

LEMMA CallStep ==
    ASSUME TypeOK, Disciplined, CallInv, [Next]_vars
    PROVE  CallInv'
<1> USE DEF TypeOK, Disciplined, CallInv, SyncPC, ResetPC, StopPC
<1>1. ASSUME NEW w \in Workers, Worker(w)
      PROVE  CallInv'
  BY <1>1
     DEF Worker, WorkerStart, LoadQueued, LoadProcessing, Claim, ClaimFailed,
         Kernel, CountProcessed, SignalDispatcher, WorkerLock, CheckRunning,
         WorkerTimeout, WorkerRelock, WorkerExit
<1>2. CASE StartStep
  BY <1>2
     DEF StartStep, Start, StartRunning, StartStopped, CreateThread,
         StartReturn
<1>3. CASE StopStep
  BY <1>3
     DEF StopStep, Stop, StopCheck, StopBroadcast, JoinThread, Joined,
         StopReturn
<1>4. CASE SubmitStep
  BY <1>4 DEF SubmitStep, Submit, SubmitBroadcast
<1>5. CASE SyncStep
  BY <1>5
     DEF SyncStep, Sync, SyncBroadcast, SyncLock, SyncLoadQueued,
         SyncUnfinished, SyncWait,
         SyncTimeout, SyncQuenched, SyncReturn
<1>6. CASE ResetStep
  BY <1>6
     DEF ResetStep, ResetQueued, ResetProcessing, ResetProcessed, ResetReturn
<1>7. CASE UNCHANGED vars
  BY <1>7 DEF vars
<1> QED
  BY <1>1, <1>2, <1>3, <1>4, <1>5, <1>6, <1>7, NextSplit DEF WorkerStep

LEMMA ThreadStep ==
    ASSUME TypeOK, CallInv, ThreadInv, [Next]_vars
    PROVE  ThreadInv'
<1> USE DEF TypeOK, CallInv, ThreadInv, SyncPC, ResetPC, StopPC
<1>1. ASSUME NEW w \in Workers, Worker(w)
      PROVE  ThreadInv'
  BY <1>1
     DEF Worker, WorkerStart, LoadQueued, LoadProcessing, Claim, ClaimFailed,
         Kernel, CountProcessed, SignalDispatcher, WorkerLock, CheckRunning,
         WorkerTimeout, WorkerRelock, WorkerExit
<1>2. CASE StartStep
  BY <1>2
     DEF StartStep, Start, StartRunning, StartStopped, CreateThread,
         StartReturn
<1>3. CASE StopStep
  BY <1>3
     DEF StopStep, Stop, StopCheck, StopBroadcast, JoinThread, Joined,
         StopReturn
<1>4. CASE SubmitStep
  BY <1>4 DEF SubmitStep, Submit, SubmitBroadcast
<1>5. CASE SyncStep
  BY <1>5
     DEF SyncStep, Sync, SyncBroadcast, SyncLock, SyncLoadQueued,
         SyncUnfinished, SyncWait,
         SyncTimeout, SyncQuenched, SyncReturn
<1>6. CASE ResetStep
  BY <1>6
     DEF ResetStep, ResetQueued, ResetProcessing, ResetProcessed, ResetReturn
<1>7. CASE UNCHANGED vars
  BY <1>7 DEF vars
<1> QED
  BY <1>1, <1>2, <1>3, <1>4, <1>5, <1>6, <1>7, NextSplit DEF WorkerStep

\* While mule_reset stores to the counters there is no worker to move them.
LEMMA ResetInvStep ==
    ASSUME TypeOK, CallInv, ThreadInv, ResetInv, [Next]_vars
    PROVE  ResetInv'
<1> USE DEF TypeOK, CallInv, ThreadInv, ResetInv, SyncPC, ResetPC, StopPC
<1>1. ASSUME NEW w \in Workers, Worker(w)
      PROVE  ResetInv'
  BY <1>1
     DEF Worker, WorkerStart, LoadQueued, LoadProcessing, Claim, ClaimFailed,
         Kernel, CountProcessed, SignalDispatcher, WorkerLock, CheckRunning,
         WorkerTimeout, WorkerRelock, WorkerExit
<1>2. CASE StartStep
  BY <1>2
     DEF StartStep, Start, StartRunning, StartStopped, CreateThread,
         StartReturn
<1>3. CASE StopStep
  BY <1>3
     DEF StopStep, Stop, StopCheck, StopBroadcast, JoinThread, Joined,
         StopReturn
<1>4. CASE SubmitStep
  BY <1>4 DEF SubmitStep, Submit, SubmitBroadcast
<1>5. CASE SyncStep
  BY <1>5
     DEF SyncStep, Sync, SyncBroadcast, SyncLock, SyncLoadQueued,
         SyncUnfinished, SyncWait,
         SyncTimeout, SyncQuenched, SyncReturn
<1>6. CASE ResetStep
  BY <1>6
     DEF ResetStep, ResetQueued, ResetProcessing, ResetProcessed, ResetReturn
<1>7. CASE UNCHANGED vars
  BY <1>7 DEF vars
<1> QED
  BY <1>1, <1>2, <1>3, <1>4, <1>5, <1>6, <1>7, NextSplit DEF WorkerStep

-----------------------------------------------------------------------------
(* The conjuncts about the items *)

\* Another worker's claim stays within the `queued' this worker has seen: with
\* two workers both have seen the same, by BatchInv.
LEMMA LocalStep ==
    ASSUME TypeOK, Disciplined, CallInv, ThreadInv, ResetInv, LocalInv,
           BatchInv, [Next]_vars
    PROVE  LocalInv'
<1> USE DEF TypeOK, Disciplined, CallInv, ThreadInv, ResetInv, LocalInv,
BatchInv,
            SyncPC, ResetPC, StopPC
<1>1. ASSUME NEW w \in Workers, Worker(w)
      PROVE  LocalInv'
  BY <1>1
     DEF Worker, WorkerStart, LoadQueued, LoadProcessing, Claim, ClaimFailed,
         Kernel, CountProcessed, SignalDispatcher, WorkerLock, CheckRunning,
         WorkerTimeout, WorkerRelock, WorkerExit
<1>2. CASE StartStep
  BY <1>2
     DEF StartStep, Start, StartRunning, StartStopped, CreateThread,
         StartReturn
<1>3. CASE StopStep
  BY <1>3
     DEF StopStep, Stop, StopCheck, StopBroadcast, JoinThread, Joined,
         StopReturn
<1>4. CASE SubmitStep
  BY <1>4 DEF SubmitStep, Submit, SubmitBroadcast
<1>5. CASE SyncStep
  BY <1>5
     DEF SyncStep, Sync, SyncBroadcast, SyncLock, SyncLoadQueued,
         SyncUnfinished, SyncWait,
         SyncTimeout, SyncQuenched, SyncReturn
<1>6. CASE ResetStep
  BY <1>6
     DEF ResetStep, ResetQueued, ResetProcessing, ResetProcessed, ResetReturn
<1>7. CASE UNCHANGED vars
  BY <1>7 DEF vars
<1> QED
  BY <1>1, <1>2, <1>3, <1>4, <1>5, <1>6, <1>7, NextSplit DEF WorkerStep

LEMMA BatchStep ==
    ASSUME TypeOK, CallInv, ThreadInv, ResetInv, BatchInv, [Next]_vars
    PROVE  BatchInv'
<1> USE DEF TypeOK, CallInv, ThreadInv, ResetInv, BatchInv, SyncPC, ResetPC,
            StopPC
<1>1. ASSUME NEW w \in Workers, Worker(w)
      PROVE  BatchInv'
  BY <1>1
     DEF Worker, WorkerStart, LoadQueued, LoadProcessing, Claim, ClaimFailed,
         Kernel, CountProcessed, SignalDispatcher, WorkerLock, CheckRunning,
         WorkerTimeout, WorkerRelock, WorkerExit
<1>2. CASE StartStep
  BY <1>2
     DEF StartStep, Start, StartRunning, StartStopped, CreateThread,
         StartReturn
<1>3. CASE StopStep
  BY <1>3
     DEF StopStep, Stop, StopCheck, StopBroadcast, JoinThread, Joined,
         StopReturn
<1>4. CASE SubmitStep
  BY <1>4 DEF SubmitStep, Submit, SubmitBroadcast
<1>5. CASE SyncStep
  BY <1>5
     DEF SyncStep, Sync, SyncBroadcast, SyncLock, SyncLoadQueued,
         SyncUnfinished, SyncWait,
         SyncTimeout, SyncQuenched, SyncReturn
<1>6. CASE ResetStep
  BY <1>6
     DEF ResetStep, ResetQueued, ResetProcessing, ResetProcessed, ResetReturn
<1>7. CASE UNCHANGED vars
  BY <1>7 DEF vars
<1> QED
  BY <1>1, <1>2, <1>3, <1>4, <1>5, <1>6, <1>7, NextSplit DEF WorkerStep

LEMMA ItemStep ==
    ASSUME TypeOK, CallInv, ThreadInv, ResetInv, LocalInv, ItemInv,
           [Next]_vars
    PROVE  ItemInv'
<1> USE DEF TypeOK, CallInv, ThreadInv, ResetInv, LocalInv, ItemInv, Busy,
Item,
            SyncPC, ResetPC, StopPC
<1>1. ASSUME NEW w \in Workers, Worker(w)
      PROVE  ItemInv'
  BY <1>1
     DEF Worker, WorkerStart, LoadQueued, LoadProcessing, Claim, ClaimFailed,
         Kernel, CountProcessed, SignalDispatcher, WorkerLock, CheckRunning,
         WorkerTimeout, WorkerRelock, WorkerExit
<1>2. CASE StartStep
  BY <1>2
     DEF StartStep, Start, StartRunning, StartStopped, CreateThread,
         StartReturn
<1>3. CASE StopStep
  BY <1>3
     DEF StopStep, Stop, StopCheck, StopBroadcast, JoinThread, Joined,
         StopReturn
<1>4. CASE SubmitStep
  BY <1>4 DEF SubmitStep, Submit, SubmitBroadcast
<1>5. CASE SyncStep
  BY <1>5
     DEF SyncStep, Sync, SyncBroadcast, SyncLock, SyncLoadQueued,
         SyncUnfinished, SyncWait,
         SyncTimeout, SyncQuenched, SyncReturn
<1>6. CASE ResetStep
  <2>1. CASE ResetReturn
    <3>1. Busy' = {} /\ processing = 0 /\ done = {}
      BY <2>1 DEF ResetReturn
    <3> QED BY <2>1, <3>1 DEF ResetReturn
  <2>2. CASE ResetQueued \/ ResetProcessing \/ ResetProcessed
    BY <2>2 DEF ResetQueued, ResetProcessing, ResetProcessed
  <2> QED BY <1>6, <2>1, <2>2 DEF ResetStep
<1>7. CASE UNCHANGED vars
  BY <1>7 DEF vars
<1> QED
  BY <1>1, <1>2, <1>3, <1>4, <1>5, <1>6, <1>7, NextSplit DEF WorkerStep

\* A worker leaves its loop with all items claimed, and none is added.
LEMMA DrainStep ==
    ASSUME TypeOK, "submit" \notin LiveOps, CallInv, ThreadInv, LocalInv,
           BatchInv, DrainInv, [Next]_vars
    PROVE  DrainInv'
<1> USE DEF TypeOK, CallInv, ThreadInv, LocalInv, BatchInv, DrainInv, SyncPC,
            ResetPC, StopPC
<1>1. ASSUME NEW w \in Workers, Worker(w)
      PROVE  DrainInv'
  BY <1>1
     DEF Worker, WorkerStart, LoadQueued, LoadProcessing, Claim, ClaimFailed,
         Kernel, CountProcessed, SignalDispatcher, WorkerLock, CheckRunning,
         WorkerTimeout, WorkerRelock, WorkerExit
<1>2. CASE StartStep
  BY <1>2
     DEF StartStep, Start, StartRunning, StartStopped, CreateThread,
         StartReturn
<1>3. CASE StopStep
  BY <1>3
     DEF StopStep, Stop, StopCheck, StopBroadcast, JoinThread, Joined,
         StopReturn
<1>4. CASE SubmitStep
  BY <1>4 DEF SubmitStep, Submit, SubmitBroadcast
<1>5. CASE SyncStep
  BY <1>5
     DEF SyncStep, Sync, SyncBroadcast, SyncLock, SyncLoadQueued,
         SyncUnfinished, SyncWait,
         SyncTimeout, SyncQuenched, SyncReturn
<1>6. CASE ResetStep
  BY <1>6
     DEF ResetStep, ResetQueued, ResetProcessing, ResetProcessed, ResetReturn
<1>7. CASE UNCHANGED vars
  BY <1>7 DEF vars
<1> QED
  BY <1>1, <1>2, <1>3, <1>4, <1>5, <1>6, <1>7, NextSplit DEF WorkerStep


-----------------------------------------------------------------------------
(* The conjuncts that count *)

LEMMA AliveStep ==
    ASSUME TypeOK, AliveInv, CallInv, ThreadInv, [Next]_vars
    PROVE  AliveInv'
<1> USE DEF TypeOK, Alive, AliveInv
<1>0. IsFiniteSet(Alive)
  BY AliveNat
<1>1. ASSUME NEW w \in Workers, Worker(w)
      PROVE  AliveInv'
  <2>1. CASE WorkerStart(w)
    <3>1. w \notin Alive /\ Alive' = Alive \union {w}
      BY <2>1 DEF WorkerStart
    <3> QED BY <1>0, <2>1, <3>1, FS_AddElement DEF WorkerStart
  <2>2. CASE WorkerExit(w)
    <3>1. w \in Alive /\ Alive' = Alive \ {w}
      BY <2>2 DEF WorkerExit
    <3> HIDE DEF Alive, AliveInv, TypeOK
    <3>2. Cardinality(Alive') = Cardinality(Alive) - 1
      BY <1>0, <3>1, FS_RemoveElement
    <3> QED BY <2>2, <3>2 DEF WorkerExit, AliveInv
  <2>3. CASE ~WorkerStart(w) /\ ~WorkerExit(w)
    <3>1. Alive' = Alive /\ UNCHANGED threads_running
      BY <1>1, <2>3
         DEF Worker, LoadQueued, LoadProcessing, Claim, ClaimFailed, Kernel,
             CountProcessed, SignalDispatcher, WorkerLock, CheckRunning,
             WorkerTimeout, WorkerRelock
    <3> QED BY <3>1
  <2> QED BY <2>1, <2>2, <2>3
<1>2. CASE StartStep \/ StopStep
  <2>1. Alive' = Alive /\ UNCHANGED threads_running
    BY <1>2
       DEF StartStep, Start, StartRunning, StartStopped, CreateThread,
           StartReturn, StopStep, Stop, StopCheck, StopBroadcast, JoinThread,
           Joined, StopReturn
  <2> QED BY <2>1
<1>3. CASE SubmitStep \/ SyncStep \/ ResetStep
  <2>1. Alive' = Alive /\ UNCHANGED threads_running
    BY <1>3
       DEF SubmitStep, Submit, SubmitBroadcast, SyncStep, Sync, SyncBroadcast,
           SyncLock, SyncLoadQueued, SyncUnfinished, SyncWait, SyncTimeout,
           SyncQuenched,
           SyncReturn, ResetStep, ResetQueued, ResetProcessing,
           ResetProcessed, ResetReturn
  <2> QED BY <2>1
<1>4. CASE UNCHANGED vars
  BY <1>4 DEF vars
<1> QED
  BY <1>1, <1>2, <1>3, <1>4, NextSplit DEF WorkerStep

LEMMA UpToFinite ==
    ASSUME NEW n \in Nat
    PROVE  IsFiniteSet(1..n) /\ Cardinality(1..n) = n
BY FS_Interval

LEMMA UpToWithout ==
    ASSUME NEW n \in Nat, NEW i \in 1..n, NEW S, S \subseteq (1..n) \ {i}
    PROVE  Cardinality(S) <= n - 1
<1> DEFINE U == 1..n
           R == U \ {i}
<1>1. IsFiniteSet(U) /\ Cardinality(U) = n
  BY UpToFinite
<1>2. i \in U /\ S \subseteq R
  OBVIOUS
<1> HIDE DEF U
<1>3. IsFiniteSet(R) /\ Cardinality(R) = n - 1
  BY <1>1, <1>2, FS_RemoveElement
<1> HIDE DEF R
<1> QED
  BY <1>2, <1>3, FS_Subset

\* The counted items are some of 1..processing.
LEMMA CountedFinite ==
    ASSUME TypeOK, ItemInv, dpc \notin ResetPC
    PROVE  /\ Counted \subseteq 1..processing
           /\ IsFiniteSet(Counted)
           /\ Cardinality(Counted) \in Nat
           /\ Cardinality(Counted) <= processing
<1>1. Counted \subseteq 1..processing
  BY DEF ItemInv, Counted
<1>2. IsFiniteSet(1..processing) /\ Cardinality(1..processing) = processing
  BY UpToFinite DEF TypeOK
<1> QED
  BY <1>1, <1>2, FS_Subset, FS_CardinalityType

LEMMA CountStep ==
    ASSUME TypeOK, CallInv, ThreadInv, ResetInv, LocalInv, ItemInv, CountInv,
           [Next]_vars
    PROVE  CountInv'
<1> USE DEF TypeOK, ItemInv, CountInv, Counted, Busy, Item
<1>1. ASSUME NEW w \in Workers, Worker(w)
      PROVE  CountInv'
  <2>0. dpc \notin ResetPC
    BY <1>1
       DEF ThreadInv, ResetPC, Worker, WorkerStart, LoadQueued,
           LoadProcessing, Claim, ClaimFailed, Kernel, CountProcessed,
           SignalDispatcher, WorkerLock, CheckRunning, WorkerTimeout,
           WorkerRelock, WorkerExit
  <2>1. CASE CountProcessed(w)
    <3>1. Item(w) \notin Counted /\ Counted' = Counted \union {Item(w)}
      BY <2>1, <2>0 DEF CountProcessed
    <3>2. IsFiniteSet(Counted)
      BY <2>0, CountedFinite
    <3>3. Cardinality(Counted') = Cardinality(Counted) + 1
      BY <3>1, <3>2, FS_AddElement, ZenonT(40)
    <3> QED BY <2>0, <2>1, <3>3 DEF CountProcessed
  <2>2. CASE Claim(w)
    <3>1. Counted' = Counted /\ UNCHANGED <<processed, dpc>>
      BY <2>0, <2>2 DEF Claim
    <3> QED BY <3>1
  <2>3. CASE Kernel(w)
    <3>1. Counted' = Counted /\ UNCHANGED <<processed, dpc>>
      BY <2>0, <2>3 DEF Kernel
    <3> QED BY <3>1
  <2>4. CASE ~CountProcessed(w) /\ ~Claim(w) /\ ~Kernel(w)
    <3>1. Counted' = Counted /\ UNCHANGED processed
      BY <1>1, <2>4
         DEF Worker, WorkerStart, LoadQueued, LoadProcessing, ClaimFailed,
             SignalDispatcher, WorkerLock, CheckRunning, WorkerTimeout,
             WorkerRelock, WorkerExit
    <3> QED BY <2>0, <3>1
  <2> QED BY <2>1, <2>2, <2>3, <2>4
<1>2. CASE StartStep \/ StopStep
  <2>1. Counted' = Counted /\ UNCHANGED processed /\ dpc \notin ResetPC
    BY <1>2
       DEF StartStep, Start, StartRunning, StartStopped, CreateThread,
           StartReturn, StopStep, Stop, StopCheck, StopBroadcast, JoinThread,
           Joined, StopReturn, ResetPC
  <2> QED BY <2>1
<1>3. CASE SubmitStep \/ SyncStep
  <2>1. Counted' = Counted /\ UNCHANGED processed /\ dpc \notin ResetPC
    BY <1>3
       DEF SubmitStep, Submit, SubmitBroadcast, SyncStep, Sync, SyncBroadcast,
           SyncLock, SyncLoadQueued, SyncUnfinished, SyncWait, SyncTimeout,
           SyncQuenched,
           SyncReturn, ResetPC
  <2> QED BY <2>1
<1>4. CASE ResetReturn
  <2>1. Counted' = {} /\ processed' = 0
    BY <1>4 DEF ResetReturn, ResetInv, ResetPC
  <2> QED BY <2>1, FS_EmptySet
<1>5. CASE ResetQueued \/ ResetProcessing \/ ResetProcessed
  BY <1>5 DEF ResetQueued, ResetProcessing, ResetProcessed, ResetPC
<1>6. CASE UNCHANGED vars
  BY <1>6 DEF vars
<1> QED
  BY <1>1, <1>2, <1>3, <1>4, <1>5, <1>6, NextSplit DEF WorkerStep, ResetStep

\* When the count has caught up with the queue, there is nothing left to do.
LEMMA AllCounted ==
    ASSUME TypeOK, LocalInv, ItemInv, CountInv, dpc \notin ResetPC,
           queued <= processed
    PROVE  done = 1..queued
<1>1. Counted \subseteq 1..processing /\ Cardinality(Counted) <= processing
  BY CountedFinite
<1>2. processing = queued /\ Cardinality(Counted) = processing
  BY <1>1 DEF TypeOK, LocalInv, CountInv, ResetPC
<1>3. IsFiniteSet(1..processing) /\ Cardinality(1..processing) = processing
  BY UpToFinite DEF TypeOK
<1>4. Counted = 1..processing
  BY <1>1, <1>2, <1>3, FS_Subset
<1> QED
  BY <1>2, <1>4 DEF ItemInv, Counted

LEMMA SyncInvStep ==
    ASSUME TypeOK, CallInv, ThreadInv, LocalInv, ItemInv, CountInv, SyncInv,
           [Next]_vars
    PROVE  SyncInv'
<1> USE DEF TypeOK, SyncInv
<1>1. ASSUME NEW w \in Workers, Worker(w)
      PROVE  SyncInv'
  <2>1. CASE Kernel(w)
    <3>1. dpc # "sync_quenched"
      BY <2>1 DEF Kernel, ItemInv, LocalInv, Busy, ResetPC
    <3> QED BY <2>1, <3>1 DEF Kernel
  <2>2. CASE ~Kernel(w)
    BY <1>1, <2>2
       DEF Worker, WorkerStart, LoadQueued, LoadProcessing, Claim,
           ClaimFailed, CountProcessed, SignalDispatcher, WorkerLock,
           CheckRunning, WorkerTimeout, WorkerRelock, WorkerExit
  <2> QED BY <2>1, <2>2
<1>2. CASE StartStep \/ StopStep
  BY <1>2
     DEF StartStep, Start, StartRunning, StartStopped, CreateThread,
         StartReturn, StopStep, Stop, StopCheck, StopBroadcast, JoinThread,
         Joined, StopReturn
<1>3. CASE SubmitStep \/ ResetStep
  BY <1>3
     DEF SubmitStep, Submit, SubmitBroadcast, ResetStep, ResetQueued,
         ResetProcessing, ResetProcessed, ResetReturn
<1>4. CASE SyncQuenched
  <2>1. queued <= processed /\ dpc \notin ResetPC
    BY <1>4 DEF SyncQuenched, ResetPC
  <2>2. done = 1..queued
    BY <2>1, AllCounted
  <2> QED BY <1>4, <2>2 DEF SyncQuenched
<1>5. CASE SyncStep /\ ~SyncQuenched
  BY <1>5
     DEF SyncStep, Sync, SyncBroadcast, SyncLock, SyncLoadQueued,
         SyncUnfinished, SyncWait,
         SyncTimeout, SyncReturn
<1>6. CASE UNCHANGED vars
  BY <1>6 DEF vars
<1> QED
  BY <1>1, <1>2, <1>3, <1>4, <1>5, <1>6, NextSplit DEF WorkerStep

-----------------------------------------------------------------------------
(* The invariant *)

LEMMA InvInit == Init => IInv
<1> SUFFICES ASSUME Init PROVE IInv
  OBVIOUS
<1>1. TypeOK
  BY TypeInit
<1>2. AliveInv
  <2>1. Alive = {} BY DEF Init, Alive
  <2> QED BY <2>1, FS_EmptySet DEF Init, AliveInv
<1>3. Busy = {}
  BY DEF Init, Busy
<1>4. Counted = {}
  BY DEF Init, Counted
<1>5. CountInv
  BY <1>4, FS_EmptySet DEF Init, CountInv
<1>6. ItemInv
  BY <1>3 DEF Init, ItemInv
<1>7. MutexInv
  BY NamesAssumption DEF Init, MutexInv, LockedPC, Dispatcher, Nobody
<1>8. CallInv /\ ThreadInv /\ ResetInv
  BY DEF Init, CallInv, ThreadInv, ResetInv, SyncPC, ResetPC, StopPC
<1>9. LocalInv /\ BatchInv /\ SyncInv
  BY DEF Init, LocalInv, BatchInv, SyncInv
<1> QED
  BY <1>1, <1>2, <1>5, <1>6, <1>7, <1>8, <1>9 DEF IInv

LEMMA InvStep == Disciplined /\ IInv /\ [Next]_vars => IInv'
<1> SUFFICES ASSUME Disciplined, IInv, [Next]_vars PROVE IInv'
  OBVIOUS
<1> USE DEF IInv
<1>1. AliveInv' BY AliveStep
<1>2. TypeOK' BY <1>1, TypeStep
<1>3. MutexInv' BY MutexStep
<1>4. CallInv' BY CallStep
<1>5. ThreadInv' BY ThreadStep
<1>6. ResetInv' BY ResetInvStep
<1>7. ItemInv' BY ItemStep
<1>8. CountInv' BY CountStep
<1>9. LocalInv' BY LocalStep
<1>10. BatchInv' BY BatchStep
<1>11. SyncInv' BY SyncInvStep
<1> QED
  BY <1>1, <1>2, <1>3, <1>4, <1>5, <1>6, <1>7, <1>8, <1>9, <1>10, <1>11

\* The inductive invariant holds of every disciplined use of mumule.h.
THEOREM Invariance == Disciplined /\ Spec => []IInv
<1> SUFFICES ASSUME Disciplined PROVE Spec => []IInv
  OBVIOUS
<1>1. IInv /\ [Next]_vars => IInv'
  BY InvStep
<1> QED BY InvInit, <1>1, PTL DEF Spec

\* The variables of the pool keep to their types.
THEOREM TypeCorrect == Disciplined /\ Spec => []TypeOK
<1>1. IInv => TypeOK BY DEF IInv
<1> QED BY Invariance, <1>1, PTL

\* mule_thread gives the kernel no item that was not submitted.
THEOREM NoPhantoms == Disciplined /\ Spec => []NoPhantomItem
<1>1. IInv => NoPhantomItem
  <2> SUFFICES ASSUME IInv, NEW w \in Workers, pc[w] = "kernel"
               PROVE  Item(w) \in 1..queued
    BY DEF NoPhantomItem
  <2>1. Item(w) \in 1..processing /\ dpc \notin ResetPC
    BY DEF IInv, ItemInv, ThreadInv, Busy, ResetPC
  <2> QED BY <2>1 DEF IInv, TypeOK, LocalInv, ResetPC
<1> QED BY Invariance, <1>1, PTL

\* mule_thread gives the kernel no item twice.
THEOREM Exclusive == Disciplined /\ Spec => []ItemExclusive
<1>1. IInv => ItemExclusive
  BY DEF IInv, ItemInv, ItemExclusive, Busy
<1> QED BY Invariance, <1>1, PTL

\* mule_sync leaves its loop only when every queued item has been processed.
THEOREM SyncCompletes == Disciplined /\ Spec => []SyncComplete
<1>1. IInv => SyncComplete
  BY DEF IInv, SyncInv, SyncComplete
<1> QED BY Invariance, <1>1, PTL

\* A stopped pool is quiet: mule_destroy destroys a mutex nobody uses.
THEOREM StopsQuiet == Disciplined /\ Spec => []StoppedQuiet
<1>1. IInv => StoppedQuiet
  <2> SUFFICES ASSUME IInv, dpc \in {"stopped", "destroyed"}
               PROVE  /\ threads_running = 0
                      /\ mutex = Nobody
                      /\ \A w \in Workers : pc[w] = "none"
    BY DEF StoppedQuiet
  <2>1. \A w \in Workers : pc[w] = "none"
    BY DEF IInv, ThreadInv
  <2>2. Alive = {}
    BY <2>1 DEF Alive
  <2>3. threads_running = 0
    BY <2>2, FS_EmptySet DEF IInv, AliveInv
  <2>4. mutex = Nobody
    BY <2>1 DEF IInv, TypeOK, MutexInv, LockedPC
  <2> QED BY <2>1, <2>3, <2>4
<1> QED BY Invariance, <1>1, PTL

\* Which way a worker goes when it has counted an item.
LEMMA AfterCount ==
    ASSUME IInv, NEW w \in Workers, CountProcessed(w)
    PROVE  /\ my_queued[w] <= queued
           /\ processed' = processed + 1
           /\ processed + 1 <= my_queued[w]
           /\ processed + 1 = my_queued[w] <=> pc'[w] = "signal"
<1> USE DEF IInv, TypeOK
<1>1. w \in Busy /\ dpc \notin ResetPC
  BY DEF CountProcessed, Busy, ThreadInv, ResetPC
<1>2. Counted \subseteq (1..processing) \ {Item(w)}
  BY <1>1 DEF ItemInv, Counted
<1>3. Item(w) \in 1..processing
  BY <1>1 DEF ItemInv
<1>4. Cardinality(Counted) <= processing - 1
  BY <1>2, <1>3, UpToWithout
<1>5. processed + 1 <= processing
  BY <1>1, <1>4 DEF CountInv
<1>6. processing <= my_queued[w] /\ my_queued[w] <= queued
  BY DEF CountProcessed, LocalInv
<1>7. processed + 1 = my_queued[w] <=> pc'[w] = "signal"
  BY DEF CountProcessed
<1> QED
  BY <1>5, <1>6, <1>7 DEF CountProcessed

\* In a pool that gets no work while it runs the dispatcher is signalled
\* precisely when the last item is processed, as mule_thread says.
THEOREM SignalsPrecisely ==
    Disciplined /\ "submit" \notin LiveOps /\ Spec => SignalPrecise
<1> SUFFICES ASSUME Disciplined, "submit" \notin LiveOps
             PROVE  Spec => SignalPrecise
  OBVIOUS
<1>1. ASSUME IInv, NEW w \in Workers, CountProcessed(w)
      PROVE  pc'[w] = "signal" <=> processed' = queued
  <2>1. my_queued[w] = queued
    BY <1>1 DEF IInv, BatchInv, CountProcessed
  <2> QED BY <1>1, <2>1, AfterCount
<1>2. IInv /\ [Next]_vars =>
         [\A w \in Workers :
             CountProcessed(w) => (pc'[w] = "signal" <=> processed' =
             queued)]_vars
  BY <1>1
<1> QED BY Invariance, <1>2, PTL DEF Spec, SignalPrecise

\* With work submitted while it runs, a signal may come before the last item
\* is processed but it does not fail to come after it.
THEOREM SignalsNotMissed == Disciplined /\ Spec => SignalNotMissed
<1>1. ASSUME IInv, NEW w \in Workers, CountProcessed(w), processed' = queued
      PROVE  pc'[w] = "signal"
  <2>1. processed + 1 = my_queued[w]
    BY <1>1, AfterCount DEF IInv, TypeOK
  <2> QED BY <1>1, <2>1, AfterCount
<1>2. IInv /\ [Next]_vars =>
         [\A w \in Workers :
             CountProcessed(w) /\ processed' = queued => pc'[w] =
             "signal"]_vars
  BY <1>1
<1> QED BY Invariance, <1>2, PTL DEF Spec, SignalNotMissed

\* mule_stop joins the workers of a pool that got no work while it ran only
\* when they have processed all of it.
THEOREM StopsDrained ==
    Disciplined /\ "submit" \notin LiveOps /\ Spec => []StopDrains
<1> SUFFICES ASSUME Disciplined, "submit" \notin LiveOps
             PROVE  Spec => []StopDrains
  OBVIOUS
<1>1. Init => DrainInv
  BY DEF Init, DrainInv
<1>2. IInv /\ DrainInv /\ [Next]_vars => DrainInv'
  BY DrainStep DEF IInv
<1>3. IInv /\ DrainInv => StopDrains
  <2> SUFFICES ASSUME IInv, DrainInv, dpc = "stop_join",
                      \A w \in Workers : pc[w] \in {"exited", "none"}
               PROVE  done = 1..queued
    BY DEF StopDrains
  <2>1. processing = queued
    BY WorkersAssumption DEF DrainInv
  <2>2. Busy = {} /\ dpc \notin ResetPC
    BY DEF Busy, ResetPC
  <2> QED BY <2>1, <2>2 DEF IInv, ItemInv
<1> QED BY Invariance, <1>1, <1>2, <1>3, PTL DEF Spec

-----------------------------------------------------------------------------
(* The pool implements WorkPool *)

Begun == IF dpc \in ResetPC THEN 0 ELSE processing

Caller ==
    IF dpc \in SyncPC
    THEN IF call = "sync" THEN "syncing" ELSE "resetting"
    ELSE "free"

LEMMA PoolInit == Init => Pool!Init
BY DEF Init, Pool!Init, ResetPC, SyncPC

LEMMA PoolWorker ==
    ASSUME IInv, NEW w \in Workers, Worker(w)
    PROVE  Pool!Next \/ UNCHANGED Pool!vars
<1> USE DEF IInv, TypeOK
<1>1. CASE Claim(w)
  <2>1. processing < queued /\ dpc \notin ResetPC
    BY <1>1 DEF Claim, LocalInv, ThreadInv, ResetPC
  <2>2. Pool!Begin
    BY <1>1, <2>1 DEF Claim, Pool!Begin
  <2> QED BY <2>2 DEF Pool!Next
<1>2. CASE Kernel(w)
  <2>1. Item(w) \in (1..processing) \ done /\ dpc \notin ResetPC
    BY <1>2 DEF Kernel, ItemInv, Busy, ThreadInv, ResetPC
  <2>2. Pool!Finish
    BY <1>2, <2>1 DEF Kernel, Item, Pool!Finish
  <2> QED BY <2>2 DEF Pool!Next
<1>3. CASE SignalDispatcher(w)
  BY <1>3 DEF SignalDispatcher, Pool!vars, SyncPC, ResetPC
<1>4. CASE ~Claim(w) /\ ~Kernel(w) /\ ~SignalDispatcher(w)
  <2>1. UNCHANGED <<queued, processing, done, dpc, call>>
    BY <1>4
       DEF Worker, WorkerStart, LoadQueued, LoadProcessing, ClaimFailed,
           CountProcessed, WorkerLock, CheckRunning, WorkerTimeout,
           WorkerRelock, WorkerExit
  <2> QED BY <2>1 DEF Pool!vars
<1> QED BY <1>1, <1>2, <1>3, <1>4

LEMMA PoolCall ==
    ASSUME IInv, StartStep \/ StopStep \/ SubmitStep \/ SyncStep \/ ResetStep
    PROVE  Pool!Next \/ UNCHANGED Pool!vars
<1> USE DEF IInv, TypeOK
<1>1. CASE StartStep \/ StopStep
  <2>1. UNCHANGED <<queued, processing, done>>
    BY <1>1
       DEF StartStep, Start, StartRunning, StartStopped, CreateThread,
           StartReturn, StopStep, Stop, StopCheck, StopBroadcast, JoinThread,
           Joined, StopReturn
  <2>2. {dpc, dpc'} \intersect (SyncPC \union ResetPC) = {}
    BY <1>1
       DEF StartStep, Start, StartRunning, StartStopped, CreateThread,
           StartReturn, StopStep, Stop, StopCheck, StopBroadcast, JoinThread,
           Joined, StopReturn, SyncPC, ResetPC
  <2> QED BY <2>1, <2>2 DEF Pool!vars
<1>2. CASE Submit
  <2>1. queued' \in Nat /\ (queued' > queued \/ queued' = queued)
    BY <1>2, MaxQueuedAssumption DEF Submit
  <2>2. /\ Begun' = Begun /\ Caller = "free" /\ Caller' = "free"
        /\ UNCHANGED done
    BY <1>2 DEF Submit, Begun, Caller, SyncPC, ResetPC
  <2> QED
    BY <2>1, <2>2 DEF Pool!vars, Pool!Next, Pool!Submit, Begun, Caller
<1>3. CASE SubmitBroadcast
  BY <1>3 DEF SubmitBroadcast, Pool!vars, SyncPC, ResetPC
<1>4. CASE Sync
  <2>1. Pool!Call
    BY <1>4 DEF Sync, Pool!Call, SyncPC, ResetPC
  <2> QED BY <2>1 DEF Pool!Next
<1>5. CASE SyncReturn
  <2>1. Pool!SyncReturn
    BY <1>5
       DEF SyncReturn, SyncInv, Pool!SyncReturn, Pool!AllDone, SyncPC, ResetPC
  <2> QED BY <2>1 DEF Pool!Next
<1>6. CASE SyncStep /\ ~Sync /\ ~SyncReturn
  <2>1. /\ dpc \in SyncPC /\ dpc' \in SyncPC
        /\ UNCHANGED <<queued, processing, done, call>>
    BY <1>6
       DEF SyncStep, SyncBroadcast, SyncLock, SyncLoadQueued, SyncUnfinished,
           SyncWait,
           SyncTimeout, SyncQuenched, SyncPC
  <2> QED BY <2>1 DEF Pool!vars, SyncPC, ResetPC
<1>7. CASE ResetQueued
  <2>1. Pool!Clear
    BY <1>7
       DEF ResetQueued, SyncInv, Pool!Clear, Pool!AllDone, SyncPC, ResetPC
  <2> QED BY <2>1 DEF Pool!Next
<1>8. CASE ResetProcessing \/ ResetProcessed
  BY <1>8 DEF ResetProcessing, ResetProcessed, Pool!vars, SyncPC, ResetPC
<1>9. CASE ResetReturn
  BY <1>9 DEF ResetReturn, ResetInv, Pool!vars, SyncPC, ResetPC
<1> QED
  BY <1>1, <1>2, <1>3, <1>4, <1>5, <1>6, <1>7, <1>8, <1>9
     DEF SubmitStep, ResetStep

\* Under a disciplined use mumule.h keeps the promises of WorkPool: items are
\* begun in order, each once, and sync and reset wait for all of them.
THEOREM Implements == Disciplined /\ Spec => PoolSpec
<1> SUFFICES ASSUME Disciplined PROVE Spec => PoolSpec
  OBVIOUS
<1>1. IInv /\ [Next]_vars => [Pool!Next]_(Pool!vars)
  <2> SUFFICES ASSUME IInv, [Next]_vars
               PROVE  Pool!Next \/ UNCHANGED Pool!vars
    OBVIOUS
  <2>1. CASE UNCHANGED vars
    BY <2>1 DEF vars, Pool!vars
  <2> QED
    BY <2>1, PoolWorker, PoolCall, NextSplit DEF WorkerStep
<1> QED
  BY Invariance, PoolInit, <1>1, PTL DEF Spec, PoolSpec, Pool!Spec
=============================================================================
