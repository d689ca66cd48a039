------------------------------- MODULE Mumule -------------------------------
(***************************************************************************)
(* The thread pool of src/mumule.h.                                        *)
(*                                                                         *)
(* A pool hands out the items 1..queued.  Three atomic counters carry all  *)
(* of the queue's state: `queued' (advanced by mule_submit), `processing'  *)
(* (advanced by a worker's compare-and-swap, which claims the item of the  *)
(* new value) and `processed' (advanced by a worker when the kernel has    *)
(* returned).  The workers are the threads that run mule_thread; the       *)
(* dispatcher is the one thread that makes the mule_* calls.               *)
(*                                                                         *)
(* Every atomic access to a counter is a step of its own, and so are the   *)
(* acquisition of the mutex, the wait on a condition variable (which       *)
(* releases the mutex in the same step) and each signal or broadcast.      *)
(* Critical sections that do one thing are one step.  The accesses are     *)
(* modelled as sequentially consistent.                                    *)
(***************************************************************************)
EXTENDS Naturals, FiniteSets

CONSTANTS
    Workers,    \* the threads of the pool: num_threads in mule_init
    MaxQueued,  \* a bound on the counter `queued', for model checking
    LiveOps     \* the calls the dispatcher makes while the pool runs

ASSUME WorkersAssumption == IsFiniteSet(Workers) /\ Workers # {}
ASSUME MaxQueuedAssumption == MaxQueued \in Nat
ASSUME LiveOpsAssumption == LiveOps \subseteq {"submit", "reset"}

VARIABLES
    mutex,            \* the thread that holds mule->mutex, or Nobody
    running,          \* mule->running
    threads_running,  \* mule->threads_running
    queued,           \* mule->queued
    processing,       \* mule->processing
    processed,        \* mule->processed
    pc,               \* where each worker is in mule_thread
    my_queued,        \* each worker's local copy of `queued'
    my_processing,    \* each worker's local copy of `processing'
    dpc,              \* where the dispatcher is in its call
    call,             \* the call it is in
    sync_queued,      \* its local copy of `queued' in mule_sync
    done              \* history: the items whose kernel call has returned

counters == <<queued, processing, processed>>
locals == <<my_queued, my_processing>>
client == <<dpc, call, sync_queued>>
vars == <<mutex, running, threads_running, counters, pc, locals, client, done>>

Dispatcher == "dispatcher"
Nobody == "nobody"
ASSUME NamesAssumption == Dispatcher \notin Workers /\ Nobody \notin Workers

Init ==
    /\ mutex = Nobody
    /\ running = FALSE
    /\ threads_running = 0
    /\ queued = 0
    /\ processing = 0
    /\ processed = 0
    /\ pc = [w \in Workers |-> "none"]
    /\ my_queued = [w \in Workers |-> 0]
    /\ my_processing = [w \in Workers |-> 0]
    /\ dpc = "idle"
    /\ call = "none"
    /\ sync_queued = 0
    /\ done = {}

(***************************************************************************)
(* The two condition variables.  A waiting thread is one whose program     *)
(* counter is at the wait; a wake-up, for whatever reason, moves it to the *)
(* point where it takes the mutex again.                                   *)
(***************************************************************************)
WorkersWoken == [w \in Workers |-> IF pc[w] = "wait" THEN "relock" ELSE pc[w]]

DispatcherWoken == IF dpc = "sync_wait" THEN "sync_relock" ELSE dpc

-----------------------------------------------------------------------------
(* mule_thread *)

Goto(w, from, to) == pc[w] = from /\ pc' = [pc EXCEPT ![w] = to]

Acquire(t) == mutex = Nobody /\ mutex' = t

Release(t) == mutex = t /\ mutex' = Nobody

WorkerStart(w) ==
    /\ Goto(w, "start", "load_queued")
    /\ threads_running' = threads_running + 1
    /\ UNCHANGED <<mutex, running, counters, locals, client, done>>

\* Mutant: a worker that looks at `running' before it looks at the queue.
LoadQueuedIfRunning(w) ==
    /\ Goto(w, "load_queued", IF running THEN "load_processing" ELSE "exit")
    /\ my_queued' = [my_queued EXCEPT ![w] = queued]
    /\ UNCHANGED <<mutex, running, threads_running, counters, my_processing,
                   client, done>>

LoadQueued(w) ==
    /\ Goto(w, "load_queued", "load_processing")
    /\ my_queued' = [my_queued EXCEPT ![w] = queued]
    /\ UNCHANGED <<mutex, running, threads_running, counters, my_processing,
                   client, done>>

\* Mutant: the test for the empty queue is off by one.
LoadProcessingBeforeEnd(w) ==
    /\ Goto(w, "load_processing",
            IF processing + 1 >= my_queued[w] THEN "lock" ELSE "cas")
    /\ my_processing' = [my_processing EXCEPT ![w] = processing]
    /\ UNCHANGED <<mutex, running, threads_running, counters, my_queued,
                   client, done>>

LoadProcessing(w) ==
    /\ Goto(w, "load_processing",
            IF processing = my_queued[w] THEN "lock" ELSE "cas")
    /\ my_processing' = [my_processing EXCEPT ![w] = processing]
    /\ UNCHANGED <<mutex, running, threads_running, counters, my_queued,
                   client, done>>

\* Mutant: a fetch-and-add, which takes an item whatever has become of the
\* queue, in place of the compare-and-swap.
ClaimNext(w) ==
    /\ Goto(w, "cas", "kernel")
    /\ my_processing' = [my_processing EXCEPT ![w] = processing]
    /\ processing' = processing + 1
    /\ UNCHANGED <<mutex, running, threads_running, queued, processed,
                   my_queued, client, done>>

\* Mutant: a plain store.
ClaimStore(w) ==
    /\ Goto(w, "cas", "kernel")
    /\ processing' = my_processing[w] + 1
    /\ UNCHANGED <<mutex, running, threads_running, queued, processed, locals,
                   client, done>>

\* The compare-and-swap takes item my_processing[w] + 1.
Claim(w) ==
    /\ Goto(w, "cas", "kernel")
    /\ processing = my_processing[w]
    /\ processing' = my_processing[w] + 1
    /\ UNCHANGED <<mutex, running, threads_running, queued, processed, locals,
                   client, done>>

\* It lost a race, or failed spuriously, as a weak exchange may.
ClaimFailed(w) ==
    /\ Goto(w, "cas", "load_queued")
    /\ UNCHANGED <<mutex, running, threads_running, counters, locals, client,
                   done>>

Kernel(w) ==
    /\ Goto(w, "kernel", "count")
    /\ done' = done \union {my_processing[w] + 1}
    /\ UNCHANGED <<mutex, running, threads_running, counters, locals, client>>

\* Mutant: signals when the count before the addition is that of the queue.
CountProcessedLate(w) ==
    /\ Goto(w, "count",
            IF processed = my_queued[w] THEN "signal" ELSE "load_queued")
    /\ processed' = processed + 1
    /\ UNCHANGED <<mutex, running, threads_running, queued, processing, locals,
                   client, done>>

CountProcessed(w) ==
    /\ Goto(w, "count",
            IF processed + 1 = my_queued[w] THEN "signal" ELSE "load_queued")
    /\ processed' = processed + 1
    /\ UNCHANGED <<mutex, running, threads_running, queued, processing, locals,
                   client, done>>

SignalDispatcher(w) ==
    /\ Goto(w, "signal", "load_queued")
    /\ dpc' = DispatcherWoken
    /\ UNCHANGED <<mutex, running, threads_running, counters, locals, call,
                   sync_queued, done>>

WorkerLock(w) ==
    /\ Goto(w, "lock", "check")
    /\ Acquire(w)
    /\ UNCHANGED <<running, threads_running, counters, locals, client, done>>

\* Mutant: a worker that never asks whether it should exit.
CheckNothing(w) ==
    /\ Goto(w, "check", "wait")
    /\ Release(w)
    /\ UNCHANGED <<running, threads_running, counters, locals, client, done>>

\* Exit when the pool has been stopped, else wait; both release the mutex.
CheckRunning(w) ==
    /\ Goto(w, "check", IF running THEN "wait" ELSE "exit")
    /\ Release(w)
    /\ UNCHANGED <<running, threads_running, counters, locals, client, done>>

\* Mutant: cnd_wait in place of cnd_timedwait.
WorkerWaitsForever(w) == FALSE

\* The 10 ms revalidation timeout, or a spurious wake-up.
WorkerTimeout(w) ==
    /\ Goto(w, "wait", "relock")
    /\ UNCHANGED <<mutex, running, threads_running, counters, locals, client,
                   done>>

\* cnd_timedwait takes the mutex, mule_thread gives it back at once.
WorkerRelock(w) ==
    /\ Goto(w, "relock", "load_queued")
    /\ mutex = Nobody
    /\ UNCHANGED <<mutex, running, threads_running, counters, locals, client,
                   done>>

WorkerExit(w) ==
    /\ Goto(w, "exit", "exited")
    /\ threads_running' = threads_running - 1
    /\ UNCHANGED <<mutex, running, counters, locals, client, done>>

Worker(w) ==
    \/ WorkerStart(w)
    \/ LoadQueued(w)
    \/ LoadProcessing(w)
    \/ Claim(w)
    \/ ClaimFailed(w)
    \/ Kernel(w)
    \/ CountProcessed(w)
    \/ SignalDispatcher(w)
    \/ WorkerLock(w)
    \/ CheckRunning(w)
    \/ WorkerTimeout(w)
    \/ WorkerRelock(w)
    \/ WorkerExit(w)

-----------------------------------------------------------------------------
(* The calls of the dispatcher *)

DGoto(from, to) == dpc = from /\ dpc' = to

\* What the dispatcher calls while the pool runs is up to LiveOps.
Allowed(op) == running => op \in LiveOps

\* mule_submit: the fetch-and-add, then the broadcast.
Submit ==
    /\ DGoto("idle", "submit_broadcast")
    /\ Allowed("submit")
    /\ \E count \in 0..MaxQueued :
          /\ queued + count <= MaxQueued
          /\ queued' = queued + count
    /\ UNCHANGED <<mutex, running, threads_running, processing, processed, pc,
                   locals, call, sync_queued, done>>

SubmitBroadcast ==
    /\ DGoto("submit_broadcast", "idle")
    /\ pc' = WorkersWoken
    /\ UNCHANGED <<mutex, running, threads_running, counters, locals, call,
                   sync_queued, done>>

\* mule_start
Start ==
    /\ DGoto("idle", "start_check")
    /\ Acquire(Dispatcher)
    /\ UNCHANGED <<running, threads_running, counters, pc, locals, call,
                   sync_queued, done>>

StartRunning ==
    /\ DGoto("start_check", "idle")
    /\ running
    /\ Release(Dispatcher)
    /\ UNCHANGED <<running, threads_running, counters, pc, locals, call,
                   sync_queued, done>>

StartStopped ==
    /\ DGoto("start_check", "create")
    /\ ~running
    /\ running' = TRUE
    /\ UNCHANGED <<mutex, threads_running, counters, pc, locals, call,
                   sync_queued, done>>

CreateThread(w) ==
    /\ dpc = "create"
    /\ Goto(w, "none", "start")
    /\ UNCHANGED <<mutex, running, threads_running, counters, locals, client,
                   done>>

StartReturn ==
    /\ DGoto("create", "idle")
    /\ \A w \in Workers : pc[w] # "none"
    /\ Release(Dispatcher)
    /\ UNCHANGED <<running, threads_running, counters, pc, locals, call,
                   sync_queued, done>>

\* mule_sync, which mule_reset calls first.
Sync ==
    /\ DGoto("idle", "sync_broadcast")
    /\ call' \in {"sync", "reset"}
    /\ call' = "reset" => Allowed("reset")
    /\ UNCHANGED <<mutex, running, threads_running, counters, pc, locals,
                   sync_queued, done>>

SyncBroadcast ==
    /\ DGoto("sync_broadcast", "sync_lock")
    /\ pc' = WorkersWoken
    /\ UNCHANGED <<mutex, running, threads_running, counters, locals, call,
                   sync_queued, done>>

\* Taking the mutex, for the first time or at the end of the wait.
SyncLock ==
    /\ \/ DGoto("sync_lock", "sync_load_queued")
       \/ DGoto("sync_relock", "sync_load_queued")
    /\ Acquire(Dispatcher)
    /\ UNCHANGED <<running, threads_running, counters, pc, locals, call,
                   sync_queued, done>>

SyncLoadQueued ==
    /\ DGoto("sync_load_queued", "sync_load_processed")
    /\ sync_queued' = queued
    /\ UNCHANGED <<mutex, running, threads_running, counters, pc, locals, call,
                   done>>

\* There is work unfinished: go to wait for the signal of its end.
SyncUnfinished ==
    /\ DGoto("sync_load_processed", "sync_enter_wait")
    /\ processed < sync_queued
    /\ UNCHANGED <<mutex, running, threads_running, counters, pc, locals, call,
                   sync_queued, done>>

\* A signal given before this step finds no waiting dispatcher and is lost.
SyncWait ==
    /\ DGoto("sync_enter_wait", "sync_wait")
    /\ Release(Dispatcher)
    /\ UNCHANGED <<running, threads_running, counters, pc, locals, call,
                   sync_queued, done>>

\* Mutant: cnd_wait in place of cnd_timedwait.
SyncWaitsForever == dpc = "sync_wait" /\ UNCHANGED vars

\* The 1 ms revalidation timeout, or a spurious wake-up.
SyncTimeout ==
    /\ DGoto("sync_wait", "sync_relock")
    /\ UNCHANGED <<mutex, running, threads_running, counters, pc, locals, call,
                   sync_queued, done>>

\* Mutant: waits until all items have been begun.
SyncBegun ==
    /\ DGoto("sync_load_processed", "sync_quenched")
    /\ ~(processing < sync_queued)
    /\ Release(Dispatcher)
    /\ UNCHANGED <<running, threads_running, counters, pc, locals, call,
                   sync_queued, done>>

SyncQuenched ==
    /\ DGoto("sync_load_processed", "sync_quenched")
    /\ ~(processed < sync_queued)
    /\ Release(Dispatcher)
    /\ UNCHANGED <<running, threads_running, counters, pc, locals, call,
                   sync_queued, done>>

SyncReturn ==
    /\ DGoto("sync_quenched", "idle")
    /\ call = "sync"
    /\ call' = "none"
    /\ UNCHANGED <<mutex, running, threads_running, counters, pc, locals,
                   sync_queued, done>>

\* mule_reset: three stores and a broadcast.
ResetQueued ==
    /\ DGoto("sync_quenched", "reset_processing")
    /\ call = "reset"
    /\ queued' = 0
    /\ done' = {}
    /\ UNCHANGED <<mutex, running, threads_running, processing, processed, pc,
                   locals, call, sync_queued>>

\* Mutant: forgets to clear `processing'.
ResetProcessingNot ==
    /\ DGoto("reset_processing", "reset_processed")
    /\ UNCHANGED <<mutex, running, threads_running, counters, pc, locals, call,
                   sync_queued, done>>

ResetProcessing ==
    /\ DGoto("reset_processing", "reset_processed")
    /\ processing' = 0
    /\ UNCHANGED <<mutex, running, threads_running, queued, processed, pc,
                   locals, call, sync_queued, done>>

ResetProcessed ==
    /\ DGoto("reset_processed", "reset_broadcast")
    /\ processed' = 0
    /\ UNCHANGED <<mutex, running, threads_running, queued, processing, pc,
                   locals, call, sync_queued, done>>

ResetReturn ==
    /\ DGoto("reset_broadcast", "idle")
    /\ pc' = WorkersWoken
    /\ call' = "none"
    /\ UNCHANGED <<mutex, running, threads_running, counters, locals,
                   sync_queued, done>>

\* mule_stop, which mule_destroy calls first.
Stop ==
    /\ DGoto("idle", "stop_check")
    /\ call' \in {"stop", "destroy"}
    /\ Acquire(Dispatcher)
    /\ UNCHANGED <<running, threads_running, counters, pc, locals, sync_queued,
                   done>>

StopCheck ==
    /\ DGoto("stop_check", IF running THEN "stop_broadcast" ELSE "stopped")
    /\ running' = FALSE
    /\ Release(Dispatcher)
    /\ UNCHANGED <<threads_running, counters, pc, locals, call, sync_queued,
                   done>>

StopBroadcast ==
    /\ DGoto("stop_broadcast", "stop_join")
    /\ pc' = WorkersWoken
    /\ UNCHANGED <<mutex, running, threads_running, counters, locals, call,
                   sync_queued, done>>

JoinThread(w) ==
    /\ dpc = "stop_join"
    /\ Goto(w, "exited", "none")
    /\ UNCHANGED <<mutex, running, threads_running, counters, locals, client,
                   done>>

\* Mutant: does not join the threads.
JoinedNone ==
    /\ DGoto("stop_join", "stopped")
    /\ UNCHANGED <<mutex, running, threads_running, counters, pc, locals, call,
                   sync_queued, done>>

Joined ==
    /\ DGoto("stop_join", "stopped")
    /\ \A w \in Workers : pc[w] = "none"
    /\ UNCHANGED <<mutex, running, threads_running, counters, pc, locals, call,
                   sync_queued, done>>

StopReturn ==
    /\ DGoto("stopped", IF call = "stop" THEN "idle" ELSE "destroyed")
    /\ call' = "none"
    /\ UNCHANGED <<mutex, running, threads_running, counters, pc, locals,
                   sync_queued, done>>

Terminated == dpc = "destroyed" /\ UNCHANGED vars

\* The steps of a call once it has been made; none of them is a choice.
InCall ==
    \/ SubmitBroadcast
    \/ StartRunning
    \/ StartStopped
    \/ \E w \in Workers : CreateThread(w)
    \/ StartReturn
    \/ SyncBroadcast
    \/ SyncLoadQueued
    \/ SyncUnfinished
    \/ SyncWait
    \/ SyncTimeout
    \/ SyncQuenched
    \/ SyncReturn
    \/ ResetQueued
    \/ ResetProcessing
    \/ ResetProcessed
    \/ ResetReturn
    \/ StopCheck
    \/ StopBroadcast
    \/ \E w \in Workers : JoinThread(w)
    \/ Joined
    \/ StopReturn

Next ==
    \/ \E w \in Workers : Worker(w)
    \/ Submit
    \/ Start
    \/ Sync
    \/ SyncLock
    \/ Stop
    \/ InCall
    \/ Terminated

Spec == Init /\ [][Next]_vars

(***************************************************************************)
(* Fairness: the scheduler runs every thread, a kernel call returns, a     *)
(* timed wait times out, a thread that competes for the mutex or for an    *)
(* item again and again wins some time.  The dispatcher need not make any  *)
(* call, but one it has made it goes on with; start and stop block on the  *)
(* mutex as their first step, so they count as made once it is theirs.     *)
(***************************************************************************)
Fairness ==
    /\ WF_vars(InCall)
    /\ SF_vars(SyncLock)
    /\ \A w \in Workers :
          /\ WF_vars(Worker(w))
          /\ SF_vars(WorkerLock(w))
          /\ SF_vars(WorkerRelock(w))
          /\ SF_vars(Claim(w))

FairSpec == Spec /\ Fairness
-----------------------------------------------------------------------------
(***************************************************************************)
(* Properties                                                              *)
(***************************************************************************)
\* The pool is used as its callers do: not cleared while it runs, and given
\* more work while it runs only if a single thread serves it.
Disciplined ==
    /\ "reset" \notin LiveOps
    /\ "submit" \in LiveOps => \A v, w \in Workers : v = w

WorkerPC ==
    {"none", "start", "load_queued", "load_processing", "cas", "kernel",
     "count", "signal", "lock", "check", "wait", "relock", "exit", "exited"}

SyncPC ==
    {"sync_broadcast", "sync_lock", "sync_load_queued", "sync_load_processed",
     "sync_enter_wait", "sync_wait", "sync_relock", "sync_quenched"}

\* In mule_reset, after the first of its three stores.
ResetPC == {"reset_processing", "reset_processed", "reset_broadcast"}

StartPC == {"start_check", "create"}

StopPC == {"stop_check", "stop_broadcast", "stop_join", "stopped"}

DispatcherPC ==
    {"idle", "submit_broadcast", "destroyed"}
        \union StartPC \union SyncPC \union ResetPC \union StopPC

\* Every variable of the pool keeps to its values: the counters are natural
\* numbers and the program counters name points of mule_thread and of the
\* mule_* calls.
TypeOK ==
    /\ mutex \in Workers \union {Dispatcher, Nobody}
    /\ running \in BOOLEAN
    /\ threads_running \in Nat
    /\ queued \in 0..MaxQueued
    /\ processing \in Nat
    /\ processed \in Nat
    /\ pc \in [Workers -> WorkerPC]
    /\ my_queued \in [Workers -> Nat]
    /\ my_processing \in [Workers -> Nat]
    /\ dpc \in DispatcherPC
    /\ call \in {"none", "sync", "reset", "stop", "destroy"}
    /\ sync_queued \in Nat
    /\ done \subseteq Nat

\* The item a worker has claimed, which it passes to the kernel.
Item(w) == my_processing[w] + 1

\* The workers that have claimed an item they have not counted yet.
Busy == {w \in Workers : pc[w] \in {"kernel", "count"}}

\* mule_thread never hands the kernel an item that mule_submit did not queue,
\* although it compares two counters it loaded one after the other.
NoPhantomItem == \A w \in Workers : pc[w] = "kernel" => Item(w) \in 1..queued

\* No item is given to the kernel twice: neither two workers at a time, nor
\* one worker after another has finished it.
ItemExclusive ==
    /\ \A v, w \in Busy : Item(v) = Item(w) => v = w
    /\ \A w \in Workers : pc[w] = "kernel" => Item(w) \notin done

\* When mule_sync leaves its loop the kernel has returned from every queued
\* item, and from nothing else.
SyncComplete == dpc = "sync_quenched" => done = 1..queued

\* A worker looks at `running' only when it has found the queue empty, so
\* once mule_stop has joined the threads no item is left that was queued
\* before they were started.
StopDrains ==
    dpc = "stop_join" /\ (\A w \in Workers : pc[w] \in {"exited", "none"})
        => done = 1..queued

\* Once mule_stop has returned no thread of the pool is left to touch the
\* mutex and the condition variables, which mule_destroy is about to destroy,
\* and each thread has taken itself off the count.
StoppedQuiet ==
    dpc \in {"stopped", "destroyed"} =>
        /\ threads_running = 0
        /\ mutex = Nobody
        /\ \A w \in Workers : pc[w] = "none"

\* "signal dispatcher precisely when the last item is processed": the worker
\* that counts an item goes on to signal if and only if that was the last.
SignalPrecise ==
    [][\A w \in Workers :
          CountProcessed(w) => (pc'[w] = "signal" <=> processed' = queued)]_vars

\* The half of it a waiting mule_sync relies on: the last item's count is
\* followed by a signal.
SignalNotMissed ==
    [][\A w \in Workers :
          CountProcessed(w) /\ processed' = queued => pc'[w] = "signal"]_vars

\* "to clear counters" (mumule.h:41): when mule_reset has made its three stores
\* no worker has moved a counter in between, and all are clear at once.  It does
\* not hold of a pool that is running (see the README).
ResetClears ==
    dpc = "reset_broadcast" => queued = 0 /\ processing = 0 /\ processed = 0

\* The pool implements WorkPool.  mule_reset clears at its first store.
Pool == INSTANCE WorkPool WITH
    submitted <- queued,
    begun <- IF dpc \in ResetPC THEN 0 ELSE processing,
    finished <- done,
    caller <- IF dpc \in SyncPC
              THEN IF call = "sync" THEN "syncing" ELSE "resetting"
              ELSE "free"
PoolSpec == Pool!Spec

\* A call of mule_sync on a running pool returns, whatever signals are lost.
SyncReturns == dpc = "sync_broadcast" /\ running ~> dpc = "sync_quenched"

\* mule_stop returns: every thread finds out that it has to exit.
StopReturns == dpc = "stop_check" ~> dpc = "stopped"

\* A queued item is processed while the pool runs, without a mule_sync.
EveryItemRuns ==
    \A item \in 1..MaxQueued :
        running /\ item <= queued ~> item \in done \/ ~running

\* And in a pool that gets no work while it runs, it is even if it is stopped.
EveryItemDone ==
    \A item \in 1..MaxQueued : running /\ item <= queued ~> item \in done
=============================================================================
