------------------------------ MODULE MumuleInv ------------------------------
(***************************************************************************)
(* The inductive invariant of the thread pool.  It is a module of its own  *)
(* so that TLC checks the very formula that MumuleProofs proves.           *)
(***************************************************************************)
EXTENDS Mumule

\* The dispatcher's points between its mtx_lock and its mtx_unlock or wait.
LockedPC ==
    {"start_check", "create", "sync_load_queued", "sync_load_processed",
     "sync_enter_wait", "stop_check"}

\* The mutex is held exactly where the code is inside a critical section.
MutexInv ==
    /\ \A w \in Workers : mutex = w <=> pc[w] = "check"
    /\ mutex = Dispatcher <=> dpc \in LockedPC

\* Which call the dispatcher is in follows from where it is.
CallInv ==
    /\ dpc \in SyncPC => call \in {"sync", "reset"}
    /\ dpc \in ResetPC => call = "reset"
    /\ call = "none" \/ dpc \in SyncPC \union ResetPC \union StopPC
    /\ call = "reset" => ~running

\* A pool that is not running has no thread, unless mule_stop has yet to join
\* it; a running one has them all, unless mule_start has yet to create it.
ThreadInv ==
    /\ ~running /\ dpc \notin {"stop_broadcast", "stop_join"} =>
          \A w \in Workers : pc[w] = "none"
    /\ running /\ dpc # "create" => \A w \in Workers : pc[w] # "none"
    /\ dpc = "create" => running
    /\ dpc \in {"stop_broadcast", "stop_join"} \union ResetPC => ~running
    /\ dpc \in {"stopped", "destroyed"} => ~running
    /\ \A w \in Workers : pc[w] \in {"exit", "exited"} => ~running
    /\ dpc = "stop_broadcast" => \A w \in Workers : pc[w] # "none"

Alive == {w \in Workers : pc[w] \notin {"none", "start", "exited"}}

AliveInv == threads_running = Cardinality(Alive)

\* The counters while mule_reset stores to them one after the other.
ResetInv ==
    /\ dpc \in ResetPC => queued = 0 /\ done = {}
    /\ dpc \in {"reset_processed", "reset_broadcast"} => processing = 0
    /\ dpc = "reset_broadcast" => processed = 0

\* The items up to `processing' are those with a worker and those done.
ItemInv ==
    /\ dpc \notin ResetPC =>
          1..processing = done \union {Item(w) : w \in Busy}
    /\ \A w \in Busy : Item(w) \in 1..processing
    /\ \A v, w \in Busy : Item(v) = Item(w) => v = w
    /\ \A w \in Busy : Item(w) \in done <=> pc[w] = "count"

Counted == done \ {Item(w) : w \in Busy}

\* `processed' lags behind the history by the workers about to count.
CountInv == dpc \notin ResetPC => processed = Cardinality(Counted)

\* A worker's copies of the counters are of use: while it decides what to do
\* nothing can be claimed beyond the `queued' it has seen.
LocalInv ==
    /\ dpc # "reset_processing" => processing <= queued
    /\ \A w \in Workers :
          /\ pc[w] \in {"load_processing", "cas", "kernel", "count"} =>
                processing <= my_queued[w] /\ my_queued[w] <= queued
          /\ pc[w] = "cas" => my_processing[w] < my_queued[w]

\* With work submitted only while the pool is stopped, no copy goes stale.
BatchInv ==
    "submit" \notin LiveOps =>
        \A w \in Workers :
            pc[w] \in {"load_processing", "cas", "kernel", "count", "signal"}
                => my_queued[w] = queued

SyncInv ==
    /\ dpc = "sync_load_processed" => sync_queued = queued
    /\ dpc = "sync_quenched" => done = 1..queued

\* The conjunction is inductive, if the pool is used with discipline.
IInv ==
    /\ TypeOK
    /\ MutexInv
    /\ CallInv
    /\ ThreadInv
    /\ AliveInv
    /\ ResetInv
    /\ ItemInv
    /\ CountInv
    /\ LocalInv
    /\ BatchInv
    /\ SyncInv

\* What else StopDrains needs: a worker that has left its loop has seen the
\* queue empty, and nothing is added to it before the next start.
DrainInv ==
    \A w \in Workers :
        \/ pc[w] \in {"lock", "check", "exit", "exited"}
        \/ dpc = "stop_join" /\ pc[w] = "none"
        => processing = queued
=============================================================================
