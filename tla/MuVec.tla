-------------------------------- MODULE MuVec --------------------------------
(***************************************************************************)
(* The growing array of src/muvec.c: a table of extents, the e'th of which *)
(* holds 2^e elements, so that growing never moves an element.  One action *)
(* per access to the shared fields.  A malloc is part of the step that     *)
(* publishes its block; one that loses the race is freed again there.      *)
(***************************************************************************)
EXTENDS Integers, FiniteSets

CONSTANTS
    Threads,      \* the threads that call the vector
    Calls,        \* the calls they make: a subset of CallNames
    Shared,       \* whether calls may overlap: a subset of BOOLEAN
    Counts,       \* the numbers of elements they allocate
    FirstLimit,   \* the limit given to mu_vec_init
    MaxExtent,    \* the last entry of the table, mu_vec_max_extents - 1
    SpuriousFail, \* compare_exchange_weak may fail without a reason
    Nobody        \* no thread

Relaxed == {"alloc_relaxed", "add_relaxed"}
CallNames == Relaxed \union {"alloc_atomic", "add_atomic", "set", "resize"}

ASSUME CallsAssumption == Calls \subseteq CallNames /\ Shared \subseteq BOOLEAN
ASSUME CountsAssumption == Counts \subseteq Nat
ASSUME LimitAssumption == MaxExtent \in Nat /\ FirstLimit \in 0..(2^(MaxExtent + 1) - 1)
ASSUME FailAssumption == SpuriousFail \in BOOLEAN
ASSUME NobodyAssumption == Nobody \notin Threads

Extents == 0..MaxExtent
ExtentBase(e) == 2^e - 1
ExtentSize(e) == 2^e
Room == ExtentBase(MaxExtent + 1)     \* the bound on count, too
Indices == 0..(Room - 1)

(* 64 - clz(x + 1) - 1 *)
ExtentNum(x) == CHOOSE e \in Extents : ExtentBase(e) <= x /\ x < ExtentBase(e + 1)

(* The indices lie in the extents, and in their order: arithmetic of powers *)
(* of two, which the prover does not have, and TLC evaluates.              *)
ExtentsOrdered ==
    /\ \A x \in Indices :
        ExtentNum(x) \in Extents /\ ExtentBase(ExtentNum(x)) \in 0..x
    /\ \A x, y \in Indices : x <= y => ExtentNum(x) <= ExtentNum(y)

(* An extent ends where the next begins: the same.                         *)
ExtentsAdjoin ==
    /\ ExtentBase(0) = 0
    /\ \A x \in Indices : x < ExtentBase(ExtentNum(x) + 1)
    /\ \A e \in Extents :
        ExtentBase(e + 1) \in 1..Room /\ ExtentNum(ExtentBase(e + 1) - 1) = e

(* The last extent of the elements below n.  Of no elements it is -1 as a  *)
(* size_t, which is past the end of the table.                             *)
LastExtent(n) == IF n > 0 THEN ExtentNum(n - 1) ELSE MaxExtent + 1

VARIABLES
    count,     \* mv->count
    capacity,  \* mv->capacity
    extents,   \* mv->extents: the number of the block, 0 for NULL
    cells,     \* the contents: of each block, the thread that wrote a cell
    pc,        \* where each thread is
    loc,       \* its local variables
    owner,     \* history: the thread that was given an index, or Nobody
    filled,    \* history: the indices whose owner has written them
    shared,    \* calls overlap
    crashed,   \* memory was used that is not there
    alive      \* the vector has not been destroyed

vars == <<count, capacity, extents, cells, pc, loc, owner, filled, shared, crashed, alive>>

Blocks == 1..(Cardinality(Extents) + 1)
Fresh == CHOOSE b \in Blocks : \A e \in Extents : extents[e] # b

Idle == [call |-> "none", idx |-> 0, len |-> 0, ext |-> 0, last |-> 0, limit |-> 0]

(* mu_vec_init *)
Init ==
    LET start == IF FirstLimit = 0 THEN 0 ELSE ExtentNum(FirstLimit - 1) + 1
    IN  /\ count = 0
        /\ capacity = ExtentBase(start)
        /\ extents = [e \in Extents |-> IF e < start THEN e + 1 ELSE 0]
    /\ cells = [b \in Blocks |-> [i \in Indices |-> Nobody]]
    /\ pc = [t \in Threads |-> "idle"]
    /\ loc = [t \in Threads |-> Idle]
    /\ owner = [i \in Indices |-> Nobody]
    /\ filled = {}
    /\ shared \in Shared
    /\ crashed = FALSE
    /\ alive = TRUE

Goto(t, label) == pc' = [pc EXCEPT ![t] = label]

-----------------------------------------------------------------------------
(* The beginning of a call *)

EnsureFirst(t, call, idx, len) ==
    loc' = [loc EXCEPT ![t] = [call |-> call, idx |-> idx, len |-> len,
                               ext |-> ExtentNum(idx), last |-> ExtentNum(idx),
                               limit |-> 0]]

(* _mu_vec_ensure_range *)
Ensure(t, call, idx, len) ==
    loc' = [loc EXCEPT ![t] = [call |-> call, idx |-> idx, len |-> len,
                               ext |-> ExtentNum(idx), last |-> LastExtent(idx + len),
                               limit |-> 0]]

(* The relaxed calls read the counter and store it in two accesses. *)
ReadCount(t, call, n) ==
    /\ count + n <= Room
    /\ Ensure(t, call, count, n)
    /\ Goto(t, "bump")
    /\ UNCHANGED <<count, capacity, extents, cells, owner, filled, shared, crashed, alive>>

FetchAddInTwo(t, call, n) == ReadCount(t, call, n)

FetchAdd(t, call, n) ==
    /\ count + n <= Room
    /\ count' = count + n
    /\ Ensure(t, call, count, n)
    /\ Goto(t, "load")
    /\ UNCHANGED <<capacity, extents, cells, owner, filled, shared, crashed, alive>>

StoreCount(t) ==
    /\ pc[t] = "bump"
    /\ count' = loc[t].idx + loc[t].len
    /\ Goto(t, "load")
    /\ UNCHANGED <<capacity, extents, cells, loc, owner, filled, shared, crashed, alive>>

AllocAtomic(t, n) == FetchAdd(t, "alloc_atomic", n)

AllocRelaxed(t, n) == ReadCount(t, "alloc_relaxed", n)

AddAtomic(t) == FetchAdd(t, "add_atomic", 1)

AddRelaxed(t) == ReadCount(t, "add_relaxed", 1)

(* mu_vec_set of an element the thread has been given *)
Set(t) ==
    /\ \E i \in Indices : owner[i] = t /\ Ensure(t, "set", i, 1)
    /\ Goto(t, "load")
    /\ UNCHANGED <<count, capacity, extents, cells, owner, filled, shared, crashed, alive>>

ResizeLast(t) ==
    /\ \E limit \in 1..Room :
        IF limit > capacity
        THEN Ensure(t, "resize", limit - 1, 1) /\ Goto(t, "load")
        ELSE UNCHANGED <<loc, pc>>
    /\ UNCHANGED <<count, capacity, extents, cells, owner, filled, shared, crashed, alive>>

(* mu_vec_resize reads the capacity and goes through the table from its    *)
(* first entry on.                                                         *)
Resize(t) ==
    /\ \E limit \in 1..Room :
        IF limit > capacity
        THEN Ensure(t, "resize", 0, limit) /\ Goto(t, "load")
        ELSE UNCHANGED <<loc, pc>>
    /\ UNCHANGED <<count, capacity, extents, cells, owner, filled, shared, crashed, alive>>

(* The relaxed calls are for a single writer (src/muvec.c:138): they do not *)
(* overlap with others.                                                    *)
Begin(t, call) ==
    /\ pc[t] = "idle"
    /\ shared => call \notin Relaxed
    /\ shared \/ \A u \in Threads : pc[u] = "idle"
    /\ alive
    /\ \/ \E n \in Counts : call = "alloc_atomic" /\ AllocAtomic(t, n)
       \/ \E n \in Counts : call = "alloc_relaxed" /\ AllocRelaxed(t, n)
       \/ call = "add_atomic" /\ AddAtomic(t)
       \/ call = "add_relaxed" /\ AddRelaxed(t)
       \/ call = "set" /\ Set(t)
       \/ call = "resize" /\ Resize(t)

-----------------------------------------------------------------------------
(* _mu_vec_ensure_extents; what it does past the end of the table is not   *)
(* defined.                                                                *)

LoadExtent(t) ==
    /\ pc[t] = "load"
    /\ loc[t].ext <= loc[t].last
    /\ IF loc[t].ext \notin Extents
       THEN crashed' = TRUE /\ UNCHANGED <<pc, loc>>
       ELSE /\ IF extents[loc[t].ext] = 0
               THEN Goto(t, "publish") /\ UNCHANGED loc
               ELSE loc' = [loc EXCEPT ![t].ext = @ + 1] /\ UNCHANGED pc
            /\ UNCHANGED crashed
    /\ UNCHANGED <<count, capacity, extents, cells, owner, filled, shared, alive>>

PublishAlways(t) ==
    /\ pc[t] = "publish"
    /\ extents' = [extents EXCEPT ![loc[t].ext] = Fresh]
    /\ cells' = [cells EXCEPT ![Fresh] = [i \in Indices |-> Nobody]]
    /\ loc' = [loc EXCEPT ![t].ext = @ + 1]
    /\ Goto(t, "load")
    /\ UNCHANGED <<count, capacity, owner, filled, shared, crashed, alive>>

(* _mu_vec_extent_alloc: a new block if there still is none. *)
Publish(t) ==
    /\ pc[t] = "publish"
    /\ \/ /\ extents[loc[t].ext] = 0
          /\ extents' = [extents EXCEPT ![loc[t].ext] = Fresh]
          /\ cells' = [cells EXCEPT ![Fresh] = [i \in Indices |-> Nobody]]
       \/ /\ extents[loc[t].ext] # 0 \/ SpuriousFail
          /\ UNCHANGED <<extents, cells>>
    /\ loc' = [loc EXCEPT ![t].ext = @ + 1]
    /\ Goto(t, "load")
    /\ UNCHANGED <<count, capacity, owner, filled, shared, crashed, alive>>

NewLimit(t) == ExtentSize(loc[t].last + 1) - 1

LoadCapacity(t) ==
    /\ \/ pc[t] = "load" /\ loc[t].ext > loc[t].last
       \/ pc[t] = "capacity"
    /\ loc' = [loc EXCEPT ![t].limit = capacity]
    /\ Goto(t, IF capacity >= NewLimit(t) THEN "ensured" ELSE "raise")
    /\ UNCHANGED <<count, capacity, extents, cells, owner, filled, shared, crashed, alive>>

RaiseAlways(t) ==
    /\ pc[t] = "raise"
    /\ capacity' = NewLimit(t) /\ Goto(t, "ensured")
    /\ UNCHANGED <<count, extents, cells, loc, owner, filled, shared, crashed, alive>>

RaiseCapacity(t) ==
    /\ pc[t] = "raise"
    /\ \/ capacity = loc[t].limit /\ capacity' = NewLimit(t) /\ Goto(t, "ensured")
       \/ /\ capacity # loc[t].limit \/ SpuriousFail
          /\ Goto(t, "capacity")
          /\ UNCHANGED capacity
    /\ UNCHANGED <<count, extents, cells, loc, owner, filled, shared, crashed, alive>>

-----------------------------------------------------------------------------
(* The end of a call *)

RangeOf(t) == loc[t].idx..(loc[t].idx + loc[t].len - 1)

StoreUnbased(t, i) ==
    LET e == ExtentNum(i)
    IN  IF extents[e] = 0
        THEN crashed' = TRUE /\ UNCHANGED cells
        ELSE /\ cells' = [cells EXCEPT ![extents[e]][i] = t]
             /\ UNCHANGED crashed

(* mu_vec_get and a store through the pointer it returns. *)
Store(t, i) ==
    LET e == ExtentNum(i)
    IN  IF extents[e] = 0
        THEN crashed' = TRUE /\ UNCHANGED cells
        ELSE /\ cells' = [cells EXCEPT ![extents[e]][i - ExtentBase(e)] = t]
             /\ UNCHANGED crashed

(* An allocation returns the first index of its range ... *)
ReturnRange(t) ==
    /\ pc[t] = "ensured"
    /\ loc[t].call \in {"alloc_atomic", "alloc_relaxed"}
    /\ owner' = [i \in Indices |-> IF i \in RangeOf(t) THEN t ELSE owner[i]]
    /\ filled' = filled \ RangeOf(t)
    /\ Goto(t, "idle")
    /\ loc' = [loc EXCEPT ![t] = Idle]
    /\ UNCHANGED <<count, capacity, extents, cells, shared, crashed, alive>>

(* ... and add and set write their element before they return. *)
ReturnStored(t) ==
    /\ pc[t] = "ensured"
    /\ loc[t].call \in {"add_atomic", "add_relaxed", "set"}
    /\ Store(t, loc[t].idx)
    /\ owner' = [owner EXCEPT ![loc[t].idx] = t]
    /\ filled' = filled \union {loc[t].idx}
    /\ Goto(t, "idle")
    /\ loc' = [loc EXCEPT ![t] = Idle]
    /\ UNCHANGED <<count, capacity, extents, shared, alive>>

ReturnResized(t) ==
    /\ pc[t] = "ensured"
    /\ loc[t].call = "resize"
    /\ Goto(t, "idle")
    /\ loc' = [loc EXCEPT ![t] = Idle]
    /\ UNCHANGED <<count, capacity, extents, cells, owner, filled, shared, crashed, alive>>

(* The caller writes an element it was given, by way of mu_vec_get. *)
Fill(t) ==
    /\ pc[t] = "idle"
    /\ alive
    /\ \E i \in Indices \ filled :
        /\ owner[i] = t
        /\ Store(t, i)
        /\ filled' = filled \union {i}
    /\ UNCHANGED <<count, capacity, extents, pc, loc, owner, shared, alive>>

DestroyExtents(last) == {e \in Extents : e <= last /\ extents[e] # 0}

(* mu_vec_destroy, by the last user. *)
Destroy ==
    /\ alive
    /\ \A t \in Threads : pc[t] = "idle"
    /\ LET last == IF capacity > 0 THEN ExtentNum(capacity - 1) ELSE -1
       IN  \E freed \in SUBSET DestroyExtents(last) :
            /\ freed = DestroyExtents(last) \/ SpuriousFail
            /\ extents' = [e \in Extents |-> IF e \in freed THEN 0 ELSE extents[e]]
    /\ alive' = FALSE
    /\ UNCHANGED <<count, capacity, cells, pc, loc, owner, filled, shared, crashed>>

-----------------------------------------------------------------------------
Step(t) ==
    \/ \E call \in Calls : Begin(t, call)
    \/ StoreCount(t)
    \/ LoadExtent(t)
    \/ Publish(t)
    \/ LoadCapacity(t)
    \/ RaiseCapacity(t)
    \/ ReturnRange(t)
    \/ ReturnStored(t)
    \/ ReturnResized(t)
    \/ Fill(t)

Next == Destroy \/ \E t \in Threads : Step(t)

Spec == Init /\ [][Next]_vars

-----------------------------------------------------------------------------
(* Properties *)

Labels == {"idle", "bump", "load", "publish", "capacity", "raise", "ensured"}

Local == [call : CallNames \union {"none"}, idx : Indices, len : 0..Room,
          ext : 0..(MaxExtent + 1), last : 0..(MaxExtent + 1), limit : 0..Room]

(* The types of the vector's fields and of the threads' variables. *)
TypeOK ==
    /\ count \in 0..Room
    /\ capacity \in 0..Room
    /\ extents \in [Extents -> Blocks \union {0}]
    /\ cells \in [Blocks -> [Indices -> Threads \union {Nobody}]]
    /\ pc \in [Threads -> Labels]
    /\ loc \in [Threads -> Local]
    /\ owner \in [Indices -> Threads \union {Nobody}]
    /\ filled \subseteq Indices
    /\ shared \in BOOLEAN
    /\ crashed \in BOOLEAN
    /\ alive \in BOOLEAN

Given == {i \in Indices : owner[i] # Nobody}

(* What has been written to an element stays there, at the same address,   *)
(* while the array grows and other threads write their elements.           *)
ContentKept ==
    alive => \A i \in filled :
        LET e == ExtentNum(i)
        IN  extents[e] # 0 /\ cells[extents[e]][i - ExtentBase(e)] = owner[i]

(* An extent that has been published is not moved or replaced.             *)
Immovable ==
    [][alive' => \A e \in Extents : extents[e] # 0 => extents'[e] = extents[e]]_vars

(* The elements of a range that was returned have memory: no element is    *)
(* written through a null pointer, and the table is not overrun.           *)
Backed == ~crashed /\ (alive => \A i \in Given : extents[ExtentNum(i)] # 0)

(* No index is given to two callers, and all are below the count.          *)
RangesDisjoint ==
    /\ \A i \in Given : i < count
    /\ \A t \in Threads :
        pc[t] = "ensured" /\ loc[t].call \in CallNames \ {"set", "resize"} =>
            \A i \in RangeOf(t) : owner[i] = Nobody

(* The thread is on its way through the table and has yet to pass e.       *)
Making(t, e) ==
    pc[t] \in {"load", "publish"} /\ loc[t].ext <= e /\ e <= loc[t].last

(* The capacity, which mu_vec_resize relies on when it finds it large      *)
(* enough, counts memory that is there or that a call which is under way   *)
(* is about to make: it may be raised over the extents of an allocation    *)
(* that another thread has not finished, but over no others.               *)
CapacityBacked ==
    alive => \A i \in Indices : i < capacity =>
        \/ extents[ExtentNum(i)] # 0
        \/ \E t \in Threads : Making(t, ExtentNum(i))

(* mu_vec_destroy frees every block.                                       *)
DestroyedFreed == ~alive => \A e \in Extents : extents[e] = 0
=============================================================================
