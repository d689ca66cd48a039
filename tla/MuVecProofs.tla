---------------------------- MODULE MuVecProofs ----------------------------
(***************************************************************************)
(* Theorems about MuVec for any number of threads, any sizes of their      *)
(* allocations and a table of any length, whether calls overlap or not:    *)
(* that no element is given to two callers, that what is given has memory, *)
(* that what is written stays where it is, and what the capacity counts.   *)
(***************************************************************************)
EXTENDS MuVec, FiniteSetTheorems, TLAPS

Allocs == CallNames \ {"set", "resize"}

(* What the proof needs of the types.                                      *)
LocalTypes ==
    /\ loc = [t \in Threads |-> loc[t]]
    /\ \A t \in Threads :
        /\ loc[t] = [call |-> loc[t].call, idx |-> loc[t].idx, len |-> loc[t].len,
                     ext |-> loc[t].ext, last |-> loc[t].last, limit |-> loc[t].limit]
        /\ loc[t].idx \in Nat
        /\ loc[t].len \in Nat
        /\ loc[t].idx + loc[t].len <= Room

Types ==
    /\ count \in Nat
    /\ pc \in [Threads -> Labels]
    /\ owner \in [Indices -> Threads \union {Nobody}]
    /\ LocalTypes

Busy(t) == pc[t] # "idle"
Allocating(t) == Busy(t) /\ loc[t].call \in Allocs

(* Calls that do not overlap are one at a time, and only they store the    *)
(* count after they have read it.                                          *)
OneAtATime ==
    /\ ~shared => \A t, u \in Threads : t # u => ~Busy(t) \/ ~Busy(u)
    /\ \A t \in Threads :
        pc[t] = "bump" => ~shared /\ loc[t].call \in Relaxed /\ loc[t].idx = count

(* A range that a thread is being given is below the count, once that is   *)
(* stored; it is nobody's, and shares no index with another.               *)
RangesHeld ==
    \A t \in Threads : Allocating(t) =>
        /\ pc[t] # "bump" => loc[t].idx + loc[t].len <= count
        /\ \A i \in Indices : i \in RangeOf(t) => owner[i] = Nobody
        /\ \A u \in Threads \ {t} : Allocating(u) =>
              \/ loc[t].idx + loc[t].len <= loc[u].idx
              \/ loc[u].idx + loc[u].len <= loc[t].idx

(* An add is of one element; a set is of an element that its caller owns.  *)
SingleElement ==
    \A t \in Threads : Busy(t) =>
        /\ loc[t].call \in {"add_atomic", "add_relaxed"} => loc[t].len = 1
        /\ loc[t].call = "set" => loc[t].idx \in Indices /\ owner[loc[t].idx] = t

GivenCounted == \A i \in Indices : owner[i] # Nobody => i < count

RangeInv == Types /\ OneAtATime /\ RangesHeld /\ SingleElement /\ GivenCounted

-----------------------------------------------------------------------------
(* The room in the table is an integer, and bounds its indices.            *)
LEMMA RoomBounds ==
    /\ Room \in Int
    /\ Indices \subseteq Nat
    /\ \A i \in Nat : i < Room <=> i \in Indices
<1>1. Room \in Int
  BY LimitAssumption DEF Room, ExtentBase
<1>2. QED
  BY <1>1 DEF Indices

(* The invariant says what the property does.                              *)
LEMMA RangesFollow == RangeInv => RangesDisjoint
<1> SUFFICES ASSUME RangeInv PROVE RangesDisjoint
  OBVIOUS
<1> USE DEF RangeInv
<1>1. \A i \in Given : i < count
  BY DEF GivenCounted, Given
<1>2. ASSUME NEW t \in Threads, pc[t] = "ensured", loc[t].call \in Allocs,
             NEW i \in RangeOf(t)
      PROVE  owner[i] = Nobody
  <2>1. i \in Nat /\ i < Room
    BY <1>2, RoomBounds DEF Types, LocalTypes, RangeOf
  <2>2. i \in Indices
    BY <2>1, RoomBounds
  <2>3. QED
    BY <1>2, <2>2 DEF RangesHeld, Allocating, Busy
<1>3. QED
  BY <1>1, <1>2 DEF RangesDisjoint, Allocs

(* It holds at first, ...                                                  *)
LEMMA RangeInit == Init => RangeInv
<1> SUFFICES ASSUME Init PROVE RangeInv
  OBVIOUS
<1> USE DEF Init
<1>1. LocalTypes
  <2>1. 0 <= Room
    BY LimitAssumption DEF Room, ExtentBase
  <2>2. QED
    BY <2>1 DEF LocalTypes, Idle
<1>2. Types
  BY <1>1 DEF Types, Labels
<1>3. QED
  BY <1>2 DEF RangeInv, OneAtATime, RangesHeld, SingleElement, GivenCounted,
              Allocating, Busy

-----------------------------------------------------------------------------
(* The steps *)

(* A step within a call changes neither the count nor the owners, and of   *)
(* the thread's variables only those that the invariant is not about.      *)
Within(t) ==
    /\ UNCHANGED <<count, owner, shared>>
    /\ \E label \in Labels \ {"idle", "bump"} : pc' = [pc EXCEPT ![t] = label]
    /\ Busy(t) /\ pc[t] # "bump"
    /\ \E ext, limit :
          loc' = [loc EXCEPT ![t] = [call |-> loc[t].call, idx |-> loc[t].idx,
                                     len |-> loc[t].len, ext |-> ext,
                                     last |-> loc[t].last, limit |-> limit]]

LEMMA WithinKeeps ==
    ASSUME RangeInv, NEW t \in Threads, Within(t) PROVE RangeInv'
<1> USE DEF RangeInv
<1>1. \A u \in Threads : /\ loc'[u].call = loc[u].call
                         /\ loc'[u].idx = loc[u].idx
                         /\ loc'[u].len = loc[u].len
  BY DEF Within, Types, LocalTypes
<1>2. \A u \in Threads : (Busy(u)' <=> Busy(u)) /\ (pc'[u] = "bump" <=> pc[u] = "bump")
  BY DEF Within, Types, Labels, Busy
<1>3. \A u \in Threads : (Allocating(u)' <=> Allocating(u)) /\ RangeOf(u)' = RangeOf(u)
  BY <1>1, <1>2 DEF Allocating, RangeOf
<1>4. Types'
  BY <1>1 DEF Within, Types, LocalTypes, Labels
<1>5. OneAtATime'
  BY <1>1, <1>2 DEF OneAtATime, Within
<1>6. RangesHeld'
  BY <1>1, <1>2, <1>3 DEF RangesHeld, Within
<1>7. SingleElement'
  BY <1>1, <1>2 DEF SingleElement, Within
<1>8. GivenCounted'
  BY DEF GivenCounted, Within
<1>9. QED
  BY <1>4, <1>5, <1>6, <1>7, <1>8

(* The end of a call gives the thread's range to it, or a part of it.      *)
Ending(t) ==
    /\ pc[t] = "ensured"
    /\ pc' = [pc EXCEPT ![t] = "idle"]
    /\ loc' = [loc EXCEPT ![t] = Idle]
    /\ UNCHANGED <<count, shared>>
    /\ owner' \in [Indices -> Threads \union {Nobody}]
    /\ \A i \in Indices :
          owner'[i] # owner[i] => Allocating(t) /\ i \in RangeOf(t) /\ owner'[i] = t

LEMMA EndingKeeps ==
    ASSUME RangeInv, NEW t \in Threads, Ending(t) PROVE RangeInv'
<1> USE DEF RangeInv
<1>1. ~Busy(t)' /\ loc'[t] = Idle /\ pc'[t] = "idle"
  BY DEF Ending, Types, LocalTypes, Busy
<1>2. \A u \in Threads \ {t} : loc'[u] = loc[u] /\ pc'[u] = pc[u]
  BY DEF Ending, Types, LocalTypes
<1>3. \A u \in Threads \ {t} :
        (Busy(u)' <=> Busy(u)) /\ (Allocating(u)' <=> Allocating(u)) /\ RangeOf(u)' = RangeOf(u)
  BY <1>2 DEF Busy, Allocating, RangeOf
<1>4. Allocating(t) => loc[t].idx + loc[t].len <= count
  BY DEF Ending, RangesHeld
<1>5. Types'
  <2>1. loc' = [u \in Threads |-> loc'[u]]
    BY DEF Ending, Types, LocalTypes
  <2>2. Idle.idx = 0 /\ Idle.len = 0
    BY DEF Idle
  <2>3. loc[t].idx + loc[t].len \in Nat /\ loc[t].idx + loc[t].len <= Room
    BY DEF Types, LocalTypes
  <2>4. Idle.idx \in Nat /\ Idle.len \in Nat /\ Idle.idx + Idle.len <= Room
    BY <2>2, <2>3, RoomBounds
  <2>5. Idle = [call |-> Idle.call, idx |-> Idle.idx, len |-> Idle.len, ext |-> Idle.ext,
                last |-> Idle.last, limit |-> Idle.limit]
    BY DEF Idle
  <2>6. LocalTypes'
    BY <1>1, <1>2, <2>1, <2>4, <2>5 DEF Types, LocalTypes
  <2>7. QED
    BY <2>6 DEF Ending, Types, Labels
<1>6. OneAtATime'
  BY <1>1, <1>2, <1>3 DEF OneAtATime, Ending
<1>7. RangesHeld'
  <2> SUFFICES ASSUME NEW u \in Threads, Allocating(u)'
               PROVE  /\ pc'[u] # "bump" => loc'[u].idx + loc'[u].len <= count'
                      /\ \A i \in Indices : i \in RangeOf(u)' => owner'[i] = Nobody
                      /\ \A w \in Threads \ {u} : Allocating(w)' =>
                            \/ loc'[u].idx + loc'[u].len <= loc'[w].idx
                            \/ loc'[w].idx + loc'[w].len <= loc'[u].idx
    BY DEF RangesHeld
  <2>1. u # t /\ Allocating(u) /\ loc'[u] = loc[u] /\ pc'[u] = pc[u] /\ RangeOf(u)' = RangeOf(u)
    BY <1>1, <1>2, <1>3 DEF Allocating
  <2>2. pc'[u] # "bump" => loc'[u].idx + loc'[u].len <= count'
    BY <2>1 DEF RangesHeld, Ending
  <2>3. ASSUME NEW i \in Indices, i \in RangeOf(u)' PROVE owner'[i] = Nobody
    <3>1. owner[i] = Nobody
      BY <2>1, <2>3 DEF RangesHeld
    <3>2. ASSUME Allocating(t) PROVE i \notin RangeOf(t)
      <4>1. \/ loc[t].idx + loc[t].len <= loc[u].idx
            \/ loc[u].idx + loc[u].len <= loc[t].idx
        BY <2>1, <3>2 DEF RangesHeld
      <4>2. i \in loc[u].idx..(loc[u].idx + loc[u].len - 1)
        BY <2>1, <2>3 DEF RangeOf
      <4>3. QED
        BY <4>1, <4>2 DEF RangeOf, Types, LocalTypes
    <3>3. QED
      BY <3>1, <3>2 DEF Ending
  <2>4. ASSUME NEW w \in Threads \ {u}, Allocating(w)'
        PROVE  \/ loc'[u].idx + loc'[u].len <= loc'[w].idx
               \/ loc'[w].idx + loc'[w].len <= loc'[u].idx
    <3>1. w # t /\ Allocating(w) /\ loc'[w] = loc[w]
      BY <2>4, <1>1, <1>2, <1>3 DEF Allocating
    <3>2. QED
      BY <2>1, <3>1 DEF RangesHeld
  <2>5. QED
    BY <2>2, <2>3, <2>4
<1>8. SingleElement'
  <2> SUFFICES ASSUME NEW u \in Threads, Busy(u)'
               PROVE  /\ loc'[u].call \in {"add_atomic", "add_relaxed"} => loc'[u].len = 1
                      /\ loc'[u].call = "set" =>
                            loc'[u].idx \in Indices /\ owner'[loc'[u].idx] = u
    BY DEF SingleElement
  <2>1. u # t /\ Busy(u) /\ loc'[u] = loc[u]
    BY <1>1, <1>2, <1>3
  <2>2. ASSUME loc[u].call = "set" PROVE owner'[loc[u].idx] = u
    <3>1. loc[u].idx \in Indices /\ owner[loc[u].idx] = u
      BY <2>1, <2>2 DEF SingleElement
    <3>2. u # Nobody
      BY NobodyAssumption
    <3>3. Allocating(t) => loc[u].idx \notin RangeOf(t)
      BY <3>1, <3>2 DEF RangesHeld
    <3>4. QED
      BY <3>1, <3>3 DEF Ending
  <2>3. QED
    BY <2>1, <2>2 DEF SingleElement
<1>9. GivenCounted'
  <2> SUFFICES ASSUME NEW i \in Indices, owner'[i] # Nobody PROVE i < count'
    BY DEF GivenCounted
  <2>1. CASE owner'[i] = owner[i]
    BY <2>1 DEF GivenCounted, Ending
  <2>2. CASE owner'[i] # owner[i]
    BY <2>2, <1>4, RoomBounds DEF Ending, RangeOf, Types, LocalTypes
  <2>3. QED
    BY <2>1, <2>2
<1>10. QED
  BY <1>5, <1>6, <1>7, <1>8, <1>9

(* The beginning of a call.                                                *)
Starting(t, call, idx, len, label) ==
    /\ pc[t] = "idle" /\ (shared \/ \A u \in Threads : ~Busy(u))
    /\ idx \in Nat /\ len \in Nat /\ idx + len <= Room
    /\ label \in {"bump", "load"} /\ pc' = [pc EXCEPT ![t] = label]
    /\ \E ext, last :
          loc' = [loc EXCEPT ![t] = [call |-> call, idx |-> idx, len |-> len,
                                     ext |-> ext, last |-> last, limit |-> 0]]
    /\ UNCHANGED <<owner, shared>>
    /\ \/ /\ call \in Allocs /\ idx = count
          /\ call \in {"add_atomic", "add_relaxed"} => len = 1
          /\ \/ label = "load" /\ count' = count + len
             \/ label = "bump" /\ count' = count /\ ~shared /\ call \in Relaxed
       \/ /\ call \in {"set", "resize"} /\ label = "load" /\ count' = count
          /\ call = "set" => idx \in Indices /\ owner[idx] = t
          /\ call = "resize" => idx = 0

LEMMA StartingKeeps ==
    ASSUME RangeInv, NEW t \in Threads, NEW call, NEW idx, NEW len, NEW label,
           Starting(t, call, idx, len, label)
    PROVE  RangeInv'
<1> USE DEF RangeInv
<1>1. loc'[t].call = call /\ loc'[t].idx = idx /\ loc'[t].len = len /\ pc'[t] = label
  BY DEF Starting, Types, LocalTypes
<1>2. \A u \in Threads \ {t} : loc'[u] = loc[u] /\ pc'[u] = pc[u]
  BY DEF Starting, Types, LocalTypes
<1>3. \A u \in Threads \ {t} :
        (Busy(u)' <=> Busy(u)) /\ (Allocating(u)' <=> Allocating(u)) /\ RangeOf(u)' = RangeOf(u)
  BY <1>2 DEF Busy, Allocating, RangeOf
<1>4. count' \in Nat /\ count <= count'
  BY DEF Starting, Types
<1>5. \A u \in Threads : pc[u] # "bump"
  BY DEF Starting, OneAtATime, Busy
<1>6. \A u \in Threads \ {t} : Allocating(u) => loc[u].idx + loc[u].len <= count
  BY <1>5 DEF RangesHeld
<1>7. Types'
  BY <1>1, <1>2, <1>4 DEF Starting, Types, LocalTypes, Labels
<1>8. OneAtATime'
  <2>1. ~shared' => \A u \in Threads \ {t} : ~Busy(u)'
    BY <1>3 DEF Starting
  <2>2. \A u \in Threads \ {t} : pc'[u] # "bump"
    BY <1>2, <1>5
  <2>3. pc'[t] = "bump" => ~shared' /\ loc'[t].call \in Relaxed /\ loc'[t].idx = count'
    BY <1>1 DEF Starting
  <2>4. QED
    BY <2>1, <2>2, <2>3 DEF OneAtATime
<1>9. RangesHeld'
  <2> SUFFICES ASSUME NEW u \in Threads, Allocating(u)'
               PROVE  /\ pc'[u] # "bump" => loc'[u].idx + loc'[u].len <= count'
                      /\ \A i \in Indices : i \in RangeOf(u)' => owner'[i] = Nobody
                      /\ \A w \in Threads \ {u} : Allocating(w)' =>
                            \/ loc'[u].idx + loc'[u].len <= loc'[w].idx
                            \/ loc'[w].idx + loc'[w].len <= loc'[u].idx
    BY DEF RangesHeld
  <2>1. CASE u = t
    <3>1. call \in Allocs /\ idx = count
      BY <1>1, <2>1 DEF Starting, Allocating, Allocs
    <3>2. pc'[u] # "bump" => loc'[u].idx + loc'[u].len <= count'
      BY <1>1, <2>1, <3>1 DEF Starting, Types, Allocs
    <3>3. ASSUME NEW i \in Indices, i \in RangeOf(u)' PROVE owner'[i] = Nobody
      <4>1. i >= count
        BY <1>1, <2>1, <3>1, <3>3 DEF RangeOf, Types
      <4>2. owner[i] = Nobody
        BY <4>1, RoomBounds DEF GivenCounted, Types
      <4>3. QED
        BY <4>2 DEF Starting
    <3>4. \A w \in Threads \ {u} : Allocating(w)' => loc'[w].idx + loc'[w].len <= loc'[u].idx
      BY <1>1, <1>2, <1>3, <1>6, <2>1, <3>1
    <3>5. QED
      BY <3>2, <3>3, <3>4
  <2>2. CASE u # t
    <3>1. Allocating(u) /\ loc'[u] = loc[u] /\ RangeOf(u)' = RangeOf(u)
      BY <1>2, <1>3, <2>2
    <3>2. loc'[u].idx + loc'[u].len <= count'
      <4>1. loc[u].idx + loc[u].len <= count /\ loc[u].idx \in Nat /\ loc[u].len \in Nat
        BY <1>6, <2>2, <3>1 DEF Types, LocalTypes
      <4>2. QED
        BY <4>1, <1>4, <3>1 DEF Types
    <3>3. \A i \in Indices : i \in RangeOf(u)' => owner'[i] = Nobody
      BY <3>1 DEF RangesHeld, Starting
    <3>4. ASSUME NEW w \in Threads \ {u}, Allocating(w)'
          PROVE  \/ loc'[u].idx + loc'[u].len <= loc'[w].idx
                 \/ loc'[w].idx + loc'[w].len <= loc'[u].idx
      <4>1. CASE w = t
        <5>1. call \in Allocs /\ idx = count
          BY <1>1, <3>4, <4>1 DEF Starting, Allocating, Allocs
        <5>2. QED
          BY <1>1, <1>6, <2>2, <3>1, <4>1, <5>1
      <4>2. CASE w # t
        <5>1. Allocating(w) /\ loc'[w] = loc[w]
          BY <1>2, <1>3, <3>4, <4>2
        <5>2. QED
          BY <3>1, <5>1 DEF RangesHeld
      <4>3. QED
        BY <4>1, <4>2
    <3>5. QED
      BY <3>2, <3>3, <3>4
  <2>3. QED
    BY <2>1, <2>2
<1>10. SingleElement'
  <2> SUFFICES ASSUME NEW u \in Threads, Busy(u)'
               PROVE  /\ loc'[u].call \in {"add_atomic", "add_relaxed"} => loc'[u].len = 1
                      /\ loc'[u].call = "set" =>
                            loc'[u].idx \in Indices /\ owner'[loc'[u].idx] = u
    BY DEF SingleElement
  <2>1. CASE u = t
    BY <1>1, <2>1 DEF Starting, Allocs
  <2>2. CASE u # t
    BY <1>2, <1>3, <2>2 DEF SingleElement, Starting
  <2>3. QED
    BY <2>1, <2>2
<1>11. GivenCounted'
  BY <1>4, RoomBounds DEF GivenCounted, Starting, Types
<1>12. QED
  BY <1>7, <1>8, <1>9, <1>10, <1>11

(* The relaxed calls store the count they have counted up.                 *)
LEMMA StoreCountKeeps ==
    ASSUME RangeInv, NEW t \in Threads, StoreCount(t) PROVE RangeInv'
<1> USE DEF RangeInv, StoreCount, Goto
<1>1. ~shared /\ loc[t].call \in Relaxed /\ loc[t].idx = count
  BY DEF OneAtATime
<1>2. \A u \in Threads \ {t} : ~Busy(u)
  BY <1>1 DEF OneAtATime, Busy
<1>3. \A u \in Threads : Busy(u)' <=> Busy(u)
  BY DEF Busy, Types
<1>4. pc'[t] = "load" /\ \A u \in Threads \ {t} : pc'[u] = "idle"
  BY <1>2 DEF Busy, Types
<1>5. count' \in Nat /\ count <= count'
  BY <1>1 DEF Types, LocalTypes
<1>6. Types'
  BY <1>5 DEF Types, LocalTypes, Labels
<1>7. OneAtATime'
  BY <1>2, <1>3, <1>4 DEF OneAtATime
<1>8. RangesHeld'
  BY <1>2, <1>3 DEF RangesHeld, Allocating, RangeOf
<1>9. SingleElement'
  BY <1>3 DEF SingleElement
<1>10. GivenCounted'
  BY <1>5, RoomBounds DEF GivenCounted, Types
<1>11. QED
  BY <1>6, <1>7, <1>8, <1>9, <1>10

(* What the invariant is about stays as it is when only memory changes.    *)
LEMMA MemoryKeeps ==
    ASSUME RangeInv, UNCHANGED <<count, pc, loc, owner, shared>> PROVE RangeInv'
  BY DEF RangeInv, Types, LocalTypes, OneAtATime, RangesHeld, SingleElement, GivenCounted,
         Allocating, Busy, RangeOf

(* Each call begins as it is said above.                                   *)
Starts(t, call) ==
    \E idx \in Nat, len \in Nat, label \in {"bump", "load"} : Starting(t, call, idx, len, label)

LEMMA BeginStarts ==
    ASSUME RangeInv, NEW t \in Threads, NEW call \in Calls, Begin(t, call)
    PROVE  Starts(t, call) \/ UNCHANGED <<count, pc, loc, owner, shared>>
<1>1. call \in CallNames
  BY CallsAssumption
<1>2. pc[t] = "idle" /\ (shared \/ \A u \in Threads : ~Busy(u))
  BY DEF Begin, Busy
<1>3. call \in Relaxed => ~shared
  BY DEF Begin
<1>4. count \in Nat
  BY DEF RangeInv, Types
<1>5. ASSUME NEW n \in Nat, FetchAdd(t, call, n), call \in Allocs,
             call \in {"add_atomic", "add_relaxed"} => n = 1
      PROVE  Starts(t, call)
  <2>1. Starting(t, call, count, n, "load")
    BY <1>2, <1>4, <1>5 DEF Starting, FetchAdd, Ensure, Goto
  <2>2. QED
    BY <1>4, <2>1 DEF Starts
<1>6. ASSUME call \in Relaxed, NEW n \in Nat, ReadCount(t, call, n),
             call = "add_relaxed" => n = 1
      PROVE  Starts(t, call)
  <2>1. call \in Allocs
    BY <1>6 DEF Allocs, Relaxed, CallNames
  <2>2. call \in {"add_atomic", "add_relaxed"} => n = 1
    BY <1>6 DEF Relaxed
  <2>3. ~shared
    BY <1>3, <1>6
  <2>4. Starting(t, call, count, n, "bump")
    BY <1>2, <1>4, <1>6, <2>1, <2>2, <2>3 DEF Starting, ReadCount, Ensure, Goto
  <2>5. QED
    BY <1>4, <2>4 DEF Starts
<1>7. CASE \E n \in Counts : call = "alloc_atomic" /\ AllocAtomic(t, n)
  BY <1>5, <1>7, CountsAssumption DEF AllocAtomic, Allocs, CallNames
<1>8. CASE \E n \in Counts : call = "alloc_relaxed" /\ AllocRelaxed(t, n)
  BY <1>6, <1>8, CountsAssumption DEF AllocRelaxed, Relaxed
<1>9. CASE call = "add_atomic" /\ AddAtomic(t)
  BY <1>5, <1>9 DEF AddAtomic, Allocs, CallNames
<1>10. CASE call = "add_relaxed" /\ AddRelaxed(t)
  BY <1>6, <1>10 DEF AddRelaxed, Relaxed
<1>11. CASE call = "set" /\ Set(t)
  <2>1. PICK i \in Indices : owner[i] = t /\ Ensure(t, "set", i, 1)
    BY <1>11 DEF Set
  <2>2. i \in Nat /\ i + 1 <= Room
    BY RoomBounds
  <2>3. Starting(t, "set", i, 1, "load")
    BY <1>2, <1>11, <2>1, <2>2 DEF Starting, Set, Ensure, Goto
  <2>4. QED
    BY <1>11, <2>2, <2>3 DEF Starts
<1>12. CASE call = "resize" /\ Resize(t)
  <2>1. PICK limit \in 1..Room :
            \/ Ensure(t, "resize", 0, limit) /\ Goto(t, "load")
            \/ UNCHANGED <<loc, pc>>
    BY <1>12 DEF Resize
  <2>2. CASE UNCHANGED <<loc, pc>>
    BY <1>12, <2>2 DEF Resize
  <2>3. CASE Ensure(t, "resize", 0, limit) /\ Goto(t, "load")
    <3>1. limit \in Nat /\ 0 + limit <= Room
      BY RoomBounds
    <3>2. Starting(t, "resize", 0, limit, "load")
      BY <1>2, <1>12, <2>3, <3>1 DEF Starting, Resize, Ensure, Goto
    <3>3. QED
      BY <1>12, <3>1, <3>2 DEF Starts
  <2>4. QED
    BY <2>1, <2>2, <2>3
<1>13. QED
  BY <1>7, <1>8, <1>9, <1>10, <1>11, <1>12 DEF Begin

LEMMA BeginKeeps ==
    ASSUME RangeInv, NEW t \in Threads, NEW call \in Calls, Begin(t, call) PROVE RangeInv'
<1>1. CASE Starts(t, call)
  BY <1>1, StartingKeeps DEF Starts
<1>2. CASE UNCHANGED <<count, pc, loc, owner, shared>>
  BY <1>2, MemoryKeeps
<1>3. QED
  BY <1>1, <1>2, BeginStarts

(* Records with a field changed.                                           *)
LEMMA RecordExt ==
    \A r : r = [call |-> r.call, idx |-> r.idx, len |-> r.len, ext |-> r.ext,
                last |-> r.last, limit |-> r.limit] =>
        \A e : [r EXCEPT !.ext = e] = [call |-> r.call, idx |-> r.idx, len |-> r.len,
                                       ext |-> e, last |-> r.last, limit |-> r.limit]
  OBVIOUS

LEMMA RecordLimit ==
    \A r : r = [call |-> r.call, idx |-> r.idx, len |-> r.len, ext |-> r.ext,
                last |-> r.last, limit |-> r.limit] =>
        \A l : [r EXCEPT !.limit = l] = [call |-> r.call, idx |-> r.idx, len |-> r.len,
                                         ext |-> r.ext, last |-> r.last, limit |-> l]
  OBVIOUS

(* The steps of _mu_vec_ensure_extents change a thread's place only.       *)
LEMMA EnsureWithin ==
    ASSUME RangeInv, NEW t \in Threads,
           LoadExtent(t) \/ Publish(t) \/ LoadCapacity(t) \/ RaiseCapacity(t)
    PROVE  Within(t) \/ UNCHANGED <<count, pc, loc, owner, shared>>
<1>1. loc[t] = [call |-> loc[t].call, idx |-> loc[t].idx, len |-> loc[t].len,
                ext |-> loc[t].ext, last |-> loc[t].last, limit |-> loc[t].limit]
  BY DEF RangeInv, Types, LocalTypes
<1>2. loc = [loc EXCEPT ![t] = [call |-> loc[t].call, idx |-> loc[t].idx, len |-> loc[t].len,
                                ext |-> loc[t].ext, last |-> loc[t].last,
                                limit |-> loc[t].limit]]
  BY <1>1 DEF RangeInv, Types, LocalTypes
<1>3. \A e : [loc EXCEPT ![t].ext = e] =
                [loc EXCEPT ![t] = [call |-> loc[t].call, idx |-> loc[t].idx,
                                    len |-> loc[t].len, ext |-> e,
                                    last |-> loc[t].last, limit |-> loc[t].limit]]
  BY <1>1, RecordExt
<1>4. \A l : [loc EXCEPT ![t].limit = l] =
                [loc EXCEPT ![t] = [call |-> loc[t].call, idx |-> loc[t].idx,
                                    len |-> loc[t].len, ext |-> loc[t].ext,
                                    last |-> loc[t].last, limit |-> l]]
  BY <1>1, RecordLimit
<1>5. CASE LoadExtent(t)
  <2>1. CASE UNCHANGED <<pc, loc>>
    BY <1>5, <2>1 DEF LoadExtent
  <2>2. CASE Goto(t, "publish") /\ UNCHANGED loc
    <3>1. Within(t)
      BY <1>2, <1>5, <2>2 DEF Within, LoadExtent, Goto, Labels, Busy
    <3>2. QED
      BY <3>1
  <2>3. CASE loc' = [loc EXCEPT ![t].ext = @ + 1] /\ UNCHANGED pc
    <3>1. pc' = [pc EXCEPT ![t] = "load"]
      BY <1>5, <2>3 DEF LoadExtent, RangeInv, Types
    <3>2. \E ext, limit :
            loc' = [loc EXCEPT ![t] = [call |-> loc[t].call, idx |-> loc[t].idx,
                                       len |-> loc[t].len, ext |-> ext,
                                       last |-> loc[t].last, limit |-> limit]]
      <4>1. loc' = [loc EXCEPT ![t] = [call |-> loc[t].call, idx |-> loc[t].idx,
                                       len |-> loc[t].len, ext |-> loc[t].ext + 1,
                                       last |-> loc[t].last, limit |-> loc[t].limit]]
        BY <1>3, <2>3
      <4>2. QED
        BY <4>1
    <3>3. Busy(t) /\ pc[t] # "bump" /\ "load" \in Labels \ {"idle", "bump"}
      BY <1>5 DEF LoadExtent, Busy, Labels
    <3>4. UNCHANGED <<count, owner, shared>>
      BY <1>5 DEF LoadExtent
    <3>5. Within(t)
      BY <3>1, <3>2, <3>3, <3>4 DEF Within
    <3>6. QED
      BY <3>5
  <2>4. QED
    BY <1>5, <2>1, <2>2, <2>3 DEF LoadExtent
<1>6. CASE Publish(t)
  <2>1. Within(t)
    BY <1>3, <1>6, ZenonT(40) DEF Within, Publish, Goto, Labels, Busy
  <2>2. QED
    BY <2>1
<1>7. CASE LoadCapacity(t)
  <2>1. Within(t)
    BY <1>4, <1>7 DEF Within, LoadCapacity, Goto, Labels, Busy
  <2>2. QED
    BY <2>1
<1>8. CASE RaiseCapacity(t)
  <2>1. Within(t)
    BY <1>2, <1>8 DEF Within, RaiseCapacity, Goto, Labels, Busy
  <2>2. QED
    BY <2>1
<1>9. QED
  BY <1>5, <1>6, <1>7, <1>8

LEMMA EnsureKeeps ==
    ASSUME RangeInv, NEW t \in Threads,
           LoadExtent(t) \/ Publish(t) \/ LoadCapacity(t) \/ RaiseCapacity(t)
    PROVE  RangeInv'
<1>1. CASE Within(t)
  BY <1>1, WithinKeeps
<1>2. CASE UNCHANGED <<count, pc, loc, owner, shared>>
  BY <1>2, MemoryKeeps
<1>3. QED
  BY <1>1, <1>2, EnsureWithin

(* And each call ends as it is said above.                                 *)
LEMMA ReturnEnds ==
    ASSUME RangeInv, NEW t \in Threads,
           ReturnRange(t) \/ ReturnStored(t) \/ ReturnResized(t)
    PROVE  Ending(t)
<1>1. owner \in [Indices -> Threads \union {Nobody}]
  BY DEF RangeInv, Types
<1>2. CASE ReturnRange(t)
  <2>1. Allocating(t)
    BY <1>2 DEF ReturnRange, Allocating, Busy, Allocs, CallNames, Relaxed
  <2>2. Ending(t)
    BY <1>1, <1>2, <2>1 DEF ReturnRange, Ending, Goto
  <2>3. QED
    BY <2>2
<1>3. CASE ReturnStored(t)
  <2> DEFINE i == loc[t].idx
  <2>1. Busy(t) /\ i \in Nat /\ pc[t] = "ensured"
    BY <1>3 DEF ReturnStored, Busy, RangeInv, Types, LocalTypes
  <2>2. CASE loc[t].call = "set"
    <3>1. owner' = owner
      BY <1>1, <1>3, <2>1, <2>2 DEF ReturnStored, RangeInv, SingleElement
    <3>2. Ending(t)
      BY <1>1, <1>3, <3>1 DEF ReturnStored, Ending, Goto
    <3>3. QED
      BY <3>2
  <2>3. CASE loc[t].call \in {"add_atomic", "add_relaxed"}
    <3>1. Allocating(t)
      BY <2>1, <2>3 DEF Allocating, Allocs, CallNames, Relaxed
    <3>2. i \in RangeOf(t)
      BY <2>1, <2>3 DEF RangeInv, SingleElement, RangeOf
    <3>3. owner' \in [Indices -> Threads \union {Nobody}]
      BY <1>1, <1>3 DEF ReturnStored
    <3>4. Ending(t)
      BY <1>1, <1>3, <3>1, <3>2, <3>3 DEF ReturnStored, Ending, Goto
    <3>5. QED
      BY <3>4
  <2>4. QED
    BY <1>3, <2>2, <2>3 DEF ReturnStored
<1>4. CASE ReturnResized(t)
  <2>1. Ending(t)
    BY <1>1, <1>4 DEF ReturnResized, Ending, Goto
  <2>2. QED
    BY <2>1
<1>5. QED
  BY <1>2, <1>3, <1>4

LEMMA ReturnKeeps ==
    ASSUME RangeInv, NEW t \in Threads,
           ReturnRange(t) \/ ReturnStored(t) \/ ReturnResized(t)
    PROVE  RangeInv'
  BY ReturnEnds, EndingKeeps

(* ... and every step keeps it.                                            *)
LEMMA RangeNext == RangeInv /\ [Next]_vars => RangeInv'
<1> SUFFICES ASSUME RangeInv, [Next]_vars PROVE RangeInv'
  OBVIOUS
<1>1. CASE UNCHANGED vars
  BY <1>1, MemoryKeeps DEF vars
<1>2. CASE Destroy
  BY <1>2, MemoryKeeps DEF Destroy
<1>3. ASSUME NEW t \in Threads, Step(t) PROVE RangeInv'
  <2>1. CASE \E call \in Calls : Begin(t, call)
    BY <2>1, BeginKeeps
  <2>2. CASE StoreCount(t)
    BY <2>2, StoreCountKeeps
  <2>3. CASE LoadExtent(t) \/ Publish(t) \/ LoadCapacity(t) \/ RaiseCapacity(t)
    BY <2>3, EnsureKeeps
  <2>4. CASE ReturnRange(t) \/ ReturnStored(t) \/ ReturnResized(t)
    BY <2>4, ReturnKeeps
  <2>5. CASE Fill(t)
    BY <2>5, MemoryKeeps DEF Fill
  <2>6. QED
    BY <1>3, <2>1, <2>2, <2>3, <2>4, <2>5 DEF Step
<1>4. QED
  BY <1>1, <1>2, <1>3 DEF Next

(* No element is given to two callers, and none beyond the count: whatever *)
(* calls of the array's functions overlap, as long as the relaxed ones do  *)
(* not.                                                                    *)
THEOREM RangesDisjointAlways == Spec => []RangesDisjoint
  BY RangeInit, RangeNext, RangesFollow, PTL DEF Spec

(* The table has its entries, whatever they are.                           *)
Table == extents = [e \in Extents |-> extents[e]]

LEMMA TableAlways == Spec => []Table
<1>1. Init => Table
  BY DEF Init, Table
<1>2. Table /\ [Next]_vars => Table'
  <2> SUFFICES ASSUME Table, [Next]_vars PROVE Table'
    OBVIOUS
  <2>1. CASE UNCHANGED extents
    BY <2>1 DEF Table
  <2>2. CASE Destroy
    BY <2>2 DEF Destroy, Table
  <2>3. ASSUME NEW t \in Threads, Publish(t) PROVE Table'
    BY <2>3 DEF Publish, Table
  <2>4. ASSUME NEW t \in Threads, Step(t), ~Publish(t) PROVE UNCHANGED extents
    BY <2>4 DEF Step, Begin, AllocAtomic, AllocRelaxed, AddAtomic, AddRelaxed,
        FetchAdd, ReadCount, Set, Resize, StoreCount, LoadExtent, LoadCapacity,
        RaiseCapacity, ReturnRange, ReturnStored, ReturnResized, Fill
  <2>5. QED
    BY <2>1, <2>2, <2>3, <2>4 DEF Next, vars
<1>3. QED
  BY <1>1, <1>2, PTL DEF Spec

(* A block that has been published is neither moved nor replaced, so that  *)
(* the pointers mu_vec_get has returned stay good.                         *)
THEOREM NeverMoved == Spec => Immovable
<1>1. Table /\ [Next]_vars =>
        [alive' => \A e \in Extents : extents[e] # 0 => extents'[e] = extents[e]]_vars
  <2> SUFFICES ASSUME Table, Next, alive', NEW e \in Extents, extents[e] # 0
               PROVE  extents'[e] = extents[e]
    OBVIOUS
  <2>1. ~Destroy
    BY DEF Destroy
  <2>2. PICK t \in Threads : Step(t)
    BY <2>1 DEF Next
  <2>3. CASE Publish(t)
    BY <2>3 DEF Publish, Table
  <2>4. CASE ~Publish(t)
    BY <2>2, <2>4 DEF Step, Begin, AllocAtomic, AllocRelaxed, AddAtomic, AddRelaxed,
        FetchAdd, ReadCount, Set, Resize, StoreCount, LoadExtent, LoadCapacity,
        RaiseCapacity, ReturnRange, ReturnStored, ReturnResized, Fill
  <2>5. QED
    BY <2>3, <2>4
<1>2. QED
  BY <1>1, TableAlways, PTL DEF Spec, Immovable

-----------------------------------------------------------------------------
(* Memory.  These theorems are about machines whose exchange does not fail *)
(* for no reason, and allocations that are not empty; neither can be left  *)
(* out (see the README).  ExtentsOrdered is a fact about powers of two.    *)

Plain == ~SpuriousFail /\ 0 \notin Counts /\ ExtentsOrdered

MemoryTypes ==
    /\ extents \in [Extents -> Blocks \union {0}]
    /\ cells \in [Blocks -> [Indices -> Threads \union {Nobody}]]
    /\ filled \subseteq Given

(* No block is in two places of the table.                                 *)
BlocksDiffer ==
    \A d, e \in Extents : extents[d] # 0 /\ extents[d] = extents[e] => d = e

(* A call goes from the extent of its first element to that of its last,   *)
(* and those that it has passed have memory.                               *)
Passed ==
    \A t \in Threads : Busy(t) =>
        /\ loc[t].len > 0
        /\ loc[t].last = ExtentNum(loc[t].idx + loc[t].len - 1)
        /\ loc[t].ext \in Nat
        /\ pc[t] = "publish" => loc[t].ext <= loc[t].last
        /\ pc[t] \in {"capacity", "raise", "ensured"} => loc[t].ext > loc[t].last
        /\ ExtentNum(loc[t].idx) <= loc[t].ext
        /\ \A e \in Extents :
              ExtentNum(loc[t].idx) <= e /\ e < loc[t].ext => extents[e] # 0

GivenBacked == alive => \A i \in Given : extents[ExtentNum(i)] # 0

DestroyedLast == ~alive => \A t \in Threads : ~Busy(t)

MemoryInv ==
    /\ MemoryTypes
    /\ BlocksDiffer
    /\ Passed
    /\ GivenBacked
    /\ DestroyedLast
    /\ ~crashed
    /\ ContentKept

(* There is one block more than there are extents, so that one is free.    *)
LEMMA FreshBlock ==
    ASSUME extents \in [Extents -> Blocks \union {0}]
    PROVE  Fresh \in Blocks /\ \A e \in Extents : extents[e] # Fresh
<1> DEFINE Used == {extents[e] : e \in Extents}
<1>1. IsFiniteSet(Extents) /\ Cardinality(Extents) \in Nat
  BY LimitAssumption, FS_Interval, FS_CardinalityType DEF Extents
<1>2. extents \in Surjection(Extents, Used)
  BY DEF Surjection
<1>3. IsFiniteSet(Used) /\ Cardinality(Used) <= Cardinality(Extents)
  BY <1>1, <1>2, FS_Surjection
<1>4. IsFiniteSet(Blocks) /\ Cardinality(Blocks) = Cardinality(Extents) + 1
  BY <1>1, FS_Interval DEF Blocks
<1>5. ~ (Blocks \subseteq Used)
  <2>1. Blocks \subseteq Used => Cardinality(Blocks) <= Cardinality(Used)
    BY <1>3, FS_Subset
  <2>2. Cardinality(Used) \in Nat
    BY <1>3, FS_CardinalityType
  <2>3. QED
    BY <1>1, <1>3, <1>4, <2>1, <2>2
<1>6. \E b \in Blocks : \A e \in Extents : extents[e] # b
  BY <1>5
<1>7. QED
  BY <1>6 DEF Fresh

(* The memory's invariant holds at first, ...                              *)
LEMMA MemoryInit == ASSUME Plain PROVE Init => MemoryInv
<1> SUFFICES ASSUME Init PROVE MemoryInv
  OBVIOUS
<1> USE DEF Init
<1>1. PICK start : extents = [e \in Extents |-> IF e < start THEN e + 1 ELSE 0]
  OBVIOUS
<1>2. Blocks = 1..(MaxExtent + 2)
  BY LimitAssumption, FS_Interval DEF Blocks, Extents
<1>3. \A e \in Extents : e + 1 \in Blocks
  BY <1>2, LimitAssumption DEF Extents
<1>4. MemoryTypes
  BY <1>1, <1>3 DEF MemoryTypes
<1>5. BlocksDiffer
  BY <1>1, LimitAssumption DEF BlocksDiffer, Extents
<1>6. QED
  BY <1>4, <1>5 DEF MemoryInv, Passed, GivenBacked, DestroyedLast, ContentKept, Given, Busy

(* What memory there is, and where a thread is, when only that changes.    *)
Steady == UNCHANGED <<extents, cells, owner, filled, crashed, alive>>

LEMMA SteadyKeeps ==
    ASSUME MemoryInv, Steady, Passed', DestroyedLast' PROVE MemoryInv'
<1> USE DEF MemoryInv, Steady
<1>1. MemoryTypes' /\ BlocksDiffer' /\ GivenBacked'
  BY DEF MemoryTypes, BlocksDiffer, GivenBacked, Given
<1>2. ContentKept'
  BY DEF ContentKept
<1>3. QED
  BY <1>1, <1>2

(* A call that begins has its first extent before it, and passed none.     *)
LEMMA EnsurePassed ==
    ASSUME Plain, RangeInv, MemoryInv, NEW t \in Threads, NEW call,
           NEW idx \in Nat, NEW len \in Nat, len > 0, idx + len <= Room,
           Ensure(t, call, idx, len), alive, Steady,
           pc' = [pc EXCEPT ![t] = "bump"] \/ pc' = [pc EXCEPT ![t] = "load"]
    PROVE  MemoryInv'
<1>1. loc'[t].idx = idx /\ loc'[t].len = len /\ loc'[t].ext = ExtentNum(idx)
      /\ loc'[t].last = LastExtent(idx + len)
  BY DEF Ensure, RangeInv, Types, LocalTypes
<1>2. \A u \in Threads \ {t} : loc'[u] = loc[u] /\ pc'[u] = pc[u]
  BY DEF Ensure, RangeInv, Types, LocalTypes
<1>3. pc'[t] \in {"bump", "load"}
  BY DEF RangeInv, Types
<1>4. LastExtent(idx + len) = ExtentNum(idx + len - 1)
  BY DEF LastExtent
<1>5. idx \in Indices
  BY RoomBounds
<1>6. ExtentNum(idx) \in Nat
  BY <1>5, LimitAssumption DEF Plain, ExtentsOrdered, Extents
<1>7. ASSUME NEW e \in Extents, ExtentNum(idx) <= e, e < ExtentNum(idx) PROVE FALSE
  BY <1>6, <1>7, LimitAssumption DEF Extents
<1>8. Passed'
  <2> SUFFICES ASSUME NEW u \in Threads, Busy(u)'
               PROVE  /\ loc'[u].len > 0
                      /\ loc'[u].last = ExtentNum(loc'[u].idx + loc'[u].len - 1)
                      /\ loc'[u].ext \in Nat
                      /\ pc'[u] = "publish" => loc'[u].ext <= loc'[u].last
                      /\ pc'[u] \in {"capacity", "raise", "ensured"} =>
                            loc'[u].ext > loc'[u].last
                      /\ ExtentNum(loc'[u].idx) <= loc'[u].ext
                      /\ \A e \in Extents :
                            ExtentNum(loc'[u].idx) <= e /\ e < loc'[u].ext => extents'[e] # 0
    BY DEF Passed
  <2>1. CASE u = t
    BY <1>1, <1>3, <1>4, <1>6, <1>7, <2>1
  <2>2. CASE u # t
    BY <1>2, <2>2 DEF MemoryInv, Passed, Busy, Steady
  <2>3. QED
    BY <2>1, <2>2
<1>9. DestroyedLast'
  BY DEF DestroyedLast, Steady
<1>10. QED
  BY <1>8, <1>9, SteadyKeeps

(* What the memory's invariant is about stays as it is.                    *)
LEMMA StutterKeepsMemory ==
    ASSUME MemoryInv, Steady, UNCHANGED <<pc, loc>> PROVE MemoryInv'
<1>1. Passed' /\ DestroyedLast'
  BY DEF MemoryInv, Passed, DestroyedLast, Busy, Steady
<1>2. QED
  BY <1>1, SteadyKeeps

(* Each call begins so.                                                    *)
LEMMA BeginKeepsMemory ==
    ASSUME Plain, RangeInv, MemoryInv, NEW t \in Threads, NEW call \in Calls, Begin(t, call)
    PROVE  MemoryInv'
<1>1. alive /\ count \in Nat
  BY DEF Begin, RangeInv, Types
<1>2. \A n \in Counts : n \in Nat /\ n > 0
  BY CountsAssumption DEF Plain
<1>3. ASSUME NEW c, NEW n \in Nat, n > 0, FetchAdd(t, c, n) \/ ReadCount(t, c, n)
      PROVE  MemoryInv'
  <2>1. Ensure(t, c, count, n) /\ Steady /\ count + n <= Room
    BY <1>3 DEF FetchAdd, ReadCount, Steady
  <2>2. pc' = [pc EXCEPT ![t] = "bump"] \/ pc' = [pc EXCEPT ![t] = "load"]
    BY <1>3 DEF FetchAdd, ReadCount, Goto
  <2>3. QED
    BY <1>1, <1>3, <2>1, <2>2, EnsurePassed
<1>4. CASE \E n \in Counts : AllocAtomic(t, n) \/ AllocRelaxed(t, n)
  BY <1>2, <1>3, <1>4 DEF AllocAtomic, AllocRelaxed
<1>5. CASE AddAtomic(t) \/ AddRelaxed(t)
  BY <1>3, <1>5 DEF AddAtomic, AddRelaxed
<1>6. CASE Set(t)
  <2>1. PICK i \in Indices : Ensure(t, "set", i, 1)
    BY <1>6 DEF Set
  <2>2. i \in Nat /\ i + 1 <= Room /\ 1 \in Nat /\ 1 > 0
    BY RoomBounds
  <2>3. Steady /\ pc' = [pc EXCEPT ![t] = "load"]
    BY <1>6 DEF Set, Steady, Goto
  <2>4. QED
    BY <1>1, <2>1, <2>2, <2>3, EnsurePassed
<1>7. CASE Resize(t)
  <2>1. Steady
    BY <1>7 DEF Resize, Steady
  <2>2. PICK limit \in 1..Room :
            \/ Ensure(t, "resize", 0, limit) /\ Goto(t, "load")
            \/ UNCHANGED <<loc, pc>>
    BY <1>7 DEF Resize
  <2>3. limit \in Nat /\ limit > 0 /\ 0 + limit <= Room
    BY RoomBounds
  <2>4. CASE Ensure(t, "resize", 0, limit) /\ Goto(t, "load")
    <3>1. Ensure(t, "resize", 0, limit) /\ pc' = [pc EXCEPT ![t] = "load"]
      BY <2>4 DEF Goto
    <3>2. 0 \in Nat
      OBVIOUS
    <3>3. QED
      BY <1>1, <2>1, <2>3, <3>1, <3>2, EnsurePassed
  <2>5. CASE UNCHANGED <<loc, pc>>
    BY <2>1, <2>5, StutterKeepsMemory
  <2>6. QED
    BY <2>2, <2>4, <2>5
<1>8. QED
  BY <1>4, <1>5, <1>6, <1>7 DEF Begin

(* A relaxed call that stores the count is before its first extent still.  *)
LEMMA StoreCountKeepsMemory ==
    ASSUME RangeInv, MemoryInv, NEW t \in Threads, StoreCount(t) PROVE MemoryInv'
<1>1. Steady
  BY DEF StoreCount, Steady
<1>2. \A u \in Threads : /\ Busy(u)' <=> Busy(u)
                         /\ pc'[u] = "publish" => pc[u] = "publish"
                         /\ pc'[u] \in {"capacity", "raise", "ensured"} => pc'[u] = pc[u]
  BY DEF StoreCount, Goto, Busy, RangeInv, Types
<1>3. Passed'
  BY <1>1, <1>2 DEF MemoryInv, Passed, StoreCount, Steady
<1>4. DestroyedLast'
  BY <1>1, <1>2 DEF MemoryInv, DestroyedLast, Steady
<1>5. QED
  BY <1>1, <1>3, <1>4, SteadyKeeps

(* The first extent of a call, and the last, are in the table.             *)
LEMMA ExtentsOfCall ==
    ASSUME Plain, RangeInv, MemoryInv, NEW t \in Threads, Busy(t)
    PROVE  /\ loc[t].idx \in Indices
           /\ loc[t].idx + loc[t].len - 1 \in Indices
           /\ ExtentNum(loc[t].idx) \in Extents
           /\ loc[t].last \in Extents
           /\ ExtentNum(loc[t].idx) <= loc[t].last
<1> DEFINE i == loc[t].idx
           j == loc[t].idx + loc[t].len - 1
<1>1. i \in Nat /\ j \in Nat /\ i <= j /\ j < Room
  BY RoomBounds DEF RangeInv, Types, LocalTypes, MemoryInv, Passed
<1>2. i \in Indices /\ j \in Indices
  BY <1>1, RoomBounds
<1>3. loc[t].last = ExtentNum(j)
  BY DEF MemoryInv, Passed
<1>4. QED
  BY <1>1, <1>2, <1>3 DEF Plain, ExtentsOrdered

(* A step of _mu_vec_ensure_extents takes a thread to another place of the *)
(* same call.  All of that but Publish changes no memory.                  *)
LEMMA PlaceKeepsMemory ==
    ASSUME Plain, RangeInv, MemoryInv, NEW t \in Threads, Busy(t), Steady,
           NEW label \in {"load", "publish", "capacity", "raise", "ensured"},
           pc' = [pc EXCEPT ![t] = label],
           NEW ext \in Nat, NEW limit,
           loc' = [loc EXCEPT ![t] = [call |-> loc[t].call, idx |-> loc[t].idx,
                                      len |-> loc[t].len, ext |-> ext,
                                      last |-> loc[t].last, limit |-> limit]],
           loc[t].ext <= ext,
           \A e \in Extents : loc[t].ext <= e /\ e < ext => extents[e] # 0,
           label = "publish" => ext <= loc[t].last,
           label \in {"capacity", "raise", "ensured"} => ext > loc[t].last
    PROVE  MemoryInv'
<1>1. /\ loc'[t].idx = loc[t].idx /\ loc'[t].len = loc[t].len
      /\ loc'[t].ext = ext /\ loc'[t].last = loc[t].last
      /\ pc'[t] = label
  BY DEF RangeInv, Types, LocalTypes
<1>2. \A u \in Threads \ {t} : loc'[u] = loc[u] /\ pc'[u] = pc[u]
  BY DEF RangeInv, Types, LocalTypes
<1>3. ExtentNum(loc[t].idx) \in Nat
  BY ExtentsOfCall, LimitAssumption DEF Extents
<1>4. Passed'
  <2> SUFFICES ASSUME NEW u \in Threads, Busy(u)'
               PROVE  /\ loc'[u].len > 0
                      /\ loc'[u].last = ExtentNum(loc'[u].idx + loc'[u].len - 1)
                      /\ loc'[u].ext \in Nat
                      /\ pc'[u] = "publish" => loc'[u].ext <= loc'[u].last
                      /\ pc'[u] \in {"capacity", "raise", "ensured"} =>
                            loc'[u].ext > loc'[u].last
                      /\ ExtentNum(loc'[u].idx) <= loc'[u].ext
                      /\ \A e \in Extents :
                            ExtentNum(loc'[u].idx) <= e /\ e < loc'[u].ext => extents'[e] # 0
    BY DEF Passed
  <2>1. CASE u = t
    <3>1. /\ loc[t].len > 0 /\ loc[t].ext \in Nat
          /\ loc[t].last = ExtentNum(loc[t].idx + loc[t].len - 1)
          /\ ExtentNum(loc[t].idx) <= loc[t].ext
          /\ \A e \in Extents : ExtentNum(loc[t].idx) <= e /\ e < loc[t].ext => extents[e] # 0
      BY DEF MemoryInv, Passed
    <3>2. ExtentNum(loc[t].idx) <= ext
      BY <1>3, <3>1
    <3>3. ASSUME NEW e \in Extents, ExtentNum(loc[t].idx) <= e, e < ext PROVE extents[e] # 0
      <4>1. e \in Int
        BY LimitAssumption DEF Extents
      <4>2. QED
        BY <3>1, <3>3, <4>1
    <3>4. QED
      BY <1>1, <2>1, <3>1, <3>2, <3>3 DEF Steady
  <2>2. CASE u # t
    BY <1>2, <2>2 DEF MemoryInv, Passed, Busy, Steady
  <2>3. QED
    BY <2>1, <2>2
<1>5. DestroyedLast'
  BY <1>2 DEF MemoryInv, DestroyedLast, Busy, Steady
<1>6. QED
  BY <1>4, <1>5, SteadyKeeps

(* Each step of _mu_vec_ensure_extents but Publish is such a step.         *)
LEMMA EnsureKeepsMemory ==
    ASSUME Plain, RangeInv, MemoryInv, NEW t \in Threads,
           LoadExtent(t) \/ LoadCapacity(t) \/ RaiseCapacity(t)
    PROVE  MemoryInv'
<1>1. loc[t] = [call |-> loc[t].call, idx |-> loc[t].idx, len |-> loc[t].len,
                ext |-> loc[t].ext, last |-> loc[t].last, limit |-> loc[t].limit]
  BY DEF RangeInv, Types, LocalTypes
<1>2. loc = [loc EXCEPT ![t] = [call |-> loc[t].call, idx |-> loc[t].idx, len |-> loc[t].len,
                                ext |-> loc[t].ext, last |-> loc[t].last,
                                limit |-> loc[t].limit]]
  BY <1>1 DEF RangeInv, Types, LocalTypes
<1>3. Busy(t)
  BY DEF LoadExtent, LoadCapacity, RaiseCapacity, Busy
<1>4. /\ loc[t].ext \in Nat /\ loc[t].ext <= loc[t].ext
      /\ \A e \in Extents : loc[t].ext <= e /\ e < loc[t].ext => extents[e] # 0
  BY <1>3, LimitAssumption DEF MemoryInv, Passed, Extents
<1>5. CASE LoadExtent(t)
  <2>1. loc[t].ext \in Extents /\ loc[t].ext <= loc[t].last
    <3>1. ExtentNum(loc[t].idx) \in Extents /\ loc[t].last \in Extents
      BY <1>3, ExtentsOfCall
    <3>2. ExtentNum(loc[t].idx) <= loc[t].ext /\ loc[t].ext <= loc[t].last
      BY <1>3, <1>5 DEF LoadExtent, MemoryInv, Passed
    <3>3. QED
      BY <1>4, <3>1, <3>2, LimitAssumption DEF Extents
  <2>2. Steady /\ pc[t] = "load"
    BY <1>5, <2>1 DEF LoadExtent, Steady
  <2>3. CASE extents[loc[t].ext] = 0
    <3>1. loc' = loc /\ pc' = [pc EXCEPT ![t] = "publish"]
      BY <1>5, <2>1, <2>3 DEF LoadExtent, Goto
    <3>2. loc' = [loc EXCEPT ![t] = [call |-> loc[t].call, idx |-> loc[t].idx,
                                     len |-> loc[t].len, ext |-> loc[t].ext,
                                     last |-> loc[t].last, limit |-> loc[t].limit]]
      BY <1>2, <3>1
    <3>3. QED
      BY <1>3, <1>4, <2>1, <2>2, <3>1, <3>2, PlaceKeepsMemory, ZenonT(40)
  <2>4. CASE extents[loc[t].ext] # 0
    <3>1. loc' = [loc EXCEPT ![t].ext = loc[t].ext + 1] /\ pc' = pc
      BY <1>5, <2>1, <2>4 DEF LoadExtent
    <3>2. pc' = [pc EXCEPT ![t] = "load"]
      BY <2>2, <3>1 DEF RangeInv, Types
    <3>3. loc' = [loc EXCEPT ![t] = [call |-> loc[t].call, idx |-> loc[t].idx,
                                     len |-> loc[t].len, ext |-> loc[t].ext + 1,
                                     last |-> loc[t].last, limit |-> loc[t].limit]]
      BY <1>1, <3>1, RecordExt
    <3>4. loc[t].ext + 1 \in Nat /\ loc[t].ext <= loc[t].ext + 1
      BY <1>4
    <3>5. \A e \in Extents : loc[t].ext <= e /\ e < loc[t].ext + 1 => extents[e] # 0
      BY <1>4, <2>4, LimitAssumption DEF Extents
    <3>6. QED
      BY <1>3, <2>2, <3>2, <3>3, <3>4, <3>5, PlaceKeepsMemory
  <2>5. QED
    BY <2>3, <2>4
<1>6. CASE LoadCapacity(t)
  <2>1. loc' = [loc EXCEPT ![t] = [call |-> loc[t].call, idx |-> loc[t].idx,
                                   len |-> loc[t].len, ext |-> loc[t].ext,
                                   last |-> loc[t].last, limit |-> capacity]]
    BY <1>1, <1>6, RecordLimit DEF LoadCapacity
  <2>2. loc[t].ext > loc[t].last
    BY <1>3, <1>6 DEF LoadCapacity, MemoryInv, Passed
  <2>3. PICK label \in {"raise", "ensured"} : pc' = [pc EXCEPT ![t] = label]
    BY <1>6 DEF LoadCapacity, Goto
  <2>4. Steady
    BY <1>6 DEF LoadCapacity, Steady
  <2>5. QED
    BY <1>3, <1>4, <2>1, <2>2, <2>3, <2>4, PlaceKeepsMemory
<1>7. CASE RaiseCapacity(t)
  <2>1. loc' = [loc EXCEPT ![t] = [call |-> loc[t].call, idx |-> loc[t].idx,
                                   len |-> loc[t].len, ext |-> loc[t].ext,
                                   last |-> loc[t].last, limit |-> loc[t].limit]]
    BY <1>2, <1>7 DEF RaiseCapacity
  <2>2. loc[t].ext > loc[t].last
    BY <1>3, <1>7 DEF RaiseCapacity, MemoryInv, Passed
  <2>3. PICK label \in {"capacity", "ensured"} : pc' = [pc EXCEPT ![t] = label]
    BY <1>7 DEF RaiseCapacity, Goto
  <2>4. Steady
    BY <1>7 DEF RaiseCapacity, Steady
  <2>5. QED
    BY <1>3, <1>4, <2>1, <2>2, <2>3, <2>4, PlaceKeepsMemory
<1>8. QED
  BY <1>5, <1>6, <1>7

(* The exchange that publishes a block puts one there that is nowhere else,*)
(* in a place that was empty.                                              *)
LEMMA PublishKeepsMemory ==
    ASSUME Plain, RangeInv, MemoryInv, NEW t \in Threads, Publish(t) PROVE MemoryInv'
<1> DEFINE at == loc[t].ext
<1> USE DEF MemoryInv
<1>1. Busy(t)
  BY DEF Publish, Busy
<1>2. at \in Extents /\ at \in Nat /\ at <= loc[t].last
  <2>1. /\ at \in Nat /\ at <= loc[t].last /\ ExtentNum(loc[t].idx) <= at
        /\ ExtentNum(loc[t].idx) \in Extents /\ loc[t].last \in Extents
    BY <1>1, ExtentsOfCall DEF Publish, Passed
  <2>2. QED
    BY <2>1, LimitAssumption DEF Extents
<1>3. pc' = [pc EXCEPT ![t] = "load"]
  BY DEF Publish, Goto
<1>4. loc' = [loc EXCEPT ![t] = [call |-> loc[t].call, idx |-> loc[t].idx,
                                 len |-> loc[t].len, ext |-> at + 1,
                                 last |-> loc[t].last, limit |-> loc[t].limit]]
  BY RecordExt DEF Publish, RangeInv, Types, LocalTypes
<1>5. at + 1 \in Nat /\ at <= at + 1
  BY <1>2
<1>6. CASE extents[at] # 0
  <2>1. Steady
    BY <1>6 DEF Publish, Steady
  <2>2. \A e \in Extents : at <= e /\ e < at + 1 => extents[e] # 0
    BY <1>2, <1>6, LimitAssumption DEF Extents
  <2>3. QED
    BY <1>1, <1>3, <1>4, <1>5, <2>1, <2>2, PlaceKeepsMemory
<1>7. CASE extents[at] = 0
  <2>1. /\ extents' = [extents EXCEPT ![at] = Fresh]
        /\ cells' = [cells EXCEPT ![Fresh] = [i \in Indices |-> Nobody]]
        /\ UNCHANGED <<owner, filled, crashed, alive>>
    BY <1>7 DEF Publish, Plain
  <2>2. Fresh \in Blocks /\ \A e \in Extents : extents[e] # Fresh
    BY FreshBlock DEF MemoryTypes
  <2>3. Blocks \subseteq Nat \ {0}
    BY DEF Blocks
  <2>4. \A e \in Extents : extents'[e] = IF e = at THEN Fresh ELSE extents[e]
    BY <1>2, <2>1 DEF MemoryTypes
  <2>5. \A e \in Extents : extents[e] # 0 => extents'[e] # 0
    BY <1>7, <2>4
  <2>6. MemoryTypes'
    <3>1. extents' \in [Extents -> Blocks \union {0}]
      BY <2>1, <2>2 DEF MemoryTypes
    <3>2. cells' \in [Blocks -> [Indices -> Threads \union {Nobody}]]
      BY <2>1 DEF MemoryTypes
    <3>3. filled' \subseteq Given'
      BY <2>1 DEF MemoryTypes, Given
    <3>4. QED
      BY <3>1, <3>2, <3>3 DEF MemoryTypes, Blocks
  <2>7. BlocksDiffer'
    BY <2>2, <2>4 DEF BlocksDiffer
  <2>8. Passed'
    <3>1. /\ loc'[t].idx = loc[t].idx /\ loc'[t].len = loc[t].len
          /\ loc'[t].ext = at + 1 /\ loc'[t].last = loc[t].last /\ pc'[t] = "load"
      BY <1>3, <1>4 DEF RangeInv, Types, LocalTypes
    <3>2. \A u \in Threads \ {t} : loc'[u] = loc[u] /\ pc'[u] = pc[u]
      BY <1>3, <1>4 DEF RangeInv, Types, LocalTypes
    <3> SUFFICES ASSUME NEW u \in Threads, Busy(u)'
                 PROVE  /\ loc'[u].len > 0
                        /\ loc'[u].last = ExtentNum(loc'[u].idx + loc'[u].len - 1)
                        /\ loc'[u].ext \in Nat
                        /\ pc'[u] = "publish" => loc'[u].ext <= loc'[u].last
                        /\ pc'[u] \in {"capacity", "raise", "ensured"} =>
                              loc'[u].ext > loc'[u].last
                        /\ ExtentNum(loc'[u].idx) <= loc'[u].ext
                        /\ \A e \in Extents :
                              ExtentNum(loc'[u].idx) <= e /\ e < loc'[u].ext => extents'[e] # 0
      BY DEF Passed
    <3>3. CASE u = t
      <4>1. /\ loc[t].len > 0
            /\ loc[t].last = ExtentNum(loc[t].idx + loc[t].len - 1)
            /\ ExtentNum(loc[t].idx) <= at
            /\ \A e \in Extents : ExtentNum(loc[t].idx) <= e /\ e < at => extents[e] # 0
        BY <1>1 DEF Passed
      <4>2. ExtentNum(loc[t].idx) <= at + 1
        BY <1>1, <1>2, <4>1, ExtentsOfCall, LimitAssumption DEF Extents
      <4>3. ASSUME NEW e \in Extents, ExtentNum(loc[t].idx) <= e, e < at + 1
            PROVE  extents'[e] # 0
        <5>1. e = at \/ e < at
          BY <1>2, <4>3, LimitAssumption DEF Extents
        <5>2. QED
          BY <2>2, <2>3, <2>4, <2>5, <4>1, <4>3, <5>1
      <4>4. QED
        BY <1>5, <3>1, <3>3, <4>1, <4>2, <4>3
    <3>4. CASE u # t
      BY <2>5, <3>2, <3>4 DEF Passed, Busy
    <3>5. QED
      BY <3>3, <3>4
  <2>9. \A i \in Indices : ExtentNum(i) \in Extents
    BY DEF Plain, ExtentsOrdered
  <2>10. GivenBacked'
    BY <2>1, <2>5, <2>9 DEF GivenBacked, Given
  <2>11. DestroyedLast'
    <3>1. alive
      BY <1>1 DEF DestroyedLast
    <3>2. QED
      BY <2>1, <3>1 DEF DestroyedLast
  <2>12. ContentKept'
    <3> SUFFICES ASSUME alive, NEW i \in filled
                 PROVE  /\ extents'[ExtentNum(i)] # 0
                        /\ cells'[extents'[ExtentNum(i)]][i - ExtentBase(ExtentNum(i))] = owner'[i]
      BY <2>1 DEF ContentKept
    <3>1. ExtentNum(i) \in Extents
      BY <2>9 DEF MemoryTypes, Given
    <3>2. /\ extents[ExtentNum(i)] # 0
          /\ cells[extents[ExtentNum(i)]][i - ExtentBase(ExtentNum(i))] = owner[i]
      BY DEF ContentKept
    <3>3. extents'[ExtentNum(i)] = extents[ExtentNum(i)]
      BY <1>7, <2>4, <3>1, <3>2
    <3>4. cells'[extents[ExtentNum(i)]] = cells[extents[ExtentNum(i)]]
      BY <2>1, <2>2, <3>1, <3>2 DEF MemoryTypes
    <3>5. QED
      BY <2>1, <3>2, <3>3, <3>4
  <2>13. QED
    BY <2>1, <2>6, <2>7, <2>8, <2>10, <2>11, <2>12
<1>8. QED
  BY <1>6, <1>7

(* An element that is written by its owner holds that, and no other is     *)
(* written over: two elements never share a cell.                          *)
LEMMA StoreKeepsMemory ==
    ASSUME Plain, RangeInv, MemoryInv, NEW t \in Threads, NEW i \in Indices, alive,
           extents[ExtentNum(i)] # 0, Store(t, i),
           owner' = [owner EXCEPT ![i] = t], filled' = filled \union {i},
           UNCHANGED <<extents, alive>>, Passed'
    PROVE  MemoryInv'
<1> USE DEF MemoryInv
<1>1. \A k \in Indices : /\ ExtentNum(k) \in Extents
                         /\ ExtentBase(ExtentNum(k)) \in 0..k
                         /\ k - ExtentBase(ExtentNum(k)) \in Indices
  <2> SUFFICES ASSUME NEW k \in Indices
               PROVE  /\ ExtentNum(k) \in Extents
                      /\ ExtentBase(ExtentNum(k)) \in 0..k
                      /\ k - ExtentBase(ExtentNum(k)) \in Indices
    OBVIOUS
  <2>1. ExtentNum(k) \in Extents /\ ExtentBase(ExtentNum(k)) \in 0..k
    BY DEF Plain, ExtentsOrdered
  <2>2. k \in Nat /\ k < Room
    BY RoomBounds
  <2>3. k - ExtentBase(ExtentNum(k)) \in Nat /\ k - ExtentBase(ExtentNum(k)) < Room
    BY <2>1, <2>2, RoomBounds
  <2>4. QED
    BY <2>1, <2>3, RoomBounds
<1> DEFINE e(k) == ExtentNum(k)
           off(k) == k - ExtentBase(ExtentNum(k))
           block == extents[e(i)]
<1>2. block \in Blocks
  BY <1>1 DEF MemoryTypes
<1>3. cells' = [cells EXCEPT ![block][off(i)] = t] /\ ~crashed'
  BY DEF Store
<1>4. MemoryTypes'
  <2>1. cells' \in [Blocks -> [Indices -> Threads \union {Nobody}]]
    BY <1>1, <1>2, <1>3 DEF MemoryTypes
  <2>2. filled' \subseteq Given'
    BY NobodyAssumption DEF MemoryTypes, Given, RangeInv, Types
  <2>3. QED
    BY <2>1, <2>2 DEF MemoryTypes, Blocks
<1>5. BlocksDiffer'
  BY DEF BlocksDiffer
<1>6. GivenBacked'
  BY DEF GivenBacked, Given, RangeInv, Types
<1>7. ContentKept'
  <2> SUFFICES ASSUME NEW k \in filled'
               PROVE  extents'[e(k)] # 0 /\ cells'[extents'[e(k)]][off(k)] = owner'[k]
    BY DEF ContentKept
  <2>1. k \in Indices
    BY DEF MemoryTypes, Given
  <2>2. CASE k = i
    <3>1. cells'[block][off(i)] = t
      BY <1>1, <1>2, <1>3 DEF MemoryTypes
    <3>2. owner'[i] = t
      BY DEF RangeInv, Types
    <3>3. QED
      BY <2>2, <3>1, <3>2
  <2>3. CASE k # i
    <3>1. extents[e(k)] # 0 /\ cells[extents[e(k)]][off(k)] = owner[k]
      BY <2>3 DEF ContentKept
    <3>2. extents[e(k)] = block => e(k) = e(i)
      BY <1>1, <2>1 DEF BlocksDiffer
    <3>3. e(k) = e(i) => off(k) # off(i)
      <4>1. k \in Int /\ i \in Int /\ ExtentBase(e(i)) \in Int
        BY <1>1, <2>1, RoomBounds
      <4>2. QED
        BY <2>3, <4>1
    <3>4. extents[e(k)] \in Blocks
      BY <1>1, <2>1, <3>1 DEF MemoryTypes
    <3>5. cells'[extents[e(k)]][off(k)] = cells[extents[e(k)]][off(k)]
      <4> DEFINE b == extents[e(k)]
      <4>1. CASE b = block
        <5>1. off(k) # off(i)
          BY <3>2, <3>3, <4>1
        <5>2. off(k) \in Indices
          BY <1>1, <2>1
        <5>3. QED
          BY <1>2, <1>3, <4>1, <5>1, <5>2 DEF MemoryTypes
      <4>2. CASE b # block
        BY <1>2, <1>3, <3>4, <4>2 DEF MemoryTypes
      <4>3. QED
        BY <4>1, <4>2
    <3>6. owner'[k] = owner[k]
      BY <2>1, <2>3 DEF RangeInv, Types
    <3>7. QED
      BY <3>1, <3>5, <3>6
  <2>4. QED
    BY <2>2, <2>3
<1>8. DestroyedLast'
  BY DEF DestroyedLast
<1>9. QED
  BY <1>3, <1>4, <1>5, <1>6, <1>7, <1>8

(* At the end of a call every element of its range has memory.             *)
LEMMA RangeBacked ==
    ASSUME Plain, RangeInv, MemoryInv, NEW t \in Threads, pc[t] = "ensured",
           NEW i \in RangeOf(t)
    PROVE  i \in Indices /\ extents[ExtentNum(i)] # 0
<1>1. Busy(t)
  BY DEF Busy
<1>2. /\ loc[t].idx \in Indices /\ loc[t].idx + loc[t].len - 1 \in Indices
      /\ ExtentNum(loc[t].idx) \in Extents /\ loc[t].last \in Extents
  BY <1>1, ExtentsOfCall
<1>3. loc[t].idx \in Nat /\ loc[t].len \in Nat /\ loc[t].idx + loc[t].len <= Room
  BY DEF RangeInv, Types, LocalTypes
<1>4. i \in Nat /\ loc[t].idx <= i /\ i <= loc[t].idx + loc[t].len - 1
  BY <1>3 DEF RangeOf
<1>5. i \in Indices
  BY <1>3, <1>4, RoomBounds
<1>6. /\ loc[t].last = ExtentNum(loc[t].idx + loc[t].len - 1)
      /\ loc[t].ext > loc[t].last /\ loc[t].ext \in Nat
      /\ \A e \in Extents : ExtentNum(loc[t].idx) <= e /\ e < loc[t].ext => extents[e] # 0
  BY <1>1 DEF MemoryInv, Passed
<1>7. /\ ExtentNum(i) \in Extents /\ ExtentNum(loc[t].idx) <= ExtentNum(i)
      /\ ExtentNum(i) <= loc[t].last
  BY <1>2, <1>4, <1>5, <1>6 DEF Plain, ExtentsOrdered
<1>8. ExtentNum(i) < loc[t].ext
  BY <1>2, <1>6, <1>7, LimitAssumption DEF Extents
<1>9. QED
  BY <1>5, <1>6, <1>7, <1>8

(* What a call returns, or has written, has memory.                        *)
LEMMA ReturnKeepsMemory ==
    ASSUME Plain, RangeInv, MemoryInv, NEW t \in Threads,
           ReturnRange(t) \/ ReturnStored(t) \/ ReturnResized(t)
    PROVE  MemoryInv'
<1> USE DEF MemoryInv
<1>1. pc[t] = "ensured" /\ Busy(t)
  BY DEF ReturnRange, ReturnStored, ReturnResized, Busy
<1>2. alive
  BY <1>1 DEF DestroyedLast
<1>3. ~Busy(t)' /\ \A u \in Threads \ {t} : loc'[u] = loc[u] /\ pc'[u] = pc[u]
  BY DEF ReturnRange, ReturnStored, ReturnResized, Goto, Busy, RangeInv, Types, LocalTypes
<1>4. UNCHANGED <<extents, alive>>
  BY DEF ReturnRange, ReturnStored, ReturnResized
<1>5. Passed'
  BY <1>3, <1>4 DEF Passed, Busy
<1>6. CASE ReturnResized(t)
  <2>1. Steady
    BY <1>6 DEF ReturnResized, Steady
  <2>2. DestroyedLast'
    BY <1>2, <1>4 DEF DestroyedLast
  <2>3. QED
    BY <1>5, <2>1, <2>2, SteadyKeeps
<1>7. CASE ReturnStored(t)
  <2>1. loc[t].len = 1 \/ loc[t].call = "set"
    BY <1>1, <1>7 DEF ReturnStored, RangeInv, SingleElement
  <2>2. loc[t].idx \in RangeOf(t)
    <3>1. loc[t].idx \in Nat /\ loc[t].len \in Nat /\ loc[t].len > 0
      BY <1>1 DEF Passed, RangeInv, Types, LocalTypes
    <3>2. QED
      BY <3>1 DEF RangeOf
  <2>3. loc[t].idx \in Indices /\ extents[ExtentNum(loc[t].idx)] # 0
    BY <1>1, <2>2, RangeBacked
  <2>4. /\ Store(t, loc[t].idx)
        /\ owner' = [owner EXCEPT ![loc[t].idx] = t]
        /\ filled' = filled \union {loc[t].idx}
    BY <1>7 DEF ReturnStored
  <2>5. QED
    BY <1>2, <1>4, <1>5, <2>3, <2>4, StoreKeepsMemory
<1>8. CASE ReturnRange(t)
  <2>1. /\ owner' = [i \in Indices |-> IF i \in RangeOf(t) THEN t ELSE owner[i]]
        /\ filled' = filled \ RangeOf(t)
        /\ UNCHANGED <<cells, crashed>>
    BY <1>8 DEF ReturnRange
  <2>2. MemoryTypes'
    BY <1>4, <2>1 DEF MemoryTypes, Given, Blocks
  <2>3. BlocksDiffer'
    BY <1>4 DEF BlocksDiffer
  <2>4. GivenBacked'
    <3> SUFFICES ASSUME NEW i \in Given' PROVE extents[ExtentNum(i)] # 0
      BY <1>4 DEF GivenBacked
    <3>1. i \in Indices
      BY DEF Given
    <3>2. CASE i \in RangeOf(t)
      BY <1>1, <3>2, RangeBacked
    <3>3. CASE i \notin RangeOf(t)
      BY <1>2, <2>1, <3>1, <3>3 DEF GivenBacked, Given
    <3>4. QED
      BY <3>2, <3>3
  <2>5. ContentKept'
    BY <1>2, <1>4, <2>1 DEF ContentKept, MemoryTypes, Given
  <2>6. DestroyedLast'
    BY <1>2, <1>4 DEF DestroyedLast
  <2>7. QED
    BY <1>5, <2>1, <2>2, <2>3, <2>4, <2>5, <2>6
<1>9. QED
  BY <1>6, <1>7, <1>8

(* So has what its caller writes later.                                    *)
LEMMA FillKeepsMemory ==
    ASSUME Plain, RangeInv, MemoryInv, NEW t \in Threads, Fill(t) PROVE MemoryInv'
<1> USE DEF MemoryInv
<1>1. alive /\ UNCHANGED <<extents, pc, loc, owner, alive>>
  BY DEF Fill
<1>2. PICK i \in Indices : owner[i] = t /\ Store(t, i) /\ filled' = filled \union {i}
  BY DEF Fill
<1>3. i \in Given
  BY <1>2, NobodyAssumption DEF Given
<1>4. extents[ExtentNum(i)] # 0
  BY <1>1, <1>3 DEF GivenBacked
<1>5. owner' = [owner EXCEPT ![i] = t]
  BY <1>1, <1>2 DEF RangeInv, Types
<1>6. Passed'
  BY <1>1 DEF Passed, Busy
<1>7. QED
  BY <1>1, <1>2, <1>4, <1>5, <1>6, StoreKeepsMemory

(* After the last call nothing is promised any more.                       *)
LEMMA DestroyKeepsMemory == ASSUME MemoryInv, Destroy PROVE MemoryInv'
<1> USE DEF MemoryInv, Destroy
<1>1. PICK freed : extents' = [e \in Extents |-> IF e \in freed THEN 0 ELSE extents[e]]
  OBVIOUS
<1>2. MemoryTypes'
  BY <1>1 DEF MemoryTypes, Given, Blocks
<1>3. BlocksDiffer'
  BY <1>1 DEF BlocksDiffer
<1>4. Passed' /\ DestroyedLast'
  BY DEF Passed, DestroyedLast, Busy
<1>5. GivenBacked' /\ ContentKept'
  BY DEF GivenBacked, ContentKept
<1>6. QED
  BY <1>2, <1>3, <1>4, <1>5

(* ... and every step keeps it.                                            *)
LEMMA MemoryNext == ASSUME Plain PROVE RangeInv /\ MemoryInv /\ [Next]_vars => MemoryInv'
<1> SUFFICES ASSUME RangeInv, MemoryInv, [Next]_vars PROVE MemoryInv'
  OBVIOUS
<1>1. CASE UNCHANGED vars
  BY <1>1, StutterKeepsMemory DEF vars, Steady
<1>2. CASE Destroy
  BY <1>2, DestroyKeepsMemory
<1>3. ASSUME NEW t \in Threads, Step(t) PROVE MemoryInv'
  <2>1. CASE \E call \in Calls : Begin(t, call)
    BY <2>1, BeginKeepsMemory
  <2>2. CASE StoreCount(t)
    BY <2>2, StoreCountKeepsMemory
  <2>3. CASE LoadExtent(t) \/ LoadCapacity(t) \/ RaiseCapacity(t)
    BY <2>3, EnsureKeepsMemory
  <2>4. CASE Publish(t)
    BY <2>4, PublishKeepsMemory
  <2>5. CASE ReturnRange(t) \/ ReturnStored(t) \/ ReturnResized(t)
    BY <2>5, ReturnKeepsMemory
  <2>6. CASE Fill(t)
    BY <2>6, FillKeepsMemory
  <2>7. QED
    BY <1>3, <2>1, <2>2, <2>3, <2>4, <2>5, <2>6 DEF Step
<1>4. QED
  BY <1>1, <1>2, <1>3 DEF Next

(* No element is written through a null pointer, the table is not overrun, *)
(* and the elements of a range that was returned have memory.              *)
THEOREM BackedAlways == ASSUME Plain PROVE Spec => []Backed
<1>1. MemoryInv => Backed
  BY DEF MemoryInv, GivenBacked, Backed
<1>2. QED
  BY <1>1, RangeInit, RangeNext, MemoryInit, MemoryNext, PTL DEF Spec

(* What a thread has written to an element stays there while others        *)
(* allocate, grow the array and write elements of their own.               *)
THEOREM ContentKeptAlways == ASSUME Plain PROVE Spec => []ContentKept
<1>1. MemoryInv => ContentKept
  BY DEF MemoryInv
<1>2. QED
  BY <1>1, RangeInit, RangeNext, MemoryInit, MemoryNext, PTL DEF Spec

-----------------------------------------------------------------------------
(* The capacity.  It counts every extent that has memory, so that          *)
(* mu_vec_destroy finds them all, and no other but those that a call which *)
(* is under way is about to make.                                          *)

Sized == Plain /\ ExtentsAdjoin

(* The capacity of an array whose last extent is e. *)
Top(e) == ExtentBase(e + 1)

Climbing(t) == pc[t] \in {"load", "publish", "capacity", "raise"}

(* A thread raises the capacity it has seen, and does not lower it.        *)
LimitSeen ==
    \A t \in Threads :
        /\ pc[t] = "raise" => loc[t].limit \in Int /\ loc[t].limit < Top(loc[t].last)
        /\ pc[t] = "ensured" => Top(loc[t].last) <= capacity

(* What has memory is below the capacity, or a thread is on its way to     *)
(* raise it.                                                               *)
MemoryCounted ==
    alive => \A e \in Extents : extents[e] # 0 =>
        \/ Top(e) <= capacity
        \/ \E t \in Threads : Climbing(t) /\ e <= loc[t].last

CapacityInv ==
    /\ capacity \in 0..Room
    /\ LimitSeen
    /\ MemoryCounted
    /\ DestroyedFreed

-----------------------------------------------------------------------------
(* A later extent is higher.                                               *)
LEMMA TopsOrdered ==
    ASSUME Sized, NEW d \in Extents, NEW e \in Extents, d <= e
    PROVE  Top(d) \in 1..Room /\ Top(e) \in 1..Room /\ Top(d) <= Top(e)
<1>1. /\ Top(d) \in 1..Room /\ ExtentNum(Top(d) - 1) = d
      /\ Top(e) \in 1..Room /\ ExtentNum(Top(e) - 1) = e
  BY DEF Sized, ExtentsAdjoin, Top
<1>2. Top(d) - 1 \in Indices /\ Top(e) - 1 \in Indices
  BY <1>1, RoomBounds
<1>3. Top(e) - 1 <= Top(d) - 1 => e <= d
  BY <1>1, <1>2 DEF Sized, Plain, ExtentsOrdered
<1>4. d = e \/ ~(e <= d)
  BY LimitAssumption DEF Extents
<1>5. QED
  BY <1>1, <1>3, <1>4, RoomBounds

(* An index is below the top of its extent and of those that follow, and   *)
(* of no other.                                                            *)
LEMMA IndexBelowTop ==
    ASSUME Sized, NEW e \in Extents, NEW i \in Indices
    PROVE  /\ ExtentNum(i) \in Extents /\ i < Top(ExtentNum(i))
           /\ i < Top(e) => ExtentNum(i) <= e
<1>1. ExtentNum(i) \in Extents /\ i < Top(ExtentNum(i))
  BY DEF Sized, Plain, ExtentsOrdered, ExtentsAdjoin, Top
<1>2. Top(e) \in 1..Room /\ ExtentNum(Top(e) - 1) = e
  BY DEF Sized, ExtentsAdjoin, Top
<1>3. Top(e) - 1 \in Indices
  BY <1>2, RoomBounds
<1>4. ASSUME i < Top(e) PROVE ExtentNum(i) <= e
  <2>1. i <= Top(e) - 1
    BY <1>2, <1>4, RoomBounds
  <2>2. QED
    BY <1>2, <1>3, <2>1 DEF Sized, Plain, ExtentsOrdered
<1>5. QED
  BY <1>1, <1>4

(* The invariant holds at first, ...                                       *)
LEMMA CapacityInit == ASSUME Sized PROVE Init => CapacityInv
<1> SUFFICES ASSUME Init PROVE CapacityInv
  OBVIOUS
<1> DEFINE start == IF FirstLimit = 0 THEN 0 ELSE ExtentNum(FirstLimit - 1) + 1
<1>1. /\ count = 0 /\ alive /\ \A t \in Threads : pc[t] = "idle"
      /\ capacity = ExtentBase(start)
      /\ extents = [e \in Extents |-> IF e < start THEN e + 1 ELSE 0]
  BY DEF Init
<1>2. LimitSeen /\ DestroyedFreed
  BY <1>1 DEF LimitSeen, DestroyedFreed
<1>3. CASE FirstLimit = 0
  <2>1. capacity = 0 /\ start = 0
    BY <1>1, <1>3 DEF Sized, ExtentsAdjoin
  <2>2. 0 \in 0..Room
    BY LimitAssumption DEF Room, ExtentBase
  <2>3. MemoryCounted
    BY <1>1, <2>1, LimitAssumption DEF MemoryCounted, Extents
  <2>4. QED
    BY <1>2, <2>1, <2>2, <2>3 DEF CapacityInv
<1>4. CASE FirstLimit # 0
  <2> DEFINE last == ExtentNum(FirstLimit - 1)
  <2>1. FirstLimit \in 0..Room
    BY LimitAssumption DEF Room, ExtentBase
  <2>2. FirstLimit - 1 \in Indices
    BY <1>4, <2>1, RoomBounds
  <2>3. last \in Extents /\ start = last + 1 /\ capacity = Top(last)
    BY <1>1, <1>4, <2>2 DEF Sized, Plain, ExtentsOrdered, Top
  <2>4. capacity \in 1..Room
    BY <2>3, TopsOrdered, LimitAssumption DEF Extents
  <2>5. \A e \in Extents : extents[e] # 0 <=> e <= last
    BY <1>1, <2>3, LimitAssumption DEF Extents
  <2>6. MemoryCounted
    BY <2>3, <2>5, TopsOrdered DEF MemoryCounted
  <2>7. QED
    BY <1>2, <2>4, <2>6, RoomBounds DEF CapacityInv
<1>5. QED
  BY <1>3, <1>4

(* ... and while nothing changes that it is about.                         *)
LEMMA StutterKeepsCapacity ==
    ASSUME CapacityInv, UNCHANGED <<count, capacity, extents, pc, loc, shared, alive>>
    PROVE  CapacityInv'
  BY DEF CapacityInv, LimitSeen, MemoryCounted, DestroyedFreed, Climbing

-----------------------------------------------------------------------------
(* The steps *)

(* A call that begins has no part in what the invariant is about.          *)
LEMMA BeginKeepsCapacity ==
    ASSUME Sized, RangeInv, CapacityInv, NEW t \in Threads, NEW call \in Calls, Begin(t, call)
    PROVE  CapacityInv'
<1>1. alive /\ pc[t] = "idle" /\ UNCHANGED <<capacity, extents, alive, shared>>
  BY DEF Begin, AllocAtomic, AllocRelaxed, AddAtomic, AddRelaxed, FetchAdd, ReadCount, Set, Resize
<1>2. CASE UNCHANGED <<count, pc, loc, owner, shared>>
  BY <1>1, <1>2, StutterKeepsCapacity
<1>3. CASE Starts(t, call)
  <2>1. PICK idx \in Nat, len \in Nat, label \in {"bump", "load"} :
            Starting(t, call, idx, len, label)
    BY <1>3 DEF Starts
  <2>2. /\ pc'[t] = label /\ loc'[t].call = call
        /\ loc'[t].idx = idx /\ loc'[t].len = len
    BY <2>1 DEF Starting, RangeInv, Types, LocalTypes
  <2>3. \A u \in Threads \ {t} : loc'[u] = loc[u] /\ pc'[u] = pc[u]
    BY <2>1 DEF Starting, RangeInv, Types, LocalTypes
  <2>4. capacity' \in 0..Room /\ DestroyedFreed'
    BY <1>1 DEF CapacityInv, DestroyedFreed
  <2>5. LimitSeen'
    <3> SUFFICES ASSUME NEW u \in Threads
                 PROVE  /\ pc'[u] = "raise" =>
                            loc'[u].limit \in Int /\ loc'[u].limit < Top(loc'[u].last)
                        /\ pc'[u] = "ensured" => Top(loc'[u].last) <= capacity'
      BY DEF LimitSeen, Top, ExtentBase
    <3>1. CASE u = t
      BY <2>2, <3>1
    <3>2. CASE u # t
      BY <1>1, <2>3, <3>2 DEF CapacityInv, LimitSeen
    <3>3. QED
      BY <3>1, <3>2
  <2>6. MemoryCounted'
    <3> SUFFICES ASSUME NEW e \in Extents, extents[e] # 0, ~(Top(e) <= capacity)
                 PROVE  \E u \in Threads : Climbing(u)' /\ e <= loc'[u].last
      BY <1>1 DEF MemoryCounted, Top, ExtentBase
    <3>1. PICK u \in Threads : Climbing(u) /\ e <= loc[u].last
      BY <1>1 DEF CapacityInv, MemoryCounted
    <3>2. u # t
      BY <1>1, <3>1 DEF Climbing
    <3>3. QED
      BY <2>3, <3>1, <3>2 DEF Climbing
  <2>7. QED
    BY <2>4, <2>5, <2>6 DEF CapacityInv
<1>4. QED
  BY <1>2, <1>3, BeginStarts

(* A relaxed call stores the count that its range ends at.                 *)
LEMMA StoreCountKeepsCapacity ==
    ASSUME RangeInv, CapacityInv, NEW t \in Threads, StoreCount(t) PROVE CapacityInv'
<1>1. /\ pc[t] = "bump"
      /\ UNCHANGED <<capacity, extents, loc, alive>>
      /\ pc' = [pc EXCEPT ![t] = "load"]
  BY DEF StoreCount, Goto
<1>2. pc'[t] = "load" /\ \A u \in Threads \ {t} : pc'[u] = pc[u]
  BY <1>1 DEF RangeInv, Types
<1>3. LimitSeen' /\ MemoryCounted' /\ DestroyedFreed' /\ capacity' \in 0..Room
  BY <1>1, <1>2 DEF CapacityInv, LimitSeen, MemoryCounted, DestroyedFreed, Climbing
<1>4. QED
  BY <1>3 DEF CapacityInv

(* A step of _mu_vec_ensure_extents takes a thread to another place of the *)
(* same call.                                                              *)
LEMMA SameCall ==
    ASSUME RangeInv, NEW t \in Threads, Within(t)
    PROVE  /\ UNCHANGED <<count, shared>>
           /\ \A u \in Threads \ {t} : loc'[u] = loc[u] /\ pc'[u] = pc[u]
           /\ \A u \in Threads :
                /\ loc'[u].idx = loc[u].idx /\ loc'[u].len = loc[u].len
                /\ loc'[u].last = loc[u].last
                /\ Busy(u)' <=> Busy(u)
                /\ Allocating(u)' <=> Allocating(u)
           /\ pc[t] # "bump" /\ Busy(t)
<1>1. UNCHANGED <<count, shared>> /\ pc[t] # "bump" /\ Busy(t)
  BY DEF Within
<1>2. \A u \in Threads \ {t} : loc'[u] = loc[u] /\ pc'[u] = pc[u]
  BY DEF Within, RangeInv, Types, LocalTypes
<1>3. /\ loc'[t].call = loc[t].call /\ loc'[t].idx = loc[t].idx
      /\ loc'[t].len = loc[t].len /\ loc'[t].last = loc[t].last
  BY DEF Within, RangeInv, Types, LocalTypes
<1>4. Busy(t)'
  BY DEF Within, Busy, RangeInv, Types
<1>5. QED
  BY <1>1, <1>2, <1>3, <1>4 DEF Busy, Allocating

(* If it is still on its way then, and the capacity is the same, the       *)
(* memory may be more than it was by an extent of the call.                *)
LEMMA PlaceKeepsCapacity ==
    ASSUME Sized, RangeInv, CapacityInv, NEW t \in Threads, Within(t),
           pc'[t] \in {"load", "publish", "capacity", "raise"},
           pc'[t] = "raise" => loc'[t].limit \in Int /\ loc'[t].limit < Top(loc[t].last),
           UNCHANGED <<capacity, alive>>, alive,
           \A e \in Extents : extents'[e] # 0 => extents[e] # 0 \/ e <= loc[t].last,
           pc[t] # "ensured"
    PROVE  CapacityInv'
<1>1. Climbing(t) /\ Climbing(t)'
  BY SameCall DEF Busy, Climbing, RangeInv, Types, Labels
<1>2. LimitSeen'
  <2> SUFFICES ASSUME NEW u \in Threads
               PROVE  /\ pc'[u] = "raise" =>
                          loc'[u].limit \in Int /\ loc'[u].limit < Top(loc'[u].last)
                      /\ pc'[u] = "ensured" => Top(loc'[u].last) <= capacity'
    BY DEF LimitSeen, Top, ExtentBase
  <2>1. CASE u = t
    BY <2>1, SameCall
  <2>2. CASE u # t
    BY <2>2, SameCall DEF CapacityInv, LimitSeen
  <2>3. QED
    BY <2>1, <2>2
<1>3. MemoryCounted'
  <2> SUFFICES ASSUME NEW e \in Extents, extents'[e] # 0, ~(Top(e) <= capacity)
               PROVE  \E u \in Threads : Climbing(u)' /\ e <= loc'[u].last
    BY DEF MemoryCounted, Top, ExtentBase
  <2>1. CASE e <= loc[t].last
    BY <1>1, <2>1, SameCall
  <2>2. CASE extents[e] # 0
    <3>1. PICK u \in Threads : Climbing(u) /\ e <= loc[u].last
      BY <2>2 DEF CapacityInv, MemoryCounted
    <3>2. Climbing(u)' /\ loc'[u].last = loc[u].last
      BY <1>1, <3>1, SameCall DEF Climbing
    <3>3. QED
      BY <3>1, <3>2
  <2>3. QED
    BY <2>1, <2>2
<1>4. QED
  BY <1>2, <1>3 DEF CapacityInv, DestroyedFreed

(* A thread whose extents the capacity counts goes on to the end.          *)
LEMMA EnsuredKeepsCapacity ==
    ASSUME Sized, RangeInv, MemoryInv, CapacityInv, NEW t \in Threads, Within(t),
           UNCHANGED <<extents, alive>>, alive,
           pc'[t] = "ensured", Top(loc[t].last) <= capacity',
           capacity' \in 0..Room, capacity <= capacity'
    PROVE  CapacityInv'
<1>1. capacity \in Int /\ capacity' \in Int /\ count \in Int
  BY RoomBounds DEF CapacityInv, RangeInv, Types
<1>2. \A u \in Threads : Busy(u) => loc[u].last \in Extents
  BY ExtentsOfCall DEF Sized
<1>3. \A e \in Extents : Top(e) \in Int
  BY RoomBounds DEF Sized, ExtentsAdjoin, Top
<1>4. LimitSeen'
  <2> SUFFICES ASSUME NEW u \in Threads
               PROVE  /\ pc'[u] = "raise" =>
                          loc'[u].limit \in Int /\ loc'[u].limit < Top(loc'[u].last)
                      /\ pc'[u] = "ensured" => Top(loc'[u].last) <= capacity'
    BY DEF LimitSeen, Top, ExtentBase
  <2>1. CASE u = t
    BY <2>1, SameCall
  <2>2. CASE u # t
    BY <1>1, <1>2, <1>3, <2>2, SameCall DEF CapacityInv, LimitSeen, Busy
  <2>3. QED
    BY <2>1, <2>2
<1>5. MemoryCounted'
  <2> SUFFICES ASSUME NEW e \in Extents, extents[e] # 0, ~(Top(e) <= capacity')
               PROVE  \E u \in Threads : Climbing(u)' /\ e <= loc'[u].last
    BY DEF MemoryCounted, Top, ExtentBase
  <2>1. ~(Top(e) <= capacity)
    BY <1>1, <1>3
  <2>2. PICK u \in Threads : Climbing(u) /\ e <= loc[u].last
    BY <2>1 DEF CapacityInv, MemoryCounted
  <2>3. u # t
    <3>1. Busy(u)
      BY <2>2 DEF Climbing, Busy
    <3>2. Top(e) <= Top(loc[u].last)
      BY <1>2, <2>2, <3>1, TopsOrdered
    <3>3. QED
      BY <1>1, <1>2, <1>3, <3>1, <3>2
  <2>4. QED
    BY <2>2, <2>3, SameCall DEF Climbing
<1>6. QED
  BY <1>4, <1>5 DEF CapacityInv, DestroyedFreed

(* So does each of its steps.                                              *)
LEMMA EnsureKeepsCapacity ==
    ASSUME Sized, RangeInv, MemoryInv, CapacityInv, NEW t \in Threads,
           LoadExtent(t) \/ Publish(t) \/ LoadCapacity(t) \/ RaiseCapacity(t)
    PROVE  CapacityInv'
<1> DEFINE last == loc[t].last
<1>1. Busy(t) /\ alive
  BY DEF LoadExtent, Publish, LoadCapacity, RaiseCapacity, Busy, MemoryInv, DestroyedLast
<1>2. last \in Extents /\ Top(last) \in 1..Room /\ NewLimit(t) = Top(last)
  BY <1>1, ExtentsOfCall, TopsOrdered, LimitAssumption
     DEF Sized, NewLimit, Top, ExtentSize, ExtentBase, Extents
<1>3. capacity \in 0..Room /\ capacity \in Int /\ Room \in Int
  BY RoomBounds DEF CapacityInv
<1>4. CASE UNCHANGED <<count, pc, loc, owner, shared>>
  <2>1. ~Publish(t) /\ ~LoadCapacity(t) /\ ~RaiseCapacity(t)
    BY <1>4 DEF Publish, LoadCapacity, RaiseCapacity, Goto, RangeInv, Types
  <2>2. UNCHANGED <<count, capacity, extents, pc, loc, shared, alive>>
    BY <1>4, <2>1 DEF LoadExtent
  <2>3. QED
    BY <2>2, StutterKeepsCapacity
<1>5. CASE Within(t) /\ LoadExtent(t)
  <2>1. pc'[t] \in {"load", "publish"} /\ pc[t] # "ensured"
    BY <1>5 DEF LoadExtent, Goto, RangeInv, Types
  <2>2. UNCHANGED <<capacity, extents, alive>>
    BY <1>5 DEF LoadExtent
  <2>3. QED
    BY <1>1, <1>5, <2>1, <2>2, PlaceKeepsCapacity
<1>6. CASE Within(t) /\ Publish(t)
  <2>1. pc[t] = "publish" /\ pc'[t] = "load" /\ UNCHANGED <<capacity, alive>>
    BY <1>6 DEF Publish, Goto, RangeInv, Types
  <2>2. loc[t].ext <= last
    BY <1>1, <2>1 DEF MemoryInv, Passed
  <2>3. Fresh # 0
    BY FreshBlock DEF MemoryInv, MemoryTypes, Blocks
  <2>4. \A e \in Extents : extents'[e] = extents[e] \/ (e = loc[t].ext /\ extents'[e] # 0)
    BY <1>6, <2>3 DEF Publish, MemoryInv, MemoryTypes
  <2>5. QED
    BY <1>1, <1>6, <2>1, <2>2, <2>4, PlaceKeepsCapacity
<1>7. CASE Within(t) /\ LoadCapacity(t)
  <2>1. /\ pc[t] \in {"load", "capacity"}
        /\ UNCHANGED <<capacity, extents, alive>>
        /\ loc' = [loc EXCEPT ![t].limit = capacity]
        /\ pc' = [pc EXCEPT ![t] = IF capacity >= NewLimit(t) THEN "ensured" ELSE "raise"]
    BY <1>7 DEF LoadCapacity, Goto
  <2>2. CASE capacity >= NewLimit(t)
    <3>1. pc'[t] = "ensured" /\ Top(last) <= capacity'
      BY <1>2, <1>3, <2>1, <2>2, RoomBounds DEF RangeInv, Types
    <3>2. QED
      BY <1>1, <1>3, <1>7, <2>1, <3>1, EnsuredKeepsCapacity
  <2>3. CASE ~(capacity >= NewLimit(t))
    <3>1. pc'[t] = "raise" /\ loc'[t].limit = capacity
      BY <2>1, <2>3 DEF RangeInv, Types, LocalTypes
    <3>2. loc'[t].limit \in Int /\ loc'[t].limit < Top(last)
      BY <1>2, <1>3, <2>3, <3>1
    <3>3. QED
      BY <1>1, <1>7, <2>1, <3>1, <3>2, PlaceKeepsCapacity
  <2>4. QED
    BY <2>2, <2>3
<1>8. CASE Within(t) /\ RaiseCapacity(t)
  <2>1. pc[t] = "raise" /\ UNCHANGED <<extents, alive>>
    BY <1>8 DEF RaiseCapacity
  <2>2. CASE capacity = loc[t].limit /\ capacity' = NewLimit(t) /\ Goto(t, "ensured")
    <3>1. pc'[t] = "ensured"
      BY <2>2 DEF Goto, RangeInv, Types
    <3>2. capacity' = Top(last) /\ capacity < capacity'
      BY <1>2, <2>1, <2>2 DEF CapacityInv, LimitSeen
    <3>3. capacity' \in 0..Room /\ Top(last) <= capacity' /\ capacity <= capacity'
      BY <1>2, <1>3, <3>2
    <3>4. QED
      BY <1>1, <1>8, <2>1, <3>1, <3>3, EnsuredKeepsCapacity
  <2>3. CASE Goto(t, "capacity") /\ UNCHANGED capacity
    <3>1. pc'[t] = "capacity"
      BY <2>3 DEF Goto, RangeInv, Types
    <3>2. QED
      BY <1>1, <1>8, <2>1, <2>3, <3>1, PlaceKeepsCapacity
  <2>4. QED
    BY <1>8, <2>2, <2>3 DEF RaiseCapacity
<1>9. QED
  BY <1>4, <1>5, <1>6, <1>7, <1>8, EnsureWithin

(* A call that ends has raised the capacity.                               *)
LEMMA ReturnKeepsCapacity ==
    ASSUME Sized, RangeInv, MemoryInv, CapacityInv, NEW t \in Threads,
           ReturnRange(t) \/ ReturnStored(t) \/ ReturnResized(t)
    PROVE  CapacityInv'
<1>1. Ending(t) /\ UNCHANGED <<capacity, extents, alive>>
  BY ReturnEnds DEF ReturnRange, ReturnStored, ReturnResized
<1>2. pc[t] = "ensured" /\ Busy(t) /\ UNCHANGED <<count, shared>>
  BY <1>1 DEF Ending, Busy
<1>3. alive
  BY <1>2 DEF MemoryInv, DestroyedLast
<1>4. pc'[t] = "idle" /\ \A u \in Threads \ {t} : loc'[u] = loc[u] /\ pc'[u] = pc[u]
  BY <1>1 DEF Ending, RangeInv, Types, LocalTypes
<1>5. LimitSeen'
  <2> SUFFICES ASSUME NEW u \in Threads
               PROVE  /\ pc'[u] = "raise" =>
                          loc'[u].limit \in Int /\ loc'[u].limit < Top(loc'[u].last)
                      /\ pc'[u] = "ensured" => Top(loc'[u].last) <= capacity'
    BY DEF LimitSeen, Top, ExtentBase
  <2>1. QED
    BY <1>1, <1>4 DEF CapacityInv, LimitSeen
<1>6. MemoryCounted'
  <2> SUFFICES ASSUME NEW e \in Extents, extents[e] # 0, ~(Top(e) <= capacity)
               PROVE  \E u \in Threads : Climbing(u)' /\ e <= loc'[u].last
    BY <1>1 DEF MemoryCounted, Top, ExtentBase
  <2>1. PICK u \in Threads : Climbing(u) /\ e <= loc[u].last
    BY <1>3 DEF CapacityInv, MemoryCounted
  <2>2. u # t
    BY <1>2, <2>1 DEF Climbing
  <2>3. QED
    BY <1>4, <2>1, <2>2 DEF Climbing
<1>7. QED
  BY <1>1, <1>3, <1>5, <1>6 DEF CapacityInv, DestroyedFreed

(* No thread is on its way when the array is destroyed, so that everything *)
(* is below the capacity.                                                  *)
LEMMA DestroyKeepsCapacity ==
    ASSUME Sized, RangeInv, CapacityInv, Destroy PROVE CapacityInv'
<1> DEFINE last == IF capacity > 0 THEN ExtentNum(capacity - 1) ELSE -1
<1>1. /\ alive /\ alive' = FALSE
      /\ \A t \in Threads : pc[t] = "idle"
      /\ UNCHANGED <<count, capacity, pc, loc, shared>>
  BY DEF Destroy
<1>2. extents' = [e \in Extents |-> IF e \in DestroyExtents(last) THEN 0 ELSE extents[e]]
  BY DEF Destroy, Sized, Plain
<1>3. ASSUME NEW e \in Extents, extents[e] # 0 PROVE e \in DestroyExtents(last)
  <2>1. Top(e) <= capacity
    BY <1>1, <1>3 DEF CapacityInv, MemoryCounted, Climbing
  <2>2. /\ Top(e) \in 1..Room /\ capacity \in 0..Room
        /\ ExtentNum(Top(e) - 1) = e
    BY DEF Sized, ExtentsAdjoin, Top, CapacityInv
  <2>3. capacity > 0 /\ Top(e) - 1 <= capacity - 1
    BY <2>1, <2>2, RoomBounds
  <2>4. Top(e) - 1 \in Indices /\ capacity - 1 \in Indices
    BY <2>2, <2>3, RoomBounds
  <2>5. e <= last
    BY <2>2, <2>3, <2>4 DEF Sized, Plain, ExtentsOrdered
  <2>6. QED
    BY <1>3, <2>5 DEF DestroyExtents
<1>4. DestroyedFreed'
  BY <1>2, <1>3 DEF DestroyedFreed
<1>5. LimitSeen' /\ MemoryCounted' /\ capacity' \in 0..Room
  BY <1>1 DEF LimitSeen, MemoryCounted, CapacityInv
<1>6. QED
  BY <1>4, <1>5 DEF CapacityInv

(* ... and every step keeps it.                                            *)
LEMMA CapacityNext ==
    ASSUME Sized PROVE RangeInv /\ MemoryInv /\ CapacityInv /\ [Next]_vars => CapacityInv'
<1> SUFFICES ASSUME RangeInv, MemoryInv, CapacityInv, [Next]_vars PROVE CapacityInv'
  OBVIOUS
<1>1. CASE UNCHANGED vars
  BY <1>1, StutterKeepsCapacity DEF vars
<1>2. CASE Destroy
  BY <1>2, DestroyKeepsCapacity
<1>3. ASSUME NEW t \in Threads, Step(t) PROVE CapacityInv'
  <2>1. CASE \E call \in Calls : Begin(t, call)
    BY <2>1, BeginKeepsCapacity
  <2>2. CASE StoreCount(t)
    BY <2>2, StoreCountKeepsCapacity
  <2>3. CASE LoadExtent(t) \/ Publish(t) \/ LoadCapacity(t) \/ RaiseCapacity(t)
    BY <2>3, EnsureKeepsCapacity
  <2>4. CASE ReturnRange(t) \/ ReturnStored(t) \/ ReturnResized(t)
    BY <2>4, ReturnKeepsCapacity
  <2>5. CASE Fill(t)
    BY <2>5, StutterKeepsCapacity DEF Fill
  <2>6. QED
    BY <1>3, <2>1, <2>2, <2>3, <2>4, <2>5 DEF Step
<1>4. QED
  BY <1>1, <1>2, <1>3 DEF Next

-----------------------------------------------------------------------------
(* What is counted, as allocated or by the capacity, and has no memory is  *)
(* still to be passed by a thread that will make it.  This needs that a    *)
(* call begins no higher than the count: what is below its first extent    *)
(* was counted before it.                                                  *)
Foreseen ==
    /\ \A t \in Threads : Busy(t) => loc[t].idx <= count
    /\ alive => \A i \in Indices : i < count \/ i < capacity =>
        \/ extents[ExtentNum(i)] # 0
        \/ \E t \in Threads : Making(t, ExtentNum(i))

LEMMA ForeseenInit == ASSUME Sized PROVE Init => Foreseen
<1> SUFFICES ASSUME Init PROVE Foreseen
  OBVIOUS
<1> DEFINE start == IF FirstLimit = 0 THEN 0 ELSE ExtentNum(FirstLimit - 1) + 1
<1>1. /\ count = 0 /\ \A t \in Threads : ~Busy(t)
      /\ capacity = ExtentBase(start)
      /\ extents = [e \in Extents |-> IF e < start THEN e + 1 ELSE 0]
  BY DEF Init, Busy
<1>2. \A i \in Indices : ~(i < count)
  BY <1>1, RoomBounds
<1>3. CASE FirstLimit = 0
  <2>1. capacity = 0
    BY <1>1, <1>3 DEF Sized, ExtentsAdjoin
  <2>2. QED
    BY <1>1, <1>2, <2>1, RoomBounds DEF Foreseen
<1>4. CASE FirstLimit # 0
  <2> DEFINE last == ExtentNum(FirstLimit - 1)
  <2>1. FirstLimit \in 0..Room
    BY LimitAssumption DEF Room, ExtentBase
  <2>2. FirstLimit - 1 \in Indices
    BY <1>4, <2>1, RoomBounds
  <2>3. last \in Extents /\ start = last + 1 /\ capacity = Top(last)
    BY <1>1, <1>4, <2>2 DEF Sized, Plain, ExtentsOrdered, Top
  <2>4. \A e \in Extents : e <= last => extents[e] # 0
    BY <1>1, <2>3, LimitAssumption DEF Extents
  <2>5. \A i \in Indices : i < capacity => extents[ExtentNum(i)] # 0
    BY <2>3, <2>4, IndexBelowTop
  <2>6. QED
    BY <1>1, <1>2, <2>5 DEF Foreseen
<1>5. QED
  BY <1>3, <1>4

LEMMA StutterKeepsForeseen ==
    ASSUME Foreseen, UNCHANGED <<count, capacity, extents, pc, loc, alive>> PROVE Foreseen'
  BY DEF Foreseen, Making, Busy

(* A call that is counted as it begins, or now stores the count, is on its *)
(* way to all that it adds.                                                *)
LEMMA CountKeepsForeseen ==
    ASSUME Sized, RangeInv, RangeInv', MemoryInv', Foreseen, NEW t \in Threads,
           UNCHANGED <<capacity, extents, alive>>,
           \A e \in Extents : ~Making(t, e),
           \A u \in Threads \ {t} : loc'[u] = loc[u] /\ pc'[u] = pc[u],
           count <= count', pc'[t] \in {"bump", "load"}, loc'[t].idx <= count',
           \/ count' = count
           \/ /\ pc'[t] = "load" /\ loc'[t].idx = count
              /\ count' = loc'[t].idx + loc'[t].len
    PROVE  Foreseen'
<1>1. count \in Int /\ count' \in Int
  BY DEF RangeInv, Types
<1>2. ASSUME NEW u \in Threads, Busy(u)' PROVE loc'[u].idx <= count'
  <2>1. CASE u = t
    BY <2>1
  <2>2. CASE u # t
    BY <1>1, <1>2, <2>2 DEF Foreseen, Busy, RangeInv, Types, LocalTypes
  <2>3. QED
    BY <2>1, <2>2
<1>3. ASSUME alive, NEW i \in Indices, i < count' \/ i < capacity
      PROVE  extents[ExtentNum(i)] # 0 \/ \E u \in Threads : Making(u, ExtentNum(i))'
  <2>1. i \in Nat /\ ExtentNum(i) \in Extents
    BY RoomBounds DEF Sized, Plain, ExtentsOrdered
  <2>2. CASE i < count \/ i < capacity
    <3>1. extents[ExtentNum(i)] # 0 \/ \E u \in Threads \ {t} : Making(u, ExtentNum(i))
      BY <1>3, <2>1, <2>2 DEF Foreseen
    <3>2. QED
      BY <3>1 DEF Making
  <2>3. CASE ~(i < count \/ i < capacity)
    <3> DEFINE first == loc'[t].idx
               end == loc'[t].idx + loc'[t].len - 1
    <3>1. pc'[t] = "load" /\ first = count /\ count' = first + loc'[t].len
      BY <1>3, <2>3
    <3>2. /\ first \in Nat /\ loc'[t].len \in Nat /\ loc'[t].len > 0
          /\ first + loc'[t].len <= Room
          /\ loc'[t].last = ExtentNum(end) /\ loc'[t].ext \in Nat
          /\ \A e \in Extents : ExtentNum(first) <= e /\ e < loc'[t].ext => extents'[e] # 0
      BY <3>1 DEF RangeInv, Types, LocalTypes, MemoryInv, Passed, Busy
    <3>3. first <= i /\ i <= end /\ end < Room /\ end \in Nat /\ first < Room
      BY <1>1, <1>3, <2>1, <2>3, <3>1, <3>2, RoomBounds
    <3>4. first \in Indices /\ end \in Indices
      BY <3>2, <3>3, RoomBounds
    <3>5. ExtentNum(first) <= ExtentNum(i) /\ ExtentNum(i) <= ExtentNum(end)
      BY <3>3, <3>4 DEF Sized, Plain, ExtentsOrdered
    <3>6. ExtentNum(i) < loc'[t].ext \/ loc'[t].ext <= ExtentNum(i)
      BY <2>1, <3>2, LimitAssumption DEF Extents
    <3>7. QED
      BY <2>1, <3>1, <3>2, <3>5, <3>6 DEF Making
  <2>4. QED
    BY <2>2, <2>3
<1>4. QED
  BY <1>2, <1>3 DEF Foreseen

(* A thread that goes through the table makes what it comes by, and when   *)
(* it raises the capacity, whatever is below its first extent has been     *)
(* counted already.                                                        *)
LEMMA EnsureKeepsForeseen ==
    ASSUME Sized, RangeInv, RangeInv', MemoryInv, MemoryInv', CapacityInv, Foreseen,
           NEW t \in Threads,
           LoadExtent(t) \/ Publish(t) \/ LoadCapacity(t) \/ RaiseCapacity(t)
    PROVE  Foreseen'
<1>1. Busy(t) /\ alive /\ alive'
  BY DEF LoadExtent, Publish, LoadCapacity, RaiseCapacity, Busy, MemoryInv, DestroyedLast
<1>2. CASE UNCHANGED <<count, pc, loc, owner, shared>>
  <2>1. ~Publish(t) /\ ~LoadCapacity(t) /\ ~RaiseCapacity(t)
    BY <1>2 DEF Publish, LoadCapacity, RaiseCapacity, Goto, RangeInv, Types
  <2>2. QED
    BY <1>2, <2>1, StutterKeepsForeseen DEF LoadExtent
<1>3. CASE Within(t)
  <2>1. \A e \in Extents : extents[e] # 0 => extents'[e] # 0
    BY DEF LoadExtent, Publish, LoadCapacity, RaiseCapacity, MemoryInv, MemoryTypes
  <2>2. /\ UNCHANGED count
        /\ \A u \in Threads : Busy(u)' => loc'[u].idx <= count'
    BY <1>3, SameCall DEF Foreseen
  <2>3. Busy(t)' /\ pc'[t] \in Labels \ {"idle", "bump"}
    BY <1>3, SameCall DEF Within, RangeInv, Types
  <2>4. /\ loc'[t].idx = loc[t].idx /\ loc'[t].last = loc[t].last
        /\ loc[t].last \in Extents /\ ExtentNum(loc[t].idx) \in Extents
    BY <1>1, <1>3, SameCall, ExtentsOfCall DEF Sized
  <2>5. ASSUME NEW e \in Extents, ExtentNum(loc[t].idx) <= e, e <= loc[t].last
        PROVE  extents'[e] # 0 \/ Making(t, e)'
    <3>1. /\ loc'[t].ext \in Nat
          /\ pc'[t] \in {"capacity", "raise", "ensured"} => loc'[t].ext > loc[t].last
          /\ e < loc'[t].ext => extents'[e] # 0
      BY <2>3, <2>4, <2>5 DEF MemoryInv, Passed
    <3>2. e \in Int /\ loc[t].last \in Int
      BY <2>4, LimitAssumption DEF Extents
    <3>3. CASE pc'[t] \in {"capacity", "raise", "ensured"}
      BY <2>5, <3>1, <3>2, <3>3
    <3>4. CASE pc'[t] \in {"load", "publish"}
      <4>1. e < loc'[t].ext \/ loc'[t].ext <= e
        BY <3>1, <3>2
      <4>2. QED
        BY <2>4, <2>5, <3>1, <3>4, <4>1 DEF Making
    <3>5. QED
      BY <2>3, <3>3, <3>4 DEF Labels
  <2>6. ASSUME NEW i \in Indices, i < count \/ i < capacity
        PROVE  \/ extents'[ExtentNum(i)] # 0
               \/ \E u \in Threads : Making(u, ExtentNum(i))'
    <3>1. ExtentNum(i) \in Extents
      BY DEF Sized, Plain, ExtentsOrdered
    <3>2. CASE extents[ExtentNum(i)] # 0
      BY <2>1, <3>1, <3>2
    <3>3. CASE \E u \in Threads \ {t} : Making(u, ExtentNum(i))
      BY <1>3, <3>3, SameCall DEF Making
    <3>4. CASE Making(t, ExtentNum(i))
      <4>1. /\ loc[t].ext <= ExtentNum(i) /\ ExtentNum(i) <= loc[t].last
            /\ ExtentNum(loc[t].idx) <= loc[t].ext /\ loc[t].ext \in Nat
        BY <1>1, <3>4 DEF Making, MemoryInv, Passed
      <4>2. ExtentNum(loc[t].idx) <= ExtentNum(i)
        BY <2>4, <3>1, <4>1, LimitAssumption DEF Extents
      <4>3. QED
        BY <2>5, <3>1, <4>1, <4>2
    <3>5. QED
      BY <1>1, <2>6, <3>2, <3>3, <3>4 DEF Foreseen
  <2>7. ASSUME NEW i \in Indices, i < capacity', ~(i < capacity)
        PROVE  \/ extents'[ExtentNum(i)] # 0
               \/ \E u \in Threads : Making(u, ExtentNum(i))'
    <3>1. RaiseCapacity(t) /\ capacity' = NewLimit(t)
      BY <2>7 DEF LoadExtent, Publish, LoadCapacity, RaiseCapacity
    <3>2. capacity' = Top(loc[t].last)
      BY <2>4, <3>1, LimitAssumption
         DEF NewLimit, Top, ExtentSize, ExtentBase, Extents
    <3>3. ExtentNum(i) \in Extents /\ ExtentNum(i) <= loc[t].last
      BY <2>4, <2>7, <3>2, IndexBelowTop
    <3>4. CASE ExtentNum(loc[t].idx) <= ExtentNum(i)
      BY <2>5, <3>3, <3>4
    <3>5. CASE ~(ExtentNum(loc[t].idx) <= ExtentNum(i))
      <4>1. loc[t].idx \in Indices
        BY <1>1, ExtentsOfCall DEF Sized
      <4>2. ~(loc[t].idx <= i)
        BY <3>5, <4>1 DEF Sized, Plain, ExtentsOrdered
      <4>3. loc[t].idx <= count
        BY <1>1 DEF Foreseen
      <4>4. i < count
        <5>1. i \in Nat /\ loc[t].idx \in Nat
          BY <4>1, RoomBounds
        <5>2. count \in Nat
          <6>1. Types
            BY DEF RangeInv
          <6>2. QED
            BY <6>1, RoomBounds DEF Types
        <5>3. QED
          BY <4>2, <4>3, <5>1, <5>2
      <4>5. QED
        BY <2>6, <4>4
    <3>6. QED
      BY <3>4, <3>5
  <2>8. QED
    BY <2>2, <2>6, <2>7 DEF Foreseen
<1>4. QED
  BY <1>2, <1>3, EnsureWithin

LEMMA ForeseenNext ==
    ASSUME Sized
    PROVE  /\ RangeInv /\ RangeInv' /\ MemoryInv /\ MemoryInv' /\ CapacityInv
           /\ Foreseen /\ [Next]_vars
           => Foreseen'
<1> SUFFICES ASSUME RangeInv, RangeInv', MemoryInv, MemoryInv', CapacityInv,
                    Foreseen, [Next]_vars
             PROVE  Foreseen'
  OBVIOUS
<1>1. CASE UNCHANGED vars
  BY <1>1, StutterKeepsForeseen DEF vars
<1>2. CASE Destroy
  BY <1>2 DEF Destroy, Foreseen, Busy
<1>3. ASSUME NEW t \in Threads, Step(t) PROVE Foreseen'
  <2>1. ASSUME NEW call \in Calls, Begin(t, call) PROVE Foreseen'
    <3>1. pc[t] = "idle" /\ UNCHANGED <<capacity, extents, alive>>
      BY <2>1 DEF Begin, AllocAtomic, AllocRelaxed, AddAtomic, AddRelaxed, FetchAdd,
                  ReadCount, Set, Resize
    <3>2. CASE UNCHANGED <<count, pc, loc, owner, shared>>
      BY <3>1, <3>2, StutterKeepsForeseen
    <3>3. CASE Starts(t, call)
      <4>1. PICK idx \in Nat, len \in Nat, label \in {"bump", "load"} :
                Starting(t, call, idx, len, label)
        BY <3>3 DEF Starts
      <4>2. pc'[t] = label /\ loc'[t].idx = idx /\ loc'[t].len = len
        BY <4>1 DEF Starting, RangeInv, Types, LocalTypes
      <4>3. \A u \in Threads \ {t} : loc'[u] = loc[u] /\ pc'[u] = pc[u]
        BY <4>1 DEF Starting, RangeInv, Types, LocalTypes
      <4>4. count \in Nat
        BY DEF RangeInv, Types
      <4>5. \/ idx = count /\ label = "load" /\ count' = count + len
            \/ idx = count /\ count' = count
            \/ /\ call \in {"set", "resize"} /\ count' = count
               /\ call = "set" => idx \in Indices /\ owner[idx] = t
               /\ call = "resize" => idx = 0
        BY <4>1 DEF Starting
      <4>6. call = "set" /\ idx \in Indices /\ owner[idx] = t => idx < count
        BY NobodyAssumption DEF RangeInv, GivenCounted
      <4>7. idx <= count' /\ count <= count'
        BY <4>4, <4>5, <4>6
      <4>8. \A e : ~Making(t, e)
        BY <3>1 DEF Making
      <4>9. \/ count' = count
            \/ /\ pc'[t] = "load" /\ loc'[t].idx = count
               /\ count' = loc'[t].idx + loc'[t].len
        BY <4>2, <4>5
      <4>10. QED
        BY <3>1, <4>2, <4>3, <4>7, <4>8, <4>9, CountKeepsForeseen
    <3>4. QED
      BY <2>1, <3>2, <3>3, BeginStarts
  <2>2. CASE StoreCount(t)
    <3>1. /\ pc[t] = "bump" /\ count' = loc[t].idx + loc[t].len
          /\ UNCHANGED <<capacity, extents, loc, alive>>
          /\ pc' = [pc EXCEPT ![t] = "load"]
      BY <2>2 DEF StoreCount, Goto
    <3>2. pc'[t] = "load" /\ \A u \in Threads \ {t} : loc'[u] = loc[u] /\ pc'[u] = pc[u]
      BY <3>1 DEF RangeInv, Types
    <3>3. loc[t].idx = count /\ count \in Nat /\ loc[t].len \in Nat
      BY <3>1 DEF RangeInv, OneAtATime, Types, LocalTypes
    <3>4. \A e : ~Making(t, e)
      BY <3>1 DEF Making
    <3>5. count <= count'
      BY <3>1, <3>3
    <3>6. QED
      BY <3>1, <3>2, <3>3, <3>4, <3>5, CountKeepsForeseen
  <2>3. CASE LoadExtent(t) \/ Publish(t) \/ LoadCapacity(t) \/ RaiseCapacity(t)
    BY <2>3, EnsureKeepsForeseen
  <2>4. CASE ReturnRange(t) \/ ReturnStored(t) \/ ReturnResized(t)
    <3>1. Ending(t) /\ UNCHANGED <<capacity, extents, alive>>
      BY <2>4, ReturnEnds DEF ReturnRange, ReturnStored, ReturnResized
    <3>2. /\ pc[t] = "ensured" /\ ~Busy(t)' /\ UNCHANGED count
          /\ \A u \in Threads \ {t} : loc'[u] = loc[u] /\ pc'[u] = pc[u]
      BY <3>1 DEF Ending, Busy, RangeInv, Types, LocalTypes
    <3>3. \A u \in Threads : Busy(u)' => loc'[u].idx <= count'
      BY <3>2 DEF Foreseen, Busy
    <3>4. \A u \in Threads : \A e : Making(u, e) => Making(u, e)'
      BY <3>2 DEF Making
    <3>5. QED
      BY <3>1, <3>2, <3>3, <3>4 DEF Foreseen
  <2>5. CASE Fill(t)
    BY <2>5, StutterKeepsForeseen DEF Fill
  <2>6. QED
    BY <1>3, <2>1, <2>2, <2>3, <2>4, <2>5 DEF Step
<1>4. QED
  BY <1>1, <1>2, <1>3 DEF Next

(* The capacity counts memory that is there or about to be made, whatever  *)
(* calls overlap: once they have returned, mu_vec_resize may go by it.     *)
THEOREM CapacityBackedAlways == ASSUME Sized PROVE Spec => []CapacityBacked
<1>1. Plain
  BY DEF Sized
<1>2. Foreseen => CapacityBacked
  BY DEF Foreseen, CapacityBacked
<1>3. QED
  BY <1>1, <1>2, RangeInit, RangeNext, MemoryInit, MemoryNext, CapacityInit, CapacityNext,
     ForeseenInit, ForeseenNext, PTL DEF Spec

(* mu_vec_destroy, which goes by the capacity, leaves no block behind,     *)
(* whatever calls have overlapped before.                                  *)
THEOREM DestroyedFreedAlways == ASSUME Sized PROVE Spec => []DestroyedFreed
<1>1. Plain
  BY DEF Sized
<1>2. CapacityInv => DestroyedFreed
  BY DEF CapacityInv
<1>3. QED
  BY <1>1, <1>2, RangeInit, RangeNext, MemoryInit, MemoryNext, CapacityInit, CapacityNext,
     PTL DEF Spec
=============================================================================
