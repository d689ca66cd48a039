----------------------------- MODULE CodecProofs -----------------------------
(***************************************************************************)
(* Theorems about CodecStream for numbers of all values and buffers of any *)
(* size: that every reader takes exactly the octets its writer left, that  *)
(* a number of which a part was refused is never read, and that what a     *)
(* reader makes of the octets of a whole number is the number that was     *)
(* written.                                                                *)
(*                                                                         *)
(* A reader is shown to take so many octets as the first of them tell, and *)
(* to fail if there are fewer; a writer is shown to leave as many.  What   *)
(* is in them is a matter of bits, in the second half.                     *)
(***************************************************************************)
EXTENDS CodecStream, DataInduction

-----------------------------------------------------------------------------
(* What is left of a sequence *)

Drop(s, k) == SubSeq(s, k + 1, Len(s))

(* The items left keep their order.                                        *)
LEMMA DropIs ==
    ASSUME NEW s, IsSeq(s), NEW k \in 0..Len(s)
    PROVE  /\ IsSeq(Drop(s, k))
           /\ Len(Drop(s, k)) = Len(s) - k
           /\ \A i \in 1..(Len(s) - k) : Drop(s, k)[i] = s[k + i]
<1>1. PICK n, m : n = Len(s) /\ m = k + 1
  OBVIOUS
<1>2. n \in Nat /\ m \in Int /\ k \in 0..n
  BY <1>1, SeqDomain
<1>3. /\ IsSeq(SubSeq(s, m, n))
      /\ Len(SubSeq(s, m, n)) = IF m <= n THEN n - m + 1 ELSE 0
      /\ \A i \in 1..(n - m + 1) : SubSeq(s, m, n)[i] = s[m + i - 1]
  <2>1. m \in Int /\ n \in Int
    BY <1>2
  <2> QED
    BY ONLY <2>1, SeqPart
<1>4. Drop(s, k) = SubSeq(s, m, n)
  BY <1>1 DEF Drop
<1>5. Len(SubSeq(s, m, n)) = n - k
  BY <1>1, <1>2, <1>3
<1>6. \A i \in 1..(n - k) : i \in 1..(n - m + 1) /\ m + i - 1 = k + i
  BY <1>1, <1>2
<1> QED
  BY <1>1, <1>3, <1>4, <1>5, <1>6

(* What is left of what is left.                                           *)
LEMMA DropDrop ==
    ASSUME NEW s, IsSeq(s), NEW j \in 0..Len(s), NEW k \in 0..(Len(s) - j)
    PROVE  /\ j + k \in 0..Len(s)
           /\ Drop(Drop(s, j), k) = Drop(s, j + k)
<1>1. Len(s) \in Nat /\ j + k \in 0..Len(s)
  BY SeqDomain
<1>2. PICK t : t = Drop(s, j)
  OBVIOUS
<1>3. /\ IsSeq(t) /\ Len(t) = Len(s) - j
      /\ \A i \in 1..(Len(s) - j) : t[i] = s[j + i]
  BY <1>2, DropIs
<1>4. k \in 0..Len(t)
  BY <1>3
<1>5. PICK u : u = Drop(t, k)
  OBVIOUS
<1>6. /\ IsSeq(u) /\ Len(u) = Len(t) - k
      /\ \A i \in 1..(Len(t) - k) : u[i] = t[k + i]
  BY <1>3, <1>4, <1>5, DropIs
<1>7. PICK w : w = Drop(s, j + k)
  OBVIOUS
<1>8. /\ IsSeq(w) /\ Len(w) = Len(s) - (j + k)
      /\ \A i \in 1..(Len(s) - (j + k)) : w[i] = s[j + k + i]
  BY <1>1, <1>7, DropIs
<1>9. Len(u) = Len(w)
  BY <1>1, <1>3, <1>6, <1>8
<1>10. \A i \in 1..Len(u) : u[i] = w[i]
  <2> TAKE i \in 1..Len(u)
  <2>1. /\ i \in 1..(Len(t) - k) /\ k + i \in 1..(Len(s) - j)
        /\ i \in 1..(Len(s) - (j + k)) /\ j + (k + i) = j + k + i
    BY <1>1, <1>3, <1>6
  <2> QED
    BY <1>3, <1>6, <1>8, <2>1
<1>11. u = w
  BY <1>6, <1>8, <1>9, <1>10, SeqSame
<1> QED
  BY <1>1, <1>2, <1>5, <1>7, <1>11

(* Nothing dropped is the whole.                                           *)
LEMMA DropNone ==
    ASSUME NEW s, IsSeq(s) PROVE Drop(s, 0) = s
<1>1. Len(s) \in Nat /\ 0 \in 0..Len(s)
  BY SeqDomain
<1>2. PICK t : t = Drop(s, 0)
  OBVIOUS
<1>3. IsSeq(t) /\ Len(t) = Len(s) - 0 /\ \A i \in 1..(Len(s) - 0) : t[i] = s[0 + i]
  BY <1>1, <1>2, DropIs
<1>4. Len(t) = Len(s) /\ \A i \in 1..Len(t) : t[i] = s[i]
  BY <1>1, <1>3
<1> QED
  BY <1>2, <1>3, <1>4, SeqSame

(* The tail of a sequence is what is left when one item is dropped.        *)
LEMMA DropTail ==
    ASSUME NEW s, IsSeq(s), s # <<>>
    PROVE  /\ Len(s) \in Nat \ {0} /\ 1 \in 0..Len(s)
           /\ Head(s) = s[1] /\ Tail(s) = Drop(s, 1)
<1>1. Len(s) \in Nat /\ Len(s) > 0 /\ Head(s) = s[1]
  BY SeqDomain, SeqRest
<1>2. 1 \in 0..Len(s)
  BY <1>1
<1>3. PICK t : t = Drop(s, 1)
  OBVIOUS
<1>4. IsSeq(t) /\ Len(t) = Len(s) - 1 /\ \A i \in 1..(Len(s) - 1) : t[i] = s[1 + i]
  BY <1>2, <1>3, DropIs
<1>5. PICK u : u = Tail(s)
  OBVIOUS
<1>6. IsSeq(u) /\ Len(u) = Len(s) - 1 /\ \A i \in 1..Len(u) : u[i] = s[i + 1]
  BY <1>5, SeqRest
<1>7. Len(t) = Len(u) /\ \A i \in 1..Len(t) : t[i] = u[i]
  BY <1>1, <1>4, <1>6
<1>8. t = u
  BY <1>4, <1>6, <1>7, SeqSame
<1> QED
  BY <1>1, <1>2, <1>3, <1>5, <1>8

-----------------------------------------------------------------------------
(* What readers take *)

(* If a reader succeeds, it has taken k octets.                            *)
Takes(s, r, k) == r.ok => k \in 0..Len(s) /\ r.rest = Drop(s, k)

(* A reader that goes on where another has ended.                          *)
LEMMA TakesMore ==
    ASSUME NEW s, IsSeq(s), NEW r, NEW q, NEW j \in Nat, NEW k \in Nat,
           Takes(s, r, j), r.ok, Takes(r.rest, q, k)
    PROVE  Takes(s, q, j + k)
<1> SUFFICES ASSUME q.ok PROVE j + k \in 0..Len(s) /\ q.rest = Drop(s, j + k)
  BY DEF Takes
<1>1. j \in 0..Len(s) /\ r.rest = Drop(s, j)
  BY DEF Takes
<1>2. Len(s) \in Nat /\ Len(r.rest) = Len(s) - j
  BY <1>1, DropIs, SeqDomain
<1>3. k \in 0..(Len(s) - j) /\ q.rest = Drop(r.rest, k)
  BY <1>2 DEF Takes
<1> QED
  BY <1>1, <1>3, DropDrop

(* A failed read takes anything.                                           *)
LEMMA FailedTakes ==
    ASSUME NEW s, NEW t, NEW k PROVE ~Failed(t).ok /\ Takes(s, Failed(t), k)
  BY DEF Failed, Takes

(* What a successful read answers.                                         *)
LEMMA ValueIs ==
    ASSUME NEW v, NEW t
    PROVE  Value(v, t).ok /\ Value(v, t).value = v /\ Value(v, t).rest = t
  BY DEF Value

(* ReadBytes takes as many octets as it is asked for, if there are so many.*)
LEMMA ReadBytesTakes ==
    ASSUME NEW s, IsSeq(s), NEW n \in Nat
    PROVE  /\ Takes(s, ReadBytes(s, n), n)
           /\ ReadBytes(s, n).ok <=> n <= Len(s)
<1>1. Len(s) \in Nat
  BY SeqDomain
<1>2. CASE Len(s) < n
  <2>1. ReadBytes(s, n) = Failed(s) /\ ~(n <= Len(s))
    BY <1>1, <1>2 DEF ReadBytes
  <2> QED
    BY <2>1, FailedTakes
<1>3. CASE ~(Len(s) < n)
  <2>1. ReadBytes(s, n) = Value(SubSeq(s, 1, n), Drop(s, n)) /\ n \in 0..Len(s) /\ n <= Len(s)
    BY <1>1, <1>3 DEF ReadBytes, Drop
  <2> QED
    BY <2>1, ValueIs DEF Takes
<1> QED
  BY <1>2, <1>3

(* So do the integers of a given length, of both byte orders.              *)
LEMMA IntegerTakes ==
    ASSUME NEW s, IsSeq(s), NEW n \in Nat
    PROVE  /\ Takes(s, BerU64Read(s, n), n) /\ Takes(s, BerS64Read(s, n), n)
           /\ Takes(s, LeU64Read(s, n), n) /\ Takes(s, LeS64Read(s, n), n)
<1>1. PICK r : r = ReadBytes(s, n)
  OBVIOUS
<1>2. Takes(s, r, n)
  BY <1>1, ReadBytesTakes
<1>3. \A v : r.ok => Takes(s, Value(v, r.rest), n)
  BY <1>2, ValueIs DEF Takes
<1>4. Takes(s, BerU64Read(s, n), n)
  <2>1. BerU64Read(s, n) =
          IF n > 8 \/ ~r.ok THEN Failed(s) ELSE Value(FromBigEndian(r.value), r.rest)
    BY <1>1 DEF BerU64Read
  <2> QED
    BY <1>3, <2>1, FailedTakes
<1>5. Takes(s, LeU64Read(s, n), n)
  <2>1. LeU64Read(s, n) =
          IF n > 8 \/ ~r.ok THEN Failed(s) ELSE Value(FromLittleEndian(r.value), r.rest)
    BY <1>1 DEF LeU64Read
  <2> QED
    BY <1>3, <2>1, FailedTakes
<1>6. ASSUME NEW q, Takes(s, q, n), NEW v
      PROVE  Takes(s, IF q.ok THEN Value(v, q.rest) ELSE q, n)
  BY <1>6, ValueIs DEF Takes
<1>7. Takes(s, BerS64Read(s, n), n)
  <2>1. PICK q : q = BerU64Read(s, n)
    OBVIOUS
  <2>2. BerS64Read(s, n) = IF q.ok THEN Value(SignExtend(q.value, n), q.rest) ELSE q
    BY <2>1 DEF BerS64Read
  <2> QED
    BY <1>4, <1>6, <2>1, <2>2
<1>8. Takes(s, LeS64Read(s, n), n)
  <2>1. PICK q : q = LeU64Read(s, n)
    OBVIOUS
  <2>2. LeS64Read(s, n) = IF q.ok THEN Value(SignExtend(q.value, n), q.rest) ELSE q
    BY <2>1 DEF LeS64Read
  <2> QED
    BY <1>5, <1>6, <2>1, <2>2
<1> QED
  BY <1>4, <1>5, <1>7, <1>8

(* What follows, s, begins with the octets e, as far as it goes.           *)
Agrees(s, e) == \A i \in 1..Len(e) : i <= Len(s) => s[i] = e[i]

(* So does what is left of both.                                           *)
LEMMA AgreesAfter ==
    ASSUME NEW s, IsSeq(s), NEW a, NEW b, IsSeq(a), IsSeq(b), Agrees(s, a \o b),
           Len(a) <= Len(s)
    PROVE  Agrees(s, a) /\ Agrees(Drop(s, Len(a)), b)
<1>1. PICK j, k, n : j = Len(a) /\ k = Len(b) /\ n = Len(s)
  OBVIOUS
<1>2. j \in 0..n /\ k \in Nat /\ n \in Nat
  BY <1>1, SeqDomain
<1>3. PICK e, t : e = a \o b /\ t = Drop(s, j)
  OBVIOUS
<1>4. JoinOf(e, a, b)
  BY <1>3, JoinIs
<1>5. Len(e) = j + k /\ (\A i \in 1..j : e[i] = a[i]) /\ \A i \in 1..k : e[j + i] = b[i]
  BY <1>1, <1>4 DEF JoinOf
<1>6. Len(t) = n - j /\ \A i \in 1..(n - j) : t[i] = s[j + i]
  BY <1>1, <1>2, <1>3, DropIs
<1>7. \A i \in 1..(j + k) : i <= n => s[i] = e[i]
  BY <1>1, <1>3, <1>5 DEF Agrees
<1>8. Agrees(s, a)
  <2> SUFFICES ASSUME NEW i \in 1..j, i <= n PROVE s[i] = a[i]
    BY <1>1 DEF Agrees
  <2>1. i \in 1..(j + k)
    BY <1>2
  <2> QED
    BY <1>5, <1>7, <2>1
<1>9. Agrees(t, b)
  <2> SUFFICES ASSUME NEW i \in 1..k, i <= n - j PROVE t[i] = b[i]
    BY <1>1, <1>6 DEF Agrees
  <2>1. j + i \in 1..(j + k) /\ j + i <= n /\ i \in 1..(n - j)
    BY <1>2
  <2>2. t[i] = s[j + i]
    BY <1>6, <2>1
  <2>3. s[j + i] = e[j + i]
    BY <1>7, <2>1
  <2> QED
    BY <1>5, <2>2, <2>3
<1> QED
  BY <1>1, <1>3, <1>8, <1>9

(* Groups of seven bits: all but the last are marked.                      *)
Grouped(e) ==
    /\ IsSeq(e) /\ Len(e) \in 1..8
    /\ \A k \in 1..Len(e) : 7 \in e[k] <=> k < Len(e)

(* The last of the groups is the first octet without the mark.             *)
LEMMA GroupsFound ==
    ASSUME NEW e, Grouped(e), NEW s, IsSeq(s), Agrees(s, e), GroupsIn(s) # {}
    PROVE  Len(e) \in 0..Len(s) /\ Min(GroupsIn(s)) = Len(e)
<1>1. PICK n, m : n = Len(s) /\ m = Len(e)
  OBVIOUS
<1>2. n \in Nat /\ m \in 1..8
  BY <1>1, SeqDomain DEF Grouped
<1>3. PICK T : T = GroupsIn(s)
  OBVIOUS
<1>4. \A k : k \in T <=> k \in 1..n /\ (7 \notin s[k] \/ k = 8)
  BY <1>1, <1>3 DEF GroupsIn
<1>5. \A k \in 1..m : k <= n => (k \in T <=> k = m)
  <2> TAKE k \in 1..m
  <2> HAVE k <= n
  <2>1. s[k] = e[k] /\ (7 \in e[k] <=> k < m)
    BY <1>1 DEF Agrees, Grouped
  <2>2. k \in 1..n /\ (k < m => k # 8) /\ (k = m <=> ~(k < m))
    BY <1>2
  <2> QED
    BY <1>4, <2>1, <2>2
<1>6. T \in SUBSET Nat /\ T # {}
  BY <1>3, <1>4
<1>7. Min(T) \in T /\ \A k \in T : Min(T) <= k
  BY <1>6, MinIs
<1>8. PICK l : l = Min(T)
  OBVIOUS
<1>9. l \in T /\ l \in 1..n
  BY <1>4, <1>7, <1>8
<1>10. CASE m <= n
  <2>1. m \in T
    BY <1>2, <1>5, <1>10
  <2>2. l <= m
    BY <1>7, <1>8, <2>1
  <2>3. l \in 1..m /\ l <= n
    BY <1>2, <1>9, <2>2
  <2>4. l = m
    BY <1>5, <1>9, <2>3
  <2> QED
    BY <1>1, <1>2, <1>3, <1>8, <1>10, <2>4
<1>11. CASE ~(m <= n)
  <2>1. l \in 1..m /\ l <= n /\ l # m
    BY <1>2, <1>9, <1>11
  <2> QED
    BY <1>5, <1>9, <2>1
<1> QED
  BY <1>10, <1>11

(* LEB128 numbers and tags end with the last of their groups.              *)
LEMMA GroupsTaken ==
    ASSUME NEW e, Grouped(e), NEW s, IsSeq(s), Agrees(s, e)
    PROVE  Takes(s, LebRead(s), Len(e)) /\ Takes(s, TagRead(s), Len(e))
<1>1. CASE GroupsIn(s) = {}
  <2>1. LebRead(s) = Failed(<<>>) /\ TagRead(s) = Failed(<<>>)
    BY <1>1 DEF LebRead, TagRead
  <2> QED
    BY <2>1, FailedTakes
<1>2. CASE GroupsIn(s) # {}
  <2>1. Len(e) \in 0..Len(s) /\ Min(GroupsIn(s)) = Len(e)
    BY <1>2, GroupsFound
  <2>2. PICK n : n = Len(e)
    OBVIOUS
  <2>3. /\ \E v : LebRead(s) = Value(v, Drop(s, n))
        /\ \E v : TagRead(s) = Value(v, Drop(s, n))
    <3>1. PICK v : v = UNION {Shl(s[k] \ {7}, 7 * (k - 1), 64) : k \in 1..n}
      OBVIOUS
    <3>2. PICK w : w = UNION {Shl(s[k] \ {7}, 7 * (n - k), 64) : k \in 1..n}
      OBVIOUS
    <3>3. LebRead(s) = Value(v, Drop(s, n))
      BY <1>2, <2>1, <2>2, <3>1 DEF LebRead, Drop
    <3>4. TagRead(s) = Value(w, Drop(s, n))
      BY <1>2, <2>1, <2>2, <3>2 DEF TagRead, Drop
    <3> QED
      BY <3>3, <3>4
  <2> QED
    BY <2>1, <2>2, <2>3, ValueIs DEF Takes
<1> QED
  BY <1>1, <1>2

(* A reader that begins with one octet.                                    *)
LEMMA TakesOne ==
    ASSUME NEW s, IsSeq(s), s # <<>>
    PROVE  /\ \A v : Takes(s, Value(v, Tail(s)), 1)
           /\ IsSeq(Tail(s))
           /\ \A q : \A k \in Nat : Takes(Tail(s), q, k) => Takes(s, q, 1 + k)
<1>1. Tail(s) = Drop(s, 1) /\ 1 \in 0..Len(s)
  BY DropTail
<1>2. \A v : Takes(s, Value(v, Tail(s)), 1)
  <2> TAKE v
  <2>1. PICK t : t = Tail(s)
    OBVIOUS
  <2>2. t = Drop(s, 1)
    BY <1>1, <2>1
  <2>3. Value(v, t).rest = t
    BY ValueIs
  <2>4. Takes(s, Value(v, t), 1)
    BY <1>1, <2>2, <2>3 DEF Takes
  <2> QED
    BY <2>1, <2>4
<1>3. ASSUME NEW q, NEW k \in Nat, Takes(Tail(s), q, k) PROVE Takes(s, q, 1 + k)
  <2>1. PICK r : r = Value({}, Tail(s))
    OBVIOUS
  <2>2. Takes(s, r, 1) /\ r.ok /\ r.rest = Tail(s)
    BY <1>2, <2>1, ValueIs, ZenonT(40)
  <2>3. 1 \in Nat
    OBVIOUS
  <2> QED
    BY <1>3, <2>2, <2>3, TakesMore
<1>4. IsSeq(Tail(s))
  BY <1>1, DropIs
<1> QED
  BY <1>2, <1>3, <1>4

(* A stream that begins with a code begins with its first octet.           *)
LEMMA FirstAgrees ==
    ASSUME NEW s, IsSeq(s), s # <<>>, NEW e, Len(e) \in Nat \ {0}, Agrees(s, e)
    PROVE  Head(s) = e[1]
<1>1. Len(s) \in Nat \ {0} /\ Head(s) = s[1]
  BY DropTail
<1>2. 1 \in 1..Len(e) /\ 1 <= Len(s)
  BY <1>1
<1> QED
  BY <1>1, <1>2 DEF Agrees

(* The number of low bits that are set, and the clear one behind, tell the *)
(* length.                                                                 *)
LEMMA VluTaken ==
    ASSUME NEW e, IsSeq(e), NEW n \in 1..8, Len(e) = n,
           0..(n - 2) \subseteq e[1], n - 1 \notin e[1],
           NEW s, IsSeq(s), Agrees(s, e)
    PROVE  Takes(s, VluRead(s), n)
<1>1. CASE s = <<>>
  <2>1. VluRead(s) = Failed(s)
    BY <1>1 DEF VluRead
  <2> QED
    BY <2>1, FailedTakes
<1>2. CASE s # <<>>
  <2>1. PICK b : b = e[1]
    OBVIOUS
  <2>2. Head(s) = b
    BY <1>2, <2>1, FirstAgrees
  <2>3. PICK C : C = Complement(b, 8)
    OBVIOUS
  <2>4. C \in SUBSET Nat /\ n - 1 \in C /\ \A k \in C : ~(k \in 0..(n - 2))
    BY <2>1, <2>3 DEF Complement
  <2>5. Min(C) \in C /\ \A k \in C : Min(C) <= k
    <3>1. C # {}
      BY <2>4
    <3> QED
      BY <2>4, <3>1, MinIs
  <2>6. PICK l : l = Min(C)
    OBVIOUS
  <2>7. l \in Nat /\ l <= n - 1 /\ ~(l \in 0..(n - 2))
    BY <2>4, <2>5, <2>6
  <2>8. l + 1 = n
    BY <2>7
  <2>9. Ctz(Complement(Head(s), 8), 64) + 1 = n
    BY <2>2, <2>3, <2>4, <2>6, <2>8 DEF Ctz
  <2>10. PICK q : q = LeU64Read(Tail(s), n - 1)
    OBVIOUS
  <2>11. \E v, w : VluRead(s) = IF n = 1 THEN Value(v, Tail(s))
                                ELSE IF ~q.ok THEN q ELSE Value(w, q.rest)
    <3>1. PICK v : v = Shr(Head(s), 1)
      OBVIOUS
    <3>2. PICK w : w = Shr(Head(s), n) \union Shl(q.value, 8 - n, 64)
      OBVIOUS
    <3>3. ~(n > 8)
      OBVIOUS
    <3>4. VluRead(s) = IF n = 1 THEN Value(v, Tail(s))
                       ELSE IF ~q.ok THEN q ELSE Value(w, q.rest)
      BY <1>2, <2>9, <2>10, <3>1, <3>2, <3>3 DEF VluRead
    <3> QED
      BY <3>4
  <2>12. CASE n = 1
    BY <1>2, <2>11, <2>12, TakesOne
  <2>13. CASE n # 1
    <3>1. n - 1 \in Nat /\ 1 + (n - 1) = n
      BY <2>13
    <3>2. Takes(Tail(s), q, n - 1)
      BY <1>2, <2>10, <3>1, TakesOne, IntegerTakes
    <3>3. Takes(s, q, n)
      BY <1>2, <3>1, <3>2, TakesOne
    <3>4. \A w : q.ok => Takes(s, Value(w, q.rest), n)
      BY <3>3, ValueIs DEF Takes
    <3> QED
      BY <2>11, <2>13, <3>3, <3>4
  <2> QED
    BY <2>12, <2>13
<1> QED
  BY <1>1, <1>2

(* An identifier of one octet, and one with a tag behind it.               *)
LEMMA ShortIdentTaken ==
    ASSUME NEW e, IsSeq(e), Len(e) >= 1, Low(e[1], 5) # 0..4,
           NEW s, IsSeq(s), Agrees(s, e)
    PROVE  Takes(s, IdentRead(s), 1)
<1>1. CASE s = <<>>
  <2>1. IdentRead(s) = Failed(s)
    BY <1>1 DEF IdentRead
  <2> QED
    BY <2>1, FailedTakes
<1>2. CASE s # <<>>
  <2>1. Len(e) \in Nat \ {0}
    BY SeqDomain
  <2>2. Head(s) = e[1]
    BY <1>2, <2>1, FirstAgrees
  <2>3. \E v : IdentRead(s) = Value(v, Tail(s))
    BY <1>2, <2>2 DEF IdentRead
  <2> QED
    BY <1>2, <2>3, TakesOne
<1> QED
  BY <1>1, <1>2

(* A long identifier is an octet and the groups of the tag.                *)
LEMMA LongIdentTaken ==
    ASSUME NEW o, Low(o, 5) = 0..4, NEW g, Grouped(g),
           NEW s, IsSeq(s), Agrees(s, <<o>> \o g)
    PROVE  Takes(s, IdentRead(s), 1 + Len(g))
<1>1. CASE s = <<>>
  <2>1. IdentRead(s) = Failed(s)
    BY <1>1 DEF IdentRead
  <2> QED
    BY <2>1, FailedTakes
<1>2. CASE s # <<>>
  <2>1. PICK one : one = <<o>>
    OBVIOUS
  <2>2. IsSeq(one) /\ Len(one) = 1 /\ one[1] = o
    BY <2>1, OneSeq
  <2>3. IsSeq(g) /\ Len(g) \in Nat
    BY SeqDomain DEF Grouped
  <2>4. Len(s) \in Nat \ {0} /\ Tail(s) = Drop(s, 1)
    BY <1>2, DropTail
  <2>5. Len(one) <= Len(s)
    BY <2>2, <2>4
  <2>6. Agrees(s, one) /\ Agrees(Tail(s), g)
    BY <2>1, <2>2, <2>3, <2>4, <2>5, AgreesAfter
  <2>7. Head(s) = o
    BY <1>2, <2>2, <2>6, FirstAgrees
  <2>8. PICK q : q = TagRead(Tail(s))
    OBVIOUS
  <2>9. Takes(s, q, 1 + Len(g))
    <3>1. Takes(Tail(s), q, Len(g))
      BY <1>2, <2>6, <2>8, TakesOne, GroupsTaken
    <3> QED
      BY <1>2, <2>3, <3>1, TakesOne
  <2>10. \/ IdentRead(s) = q
         \/ IdentRead(s) = Failed(q.rest)
         \/ q.ok /\ \E v : IdentRead(s) = Value(v, q.rest)
    BY <1>2, <2>7, <2>8 DEF IdentRead
  <2>11. \A v : q.ok => Takes(s, Value(v, q.rest), 1 + Len(g))
    BY <2>9, ValueIs DEF Takes
  <2> QED
    BY <2>9, <2>10, <2>11, FailedTakes
<1> QED
  BY <1>1, <1>2

(* A length of one octet is that octet; the first of several tells how     *)
(* many there are.                                                         *)
LEMMA ShortLengthTaken ==
    ASSUME NEW e, IsSeq(e), Len(e) >= 1, 7 \notin e[1],
           NEW s, IsSeq(s), Agrees(s, e)
    PROVE  Takes(s, LengthRead(s), 1) /\ (LengthRead(s).ok => LengthRead(s).value = e[1])
<1>1. CASE s = <<>>
  <2>1. LengthRead(s) = Failed(s)
    BY <1>1 DEF LengthRead
  <2> QED
    BY <2>1, FailedTakes
<1>2. CASE s # <<>>
  <2>1. Len(e) \in Nat \ {0}
    BY SeqDomain
  <2>2. Head(s) = e[1]
    BY <1>2, <2>1, FirstAgrees
  <2>3. LengthRead(s) = Value(e[1], Tail(s))
    BY <1>2, <2>2 DEF LengthRead
  <2> QED
    BY <1>2, <2>3, TakesOne, ValueIs
<1> QED
  BY <1>1, <1>2

(* A long length has as many octets as its first one says.                 *)
LEMMA LongLengthTaken ==
    ASSUME NEW e, IsSeq(e), NEW n \in 1..8, Len(e) >= 1,
           7 \in e[1], Number(e[1] \ {7}) = n,
           NEW s, IsSeq(s), Agrees(s, e)
    PROVE  Takes(s, LengthRead(s), 1 + n)
<1>1. CASE s = <<>>
  <2>1. LengthRead(s) = Failed(s)
    BY <1>1 DEF LengthRead
  <2> QED
    BY <2>1, FailedTakes
<1>2. CASE s # <<>>
  <2>1. Len(e) \in Nat \ {0}
    BY SeqDomain
  <2>2. Head(s) = e[1]
    BY <1>2, <2>1, FirstAgrees
  <2>3. PICK q : q = ReadBytes(Tail(s), n)
    OBVIOUS
  <2>4. LengthRead(s) = IF ~q.ok THEN Failed(<<>>) ELSE Value(FromBigEndian(q.value), q.rest)
    <3>1. n \in 1..8
      OBVIOUS
    <3> QED
      BY <1>2, <2>2, <2>3, <3>1 DEF LengthRead
  <2>5. Takes(s, q, 1 + n)
    <3>1. IsSeq(Tail(s)) /\ n \in Nat
      BY <1>2, TakesOne
    <3>2. Takes(Tail(s), q, n)
      BY <2>3, <3>1, ReadBytesTakes
    <3> QED
      BY <1>2, <3>1, <3>2, TakesOne
  <2>6. \A v : q.ok => Takes(s, Value(v, q.rest), 1 + n)
    BY <2>5, ValueIs DEF Takes
  <2> QED
    BY <2>4, <2>6, FailedTakes
<1> QED
  BY <1>1, <1>2

(* Two sequences that agree still do when both lose as many items.         *)
LEMMA AgreesDrop ==
    ASSUME NEW s, IsSeq(s), NEW e, IsSeq(e), Agrees(s, e),
           NEW j \in 0..Len(e), j <= Len(s)
    PROVE  Agrees(Drop(s, j), Drop(e, j))
<1>1. PICK n, m : n = Len(s) /\ m = Len(e)
  OBVIOUS
<1>2. n \in Nat /\ m \in Nat /\ j \in 0..n /\ j \in 0..m
  BY <1>1, SeqDomain
<1>3. PICK t, f : t = Drop(s, j) /\ f = Drop(e, j)
  OBVIOUS
<1>4. /\ Len(t) = n - j /\ \A i \in 1..(n - j) : t[i] = s[j + i]
      /\ Len(f) = m - j /\ \A i \in 1..(m - j) : f[i] = e[j + i]
  BY <1>1, <1>2, <1>3, DropIs
<1>5. ASSUME NEW i \in 1..(m - j), i <= n - j PROVE t[i] = f[i]
  <2>1. i \in 1..(n - j) /\ j + i \in 1..m /\ j + i <= n
    BY <1>2, <1>5
  <2>2. s[j + i] = e[j + i]
    BY <1>1, <2>1 DEF Agrees
  <2> QED
    BY <1>4, <2>1, <2>2
<1> QED
  BY <1>3, <1>4, <1>5 DEF Agrees

(* Identifier and length of an ASN.1 number, in an octet each.             *)
Tagged(e, n) ==
    /\ IsSeq(e) /\ Len(e) >= 2
    /\ Low(e[1], 5) # 0..4 /\ n \in 0..20 /\ e[2] = Bits(n)

(* The tag and the length of an ASN.1 number are an octet each.            *)
LEMMA DerHeaderTaken ==
    ASSUME NEW e, NEW n, Tagged(e, n), NEW s, IsSeq(s), Agrees(s, e)
    PROVE  Takes(s, DerHeader(s), 2) /\ (DerHeader(s).ok => Number(DerHeader(s).value) = n)
<1>1. PICK q : q = IdentRead(s)
  OBVIOUS
<1>2. Takes(s, q, 1)
  <2>1. IsSeq(e) /\ Len(e) >= 1 /\ Low(e[1], 5) # 0..4
    BY SeqDomain DEF Tagged
  <2> QED
    BY <1>1, <2>1, ShortIdentTaken
<1>3. CASE ~q.ok
  <2>1. DerHeader(s) = q
    BY <1>1, <1>3 DEF DerHeader
  <2> QED
    BY <1>3, <2>1 DEF Takes
<1>4. CASE q.ok
  <2>1. q.rest = Drop(s, 1) /\ 1 \in 0..Len(s)
    BY <1>2, <1>4 DEF Takes
  <2>2. PICK t, f : t = Drop(s, 1) /\ f = Drop(e, 1)
    OBVIOUS
  <2>3. 1 \in 0..Len(e) /\ 1 <= Len(s) /\ Len(e) \in Nat /\ Len(e) >= 2 /\ IsSeq(e)
    BY <2>1, SeqDomain DEF Tagged
  <2>4. IsSeq(t) /\ Agrees(t, f)
    BY <2>1, <2>2, <2>3, AgreesDrop, DropIs
  <2>5. IsSeq(f) /\ Len(f) >= 1 /\ f[1] = Bits(n)
    <3>1. /\ IsSeq(f) /\ Len(f) = Len(e) - 1
          /\ \A i \in 1..(Len(e) - 1) : f[i] = e[1 + i]
      BY <2>2, <2>3, DropIs
    <3>2. 1 \in 1..(Len(e) - 1) /\ Len(e) - 1 >= 1 /\ e[1 + 1] = e[2]
      BY <2>3
    <3> QED
      BY <3>1, <3>2 DEF Tagged
  <2>6. 7 \notin Bits(n) /\ Number(Bits(n)) = n
    <3>1. n \in 0..20
      BY DEF Tagged
    <3>2. Bits(n) \subseteq 0..4 /\ Number(Bits(n)) = n
      BY ONLY <3>1, NumbersAssumption
    <3> QED
      BY <3>2
  <2>7. Takes(t, LengthRead(t), 1) /\ (LengthRead(t).ok => LengthRead(t).value = Bits(n))
    BY <2>4, <2>5, <2>6, ShortLengthTaken
  <2>8. DerHeader(s) = LengthRead(t)
    BY <1>1, <1>4, <2>1, <2>2 DEF DerHeader
  <2>9. Takes(s, LengthRead(t), 1 + 1)
    <3>1. q.rest = t /\ 1 \in Nat
      BY <2>1, <2>2
    <3> QED
      BY <1>2, <1>4, <2>7, <3>1, TakesMore
  <2> QED
    BY <2>6, <2>7, <2>8, <2>9
<1> QED
  BY <1>3, <1>4

(* ASN.1 integers have as many octets more as their length says.           *)
LEMMA DerTaken ==
    ASSUME NEW e, NEW n, Tagged(e, n), NEW s, IsSeq(s), Agrees(s, e)
    PROVE  Takes(s, DerU64Read(s), 2 + n) /\ Takes(s, DerS64Read(s), 2 + n)
<1>1. PICK h : h = DerHeader(s)
  OBVIOUS
<1>2. Takes(s, h, 2) /\ (h.ok => Number(h.value) = n) /\ n \in Nat /\ 2 \in Nat
  <2>1. n \in 0..20
    BY DEF Tagged
  <2>2. Takes(s, h, 2) /\ (h.ok => Number(h.value) = n)
    BY ONLY <1>1, DerHeaderTaken, Tagged(e, n), IsSeq(s), Agrees(s, e)
  <2> QED
    BY <2>1, <2>2
<1>3. CASE ~h.ok
  <2>1. DerU64Read(s) = h /\ DerS64Read(s) = h
    BY <1>1, <1>3 DEF DerU64Read, DerS64Read
  <2> QED
    BY <1>3, <2>1 DEF Takes
<1>4. CASE h.ok
  <2>1. DerU64Read(s) = BerU64Read(h.rest, n) /\ DerS64Read(s) = BerS64Read(h.rest, n)
    BY <1>1, <1>2, <1>4 DEF DerU64Read, DerS64Read
  <2>2. IsSeq(h.rest)
    BY <1>2, <1>4, DropIs DEF Takes
  <2>3. Takes(h.rest, BerU64Read(h.rest, n), n) /\ Takes(h.rest, BerS64Read(h.rest, n), n)
    BY <1>2, <2>2, IntegerTakes
  <2> QED
    BY <1>2, <1>4, <2>1, <2>3, TakesMore
<1> QED
  BY <1>3, <1>4

(* The octets that stand for a real by themselves.                         *)
Special == {PlusInfinity, MinusInfinity, MinusZero, NotANumber}

(* A real takes the octets it is told, or one that says what it is.        *)
LEMMA RealTaken ==
    ASSUME NEW b, IsSeq(b), Len(b) >= 1, NEW n \in Nat,
           b[1] \in Special => n = 1, b[1] \notin Special => Number(Low(b[1], 2)) \in Nat,
           NEW t, IsSeq(t), Agrees(t, b)
    PROVE  Takes(t, RealRead(t, n), n)
<1>1. CASE t = <<>>
  <2>1. RealRead(t, n) = Failed(t)
    BY <1>1 DEF RealRead
  <2> QED
    BY <2>1, FailedTakes
<1>2. CASE t # <<>> /\ b[1] \in Special
  <2>1. Len(b) \in Nat \ {0}
    BY SeqDomain
  <2>2. Head(t) \in Special
    BY <1>2, <2>1, FirstAgrees
  <2>3. \E v : RealRead(t, n) = Value(v, Tail(t))
    BY <1>2, <2>2 DEF RealRead, Special
  <2> QED
    BY <1>2, <2>3, TakesOne
<1>3. CASE t # <<>> /\ b[1] \notin Special
  <2>1. Len(b) \in Nat \ {0}
    BY SeqDomain
  <2>2. PICK o : o = b[1]
    OBVIOUS
  <2>3. Head(t) = o
    BY <1>3, <2>1, <2>2, FirstAgrees
  <2>4. PICK l : l = Number(Low(o, 2)) + 1
    OBVIOUS
  <2>5. l \in Nat
    BY <1>3, <2>2, <2>4
  <2>6. PICK e : e = BerS64Read(Tail(t), l)
    OBVIOUS
  <2>7. PICK m : m = BerU64Read(e.rest, n - l - 1)
    OBVIOUS
  <2>8. \/ \E x : RealRead(t, n) = Failed(x)
        \/ ~e.ok /\ RealRead(t, n) = e
        \/ e.ok /\ m.ok /\ ~(n - l - 1 < 0) /\ \E v : RealRead(t, n) = Value(v, m.rest)
    <3>1. /\ o # PlusInfinity /\ o # MinusInfinity /\ o # MinusZero /\ o # NotANumber
      BY <1>3, <2>2 DEF Special
    <3>2. RealRead(t, n) =
            IF 7 \notin o \/ l > 2 THEN Failed(Tail(t))
            ELSE IF ~e.ok THEN e
            ELSE IF n - l - 1 < 0 \/ ~m.ok THEN Failed(e.rest)
            ELSE IF ~RealInRange(m.value, SignedNumber(e.value)) THEN Failed(m.rest)
            ELSE Value(RealAssemble(6 \in o, m.value, SignedNumber(e.value)), m.rest)
      BY <1>3, <2>3, <2>4, <2>6, <2>7, <3>1 DEF RealRead
    <3> QED
      BY <3>2
  <2>9. CASE ~(n - l - 1 < 0) /\ e.ok
    <3>1. n - l - 1 \in Nat /\ (1 + l) + (n - l - 1) = n /\ 1 + l \in Nat
      BY <2>5, <2>9
    <3>2. Takes(t, e, 1 + l)
      BY <1>3, <2>5, <2>6, TakesOne, IntegerTakes
    <3>3. IsSeq(e.rest)
      BY <2>9, <3>2, DropIs DEF Takes
    <3>4. Takes(e.rest, m, n - l - 1)
      BY <2>7, <3>1, <3>3, IntegerTakes
    <3>5. Takes(t, m, n)
      BY <2>9, <3>1, <3>2, <3>4, TakesMore
    <3>6. \A v : m.ok => Takes(t, Value(v, m.rest), n)
      BY <3>5, ValueIs DEF Takes
    <3> QED
      BY <2>8, <2>9, <3>6, FailedTakes
  <2>10. CASE ~(~(n - l - 1 < 0) /\ e.ok)
    <3>1. ~e.ok => Takes(t, e, n)
      BY DEF Takes
    <3> QED
      BY <2>8, <2>10, <3>1, FailedTakes
  <2> QED
    BY <2>9, <2>10
<1> QED
  BY <1>1, <1>2, <1>3

(* A real with its tag and its length.                                     *)
LEMMA DerRealTaken ==
    ASSUME NEW e, NEW n, Tagged(e, n), Len(e) >= 3,
           e[3] \in Special => n = 1, e[3] \notin Special => Number(Low(e[3], 2)) \in Nat,
           NEW s, IsSeq(s), Agrees(s, e)
    PROVE  Takes(s, DerRealRead(s), 2 + n)
<1>1. PICK h : h = DerHeader(s)
  OBVIOUS
<1>2. Takes(s, h, 2) /\ (h.ok => Number(h.value) = n) /\ n \in Nat /\ 2 \in Nat
  <2>1. n \in 0..20
    BY DEF Tagged
  <2>2. Takes(s, h, 2) /\ (h.ok => Number(h.value) = n)
    BY ONLY <1>1, DerHeaderTaken, Tagged(e, n), IsSeq(s), Agrees(s, e)
  <2> QED
    BY <2>1, <2>2
<1>3. CASE ~h.ok
  <2>1. DerRealRead(s) = h
    BY <1>1, <1>3 DEF DerRealRead
  <2> QED
    BY <1>3, <2>1 DEF Takes
<1>4. CASE h.ok
  <2>1. DerRealRead(s) = RealRead(h.rest, n)
    BY <1>1, <1>2, <1>4 DEF DerRealRead
  <2>2. PICK t, b : t = Drop(s, 2) /\ b = Drop(e, 2)
    OBVIOUS
  <2>3. h.rest = t /\ 2 \in 0..Len(s)
    BY <1>2, <1>4, <2>2 DEF Takes
  <2>4. IsSeq(e) /\ Len(e) \in Nat /\ 2 \in 0..Len(e) /\ 2 <= Len(s)
    BY <2>3, SeqDomain DEF Tagged
  <2>5. IsSeq(t) /\ Agrees(t, b)
    BY <2>2, <2>3, <2>4, AgreesDrop, DropIs
  <2>6. IsSeq(b) /\ Len(b) >= 1 /\ b[1] = e[3]
    <3>1. /\ IsSeq(b) /\ Len(b) = Len(e) - 2
          /\ \A i \in 1..(Len(e) - 2) : b[i] = e[2 + i]
      BY <2>2, <2>4, DropIs
    <3>2. 1 \in 1..(Len(e) - 2) /\ Len(e) - 2 >= 1 /\ e[2 + 1] = e[3]
      BY <2>4
    <3> QED
      BY <3>1, <3>2
  <2>7. Takes(t, RealRead(t, n), n)
    BY <1>2, <2>5, <2>6, RealTaken
  <2> QED
    BY <1>2, <1>4, <2>1, <2>3, <2>7, TakesMore
<1> QED
  BY <1>3, <1>4

(* Compressed floats: an octet by itself, or one with two lengths.         *)
SizeIn(x) == IF x = {} THEN 0 ELSE Number(x)

(* A vf128 number is as long as the sizes in its first octet say.          *)
LEMMA VfTaken ==
    ASSUME NEW f, NEW e, IsSeq(e), Len(e) >= 1, NEW n,
           7 \notin e[1] => n = 1,
           7 \in e[1] => /\ SizeIn(Low(Shr(e[1], 4), 2)) \in Nat /\ SizeIn(Low(e[1], 4)) \in Nat
                         /\ n = 1 + SizeIn(Low(Shr(e[1], 4), 2)) + SizeIn(Low(e[1], 4)),
           NEW s, IsSeq(s), Agrees(s, e)
    PROVE  Takes(s, VfRead(f, s), n)
<1>1. CASE s = <<>>
  <2>1. VfRead(f, s) = Failed(s)
    BY <1>1 DEF VfRead
  <2> QED
    BY <2>1, FailedTakes
<1>2. CASE s # <<>>
  <2>1. PICK o : o = e[1]
    OBVIOUS
  <2>2. Head(s) = o
    <3>1. Len(e) \in Nat \ {0}
      BY SeqDomain
    <3> QED
      BY <1>2, <2>1, <3>1, FirstAgrees
  <2>3. CASE 7 \notin o
    <3>1. \E v : VfRead(f, s) = Value(v, Tail(s))
      BY <1>2, <2>2, <2>3 DEF VfRead
    <3> QED
      BY <1>2, <2>1, <2>3, <3>1, TakesOne
  <2>4. CASE 7 \in o
    <3>1. PICK x, y : x = Low(Shr(o, 4), 2) /\ y = Low(o, 4)
      OBVIOUS
    <3>2. PICK j, k : j = SizeIn(x) /\ k = SizeIn(y)
      OBVIOUS
    <3>3. j \in Nat /\ k \in Nat /\ n = (1 + j) + k /\ 1 + j \in Nat
      BY <2>1, <2>4, <3>1, <3>2
    <3>4. PICK p : p = IF x = {} THEN Value({}, Tail(s)) ELSE LeS64Read(Tail(s), Number(x))
      OBVIOUS
    <3>5. PICK m : m = IF y = {} THEN Value({}, p.rest) ELSE LeU64Read(p.rest, Number(y))
      OBVIOUS
    <3>6. \/ ~p.ok /\ VfRead(f, s) = p
          \/ ~m.ok /\ VfRead(f, s) = m
          \/ p.ok /\ m.ok /\ \E v : VfRead(f, s) = Value(v, m.rest)
      BY <1>2, <2>2, <2>4, <3>1, <3>4, <3>5 DEF VfRead
    <3>7. \A t : IsSeq(t) => \A v : Takes(t, Value(v, t), 0)
      <4> SUFFICES ASSUME NEW t, IsSeq(t), NEW v PROVE Takes(t, Value(v, t), 0)
        OBVIOUS
      <4>1. Len(t) \in Nat /\ Drop(t, 0) = t
        BY SeqDomain, DropNone
      <4> QED
        BY <4>1, ValueIs DEF Takes
    <3>8. IsSeq(Tail(s)) /\ Takes(Tail(s), p, j)
      <4>1. PICK t : t = Tail(s)
        OBVIOUS
      <4>2. IsSeq(t)
        BY <1>2, <4>1, TakesOne
      <4>3. CASE x = {}
        BY <3>2, <3>4, <3>7, <4>1, <4>2, <4>3 DEF SizeIn
      <4>4. CASE x # {}
        <5>1. j = Number(x) /\ p = LeS64Read(t, j)
          BY <3>2, <3>4, <4>1, <4>4 DEF SizeIn
        <5> QED
          BY <3>3, <4>1, <4>2, <5>1, IntegerTakes
      <4> QED
        BY <4>1, <4>2, <4>3, <4>4
    <3>9. Takes(s, p, 1 + j)
      BY <1>2, <3>3, <3>8, TakesOne
    <3>10. CASE p.ok
      <4>1. PICK t : t = p.rest
        OBVIOUS
      <4>2. IsSeq(t)
        BY <3>9, <3>10, <4>1, DropIs DEF Takes
      <4>3. Takes(t, m, k)
        <5>1. CASE y = {}
          BY <3>2, <3>5, <3>7, <4>1, <4>2, <5>1 DEF SizeIn
        <5>2. CASE y # {}
          <6>1. k = Number(y) /\ m = LeU64Read(t, k)
            BY <3>2, <3>5, <4>1, <5>2 DEF SizeIn
          <6> QED
            BY <3>3, <4>2, <6>1, IntegerTakes
        <5> QED
          BY <5>1, <5>2
      <4>4. Takes(s, m, n)
        BY <3>3, <3>9, <3>10, <4>1, <4>3, TakesMore
      <4>5. \A v : m.ok => Takes(s, Value(v, m.rest), n)
        BY <4>4, ValueIs DEF Takes
      <4> QED
        BY <3>6, <3>10, <4>4, <4>5
    <3>11. CASE ~p.ok
      <4>1. VfRead(f, s) = p
        BY <1>2, <2>2, <2>4, <3>1, <3>4, <3>11 DEF VfRead
      <4> QED
        BY <3>11, <4>1 DEF Takes
    <3> QED
      BY <3>10, <3>11
  <2> QED
    BY <2>3, <2>4
<1> QED
  BY <1>1, <1>2

(* Vectors of them, number by number.                                      *)
VecReads(g, f, s, n) ==
    g = [i \in 0..n |-> IF i = 0 THEN Value(<<>>, s) ELSE VfVecStep(f, g[i - 1])]

(* Reading a vector is reading so many numbers.                            *)
LEMMA VfVecReadIs ==
    ASSUME NEW f, NEW s, NEW n \in Nat
    PROVE  \E g : VecReads(g, f, s, n) /\ VfVecRead(f, s, n) = g[n]
<1> DEFINE T == {k \in 0..n : \E g : VecReads(g, f, s, k)}
           read == CHOOSE g : VecReads(g, f, s, n)
<1>1. 0 \in T
  <2>1. VecReads([i \in 0..0 |-> Value(<<>>, s)], f, s, 0)
    BY DEF VecReads
  <2> QED
    BY <2>1
<1>2. ASSUME NEW k \in 1..n, k - 1 \in T PROVE k \in T
  <2>1. PICK g : VecReads(g, f, s, k - 1)
    BY <1>2
  <2>2. \A i \in 0..(k - 1) :
           g[i] = IF i = 0 THEN Value(<<>>, s) ELSE VfVecStep(f, g[i - 1])
    BY <2>1 DEF VecReads
  <2> DEFINE h == [i \in 0..k |-> IF i = k THEN VfVecStep(f, g[k - 1]) ELSE g[i]]
  <2>3. \A i \in 0..k : h[i] = IF i = 0 THEN Value(<<>>, s) ELSE VfVecStep(f, h[i - 1])
    <3> TAKE i \in 0..k
    <3>1. CASE i = k
      <4>1. i # 0 /\ h[i] = VfVecStep(f, g[k - 1]) /\ h[i - 1] = g[k - 1]
        BY <3>1
      <4> HIDE DEF h
      <4> QED
        BY <3>1, <4>1
    <3>2. CASE i # k
      <4>1. i \in 0..(k - 1) /\ h[i] = g[i] /\ (i # 0 => h[i - 1] = g[i - 1])
        BY <3>2
      <4> HIDE DEF h
      <4> QED
        BY <2>2, <4>1
    <3> QED
      BY <3>1, <3>2
  <2>4. h = [i \in 0..k |-> h[i]]
    OBVIOUS
  <2>5. VecReads(h, f, s, k)
    <3> HIDE DEF h
    <3> QED
      BY <2>3, <2>4 DEF VecReads
  <2> HIDE DEF h
  <2>6. k \in 0..n
    OBVIOUS
  <2> QED
    BY <2>5, <2>6
<1>3. n \in T
  <2> HIDE DEF T
  <2>1. 0..n \subseteq T
    BY ONLY <1>1, <1>2, n \in Nat, Upwards
  <2> QED
    BY <2>1
<1>4. VecReads(read, f, s, n)
  BY <1>3
<1>5. VfVecRead(f, s, n) = read[n]
  BY DEF VfVecRead, VecReads
<1> QED
  BY <1>4, <1>5

(* What a reader of compressed floats is to find: it takes just the code.  *)
VfCode(f, e) == IsSeq(e) /\ \A t : IsSeq(t) /\ Agrees(t, e) => Takes(t, VfRead(f, t), Len(e))

(* A vector takes what its numbers take.                                   *)
LEMMA VfVecTaken ==
    ASSUME NEW f, NEW q, IsSeq(q), \A i \in 1..Len(q) : VfCode(f, q[i]),
           NEW s, IsSeq(s), Agrees(s, FlattenSeq(q))
    PROVE  Takes(s, VfVecRead(f, s, Len(q)), Len(FlattenSeq(q)))
<1>1. PICK n : n = Len(q)
  OBVIOUS
<1>2. n \in Nat /\ \A i \in 1..n : IsSeq(q[i])
  BY <1>1, SeqDomain DEF VfCode
<1>3. PICK j : Joins(j, q, n) /\ \A i \in 0..n : IsSeq(j[i])
  BY <1>2, JoinsExist
<1>4. Joined(j, q, n)
  BY <1>2, <1>3, JoinsHold
<1>5. FlattenSeq(q) = j[n]
  BY <1>1, <1>2, <1>3, FlattenAll
<1>6. PICK g : VecReads(g, f, s, n) /\ VfVecRead(f, s, n) = g[n]
  BY <1>2, VfVecReadIs
<1>7. g[0] = Value(<<>>, s) /\ \A i \in 1..n : g[i] = VfVecStep(f, g[i - 1])
  BY <1>2, <1>6 DEF VecReads
<1> DEFINE T == {i \in 0..n : Takes(s, g[i], Len(j[i]))}
<1>8. 0 \in T
  <2>1. j[0] = <<>> /\ Len(j[0]) = 0
    BY <1>3, EmptyIsSeq DEF Joins
  <2>2. Len(s) \in Nat /\ Drop(s, 0) = s
    BY SeqDomain, DropNone
  <2>3. Takes(s, g[0], 0)
    BY <1>7, <2>2, ValueIs DEF Takes
  <2> QED
    BY <1>2, <2>1, <2>3
<1>9. ASSUME NEW i \in 1..n, i - 1 \in T PROVE i \in T
  <2>1. PICK r, x : r = g[i - 1] /\ x = VfRead(f, r.rest)
    OBVIOUS
  <2>2. PICK a, b, c : a = j[i - 1] /\ b = q[i] /\ c = j[i]
    OBVIOUS
  <2>3. g[i] = IF ~r.ok THEN r ELSE IF ~x.ok THEN x ELSE Value(Append(r.value, x.value), x.rest)
    BY <1>7, <2>1 DEF VfVecStep
  <2>4. /\ IsSeq(a) /\ IsSeq(b) /\ c = a \o b /\ IsSeq(c)
        /\ Len(a) \in Nat /\ Len(b) \in Nat /\ Len(c) = Len(a) + Len(b)
    <3>1. i \in 0..n /\ i - 1 \in 0..n
      BY <1>2
    <3>2. IsSeq(a) /\ IsSeq(b) /\ c = a \o b /\ IsSeq(c)
      BY <1>2, <1>3, <2>2, <3>1 DEF Joins
    <3> QED
      BY <3>2, SeqDomain, SeqJoined
  <2>5. CASE r.ok /\ x.ok
    <3>1. Takes(s, r, Len(a))
      BY <1>9, <2>1, <2>2
    <3>2. Len(a) <= Len(s) /\ r.rest = Drop(s, Len(a)) /\ Len(a) \in 0..Len(s)
      <4>1. Len(s) \in Nat
        BY SeqDomain
      <4> QED
        BY <2>5, <3>1, <4>1 DEF Takes
    <3>3. Agrees(s, c)
      <4>1. i \in 0..n
        OBVIOUS
      <4>2. \A k \in 1..Len(c) : j[n][k] = c[k]
        BY <1>4, <2>2, <4>1 DEF Joined
      <4>3. Len(c) <= Len(j[n]) /\ Len(c) \in Nat /\ Len(j[n]) \in Nat
        <5>1. i \in 0..n /\ n \in i..n /\ n \in 0..n
          BY <1>2
        <5> QED
          BY <1>4, <2>2, <5>1 DEF Joined
      <4>4. \A k \in 1..Len(c) : k \in 1..Len(j[n])
        BY <4>3
      <4>5. \A k \in 1..Len(j[n]) : k <= Len(s) => s[k] = j[n][k]
        BY <1>5 DEF Agrees
      <4> QED
        BY <4>2, <4>4, <4>5 DEF Agrees
    <3>4. Agrees(r.rest, b)
      BY <2>4, <3>2, <3>3, AgreesAfter
    <3>5. IsSeq(r.rest)
      BY <3>2, DropIs
    <3>6. Takes(r.rest, x, Len(b))
      <4>1. VfCode(f, b)
        BY <1>1, <2>2
      <4> QED
        BY <2>1, <3>4, <3>5, <4>1 DEF VfCode
    <3>7. Takes(s, x, Len(c))
      BY <2>4, <2>5, <3>1, <3>6, TakesMore
    <3>8. \A v : Takes(s, Value(v, x.rest), Len(c))
      BY <2>5, <3>7, ValueIs DEF Takes
    <3>9. Takes(s, g[i], Len(c))
      BY <2>3, <2>5, <3>8
    <3> QED
      BY <2>2, <3>9
  <2>6. CASE ~(r.ok /\ x.ok)
    <3>1. ~g[i].ok
      BY <2>3, <2>6
    <3>2. Takes(s, g[i], Len(j[i]))
      BY <3>1 DEF Takes
    <3> QED
      BY <3>2
  <2> QED
    BY <2>5, <2>6
<1>10. n \in T
  <2> HIDE DEF T
  <2>1. 0..n \subseteq T
    BY ONLY <1>2, <1>8, <1>9, Upwards
  <2> QED
    BY <1>2, <2>1
<1> QED
  BY <1>1, <1>5, <1>6, <1>10

(* Vectors of IEEE numbers are one block.                                  *)
LEMMA IeeeTaken ==
    ASSUME NEW f \in {F32, F64}, NEW s, IsSeq(s)
    PROVE  /\ Takes(s, IeeeRead(f, s), f.width \div 8)
           /\ \A n \in Nat : /\ Takes(s, IeeeVecRead(f, s, n), n * (f.width \div 8))
                             /\ f # F32 /\ n > 0 => ~IeeeVecRead(f, s, n).ok
<1>1. PICK size : size = f.width \div 8
  OBVIOUS
<1>2. size \in {4, 8}
  BY <1>1 DEF F32, F64
<1>3. Takes(s, IeeeRead(f, s), size)
  <2>1. PICK r : r = ReadBytes(s, size)
    OBVIOUS
  <2>2. Takes(s, r, size)
    BY <1>2, <2>1, ReadBytesTakes
  <2>3. IeeeRead(f, s) = IF r.ok THEN Value(FromLittleEndian(r.value), r.rest) ELSE r
    BY <1>1, <2>1 DEF IeeeRead
  <2>4. \A v : r.ok => Takes(s, Value(v, r.rest), size)
    BY <2>2, ValueIs DEF Takes
  <2> QED
    BY <2>2, <2>3, <2>4
<1>4. ASSUME NEW n \in Nat
      PROVE  /\ Takes(s, IeeeVecRead(f, s, n), n * size)
             /\ f # F32 /\ n > 0 => ~IeeeVecRead(f, s, n).ok
  <2>1. PICK r : r = ReadBytes(s, n * size)
    OBVIOUS
  <2>2. Takes(s, r, n * size)
    <3>1. n * size \in Nat
      BY <1>2
    <3> QED
      BY <2>1, <3>1, ReadBytesTakes
  <2>3. \/ ~r.ok /\ IeeeVecRead(f, s, n) = r
        \/ IeeeVecRead(f, s, n) = Failed(r.rest)
        \/ r.ok /\ ~(f # F32 /\ n > 0) /\ \E v : IeeeVecRead(f, s, n) = Value(v, r.rest)
    BY <1>1, <2>1 DEF IeeeVecRead
  <2>4. \A v : r.ok => Takes(s, Value(v, r.rest), n * size)
    BY <2>2, ValueIs DEF Takes
  <2> QED
    BY <2>2, <2>3, <2>4, FailedTakes
<1> QED
  BY <1>1, <1>3, <1>4

-----------------------------------------------------------------------------
(* What writers leave *)

(* What is put together of two lists of sequences is put together of both. *)
LEMMA FlattenBoth ==
    ASSUME NEW a, NEW b, IsSeq(a), IsSeq(b),
           \A i \in 1..Len(a) : IsSeq(a[i]), \A i \in 1..Len(b) : IsSeq(b[i])
    PROVE  FlattenSeq(a \o b) = FlattenSeq(a) \o FlattenSeq(b)
<1>1. PICK q, m, k : q = a \o b /\ m = Len(a) /\ k = Len(b)
  OBVIOUS
<1>2. m \in Nat /\ k \in Nat /\ m + k \in Nat /\ m \in 0..(m + k)
  BY <1>1, SeqDomain
<1>3. JoinOf(q, a, b)
  BY <1>1, JoinIs
<1>4. /\ IsSeq(q) /\ Len(q) = m + k
      /\ \A i \in 1..m : q[i] = a[i]
      /\ \A i \in 1..k : q[m + i] = b[i]
  BY <1>1, <1>3 DEF JoinOf
<1>5. \A i \in 1..(m + k) : IsSeq(q[i])
  <2> TAKE i \in 1..(m + k)
  <2>1. CASE i <= m
    <3>1. i \in 1..m
      BY <1>2, <2>1
    <3> QED
      BY <1>1, <1>4, <3>1
  <2>2. CASE ~(i <= m)
    <3>1. i - m \in 1..k /\ m + (i - m) = i
      BY <1>2, <2>2
    <3> QED
      BY <1>1, <1>4, <3>1
  <2> QED
    BY <2>1, <2>2
<1>6. PICK f : Joins(f, q, m + k) /\ \A i \in 0..(m + k) : IsSeq(f[i])
  BY <1>2, <1>5, JoinsExist
<1>7. FlattenSeq(q) = f[m + k]
  BY <1>2, <1>4, <1>5, <1>6, FlattenAll
<1>8. FlattenSeq(a) = f[m]
  <2>1. PICK z : z = m + k
    OBVIOUS
  <2>2. z \in Nat /\ m \in 0..z
    BY <1>1, <1>2, <2>1
  <2>3. Joins(f, q, z) /\ \A i \in 1..z : IsSeq(q[i])
    BY <1>5, <1>6, <2>1
  <2>4. IsSeq(a) /\ Len(a) = m /\ \A i \in 1..m : a[i] = q[i]
    BY <1>1, <1>4
  <2>5. FirstOf(a, m, f, q, z)
    BY <2>2, <2>3, <2>4 DEF FirstOf
  <2> QED
    BY <2>5, FlattenFirst
<1>9. PICK g : Joins(g, b, k) /\ \A i \in 0..k : IsSeq(g[i])
  BY <1>1, <1>2, JoinsExist
<1>10. FlattenSeq(b) = g[k]
  BY <1>1, <1>2, <1>9, FlattenAll
<1> DEFINE T == {i \in 0..k : f[m + i] = f[m] \o g[i]}
<1>11. 0 \in T
  <2>1. g[0] = <<>> /\ IsSeq(f[m]) /\ m + 0 = m
    BY <1>2, <1>6, <1>9 DEF Joins
  <2>2. f[m] \o <<>> = f[m]
    BY <2>1 DEF IsSeq
  <2>3. 0 \in 0..k /\ f[m + 0] = f[m] /\ f[m] \o g[0] = f[m]
    BY <1>2, <2>1, <2>2
  <2> QED
    BY <2>3
<1>12. ASSUME NEW i \in 1..k, i - 1 \in T PROVE i \in T
  <2>1. PICK u, v, w : u = f[m] /\ v = g[i - 1] /\ w = b[i]
    OBVIOUS
  <2>2. i \in 0..k /\ i - 1 \in 0..k /\ m + i \in 1..(m + k) /\ (m + i) - 1 = m + (i - 1)
    BY <1>2
  <2>3. IsSeq(u) /\ IsSeq(v) /\ IsSeq(w)
    BY <1>1, <1>2, <1>6, <1>9, <2>1, <2>2
  <2>4. f[m + i] = (u \o v) \o w
    <3>1. f[m + i] = f[(m + i) - 1] \o q[m + i]
      BY <1>6, <2>2 DEF Joins
    <3>2. f[m + (i - 1)] = u \o v
      BY <1>12, <2>1
    <3> QED
      BY <1>4, <2>1, <2>2, <3>1, <3>2
  <2>5. g[i] = v \o w
    BY <1>9, <2>1 DEF Joins
  <2>6. (u \o v) \o w = u \o (v \o w)
    <3>1. PICK S : u \in Seq(S) /\ v \in Seq(S) /\ w \in Seq(S)
      <4> DEFINE S == Range(u) \union Range(v) \union Range(w)
      <4>1. Range(u) \subseteq S /\ Range(v) \subseteq S /\ Range(w) \subseteq S
        OBVIOUS
      <4> HIDE DEF S
      <4>2. u \in Seq(S) /\ v \in Seq(S) /\ w \in Seq(S)
        BY <2>3, <4>1 DEF IsSeq
      <4> QED
        BY <4>2
    <3> QED
      BY <3>1
  <2> QED
    BY <2>1, <2>2, <2>4, <2>5, <2>6
<1>13. k \in T
  <2> HIDE DEF T
  <2>1. 0..k \subseteq T
    BY ONLY <1>2, <1>11, <1>12, Upwards
  <2> QED
    BY <1>2, <2>1
<1> QED
  BY <1>1, <1>7, <1>8, <1>10, <1>13

(* Octet by octet.                                                         *)
LEMMA FlattenOctets ==
    ASSUME NEW s, IsSeq(s)
    PROVE  /\ IsSeq([i \in DOMAIN s |-> <<s[i]>>])
           /\ \A i \in DOMAIN s : IsSeq([k \in DOMAIN s |-> <<s[k]>>][i])
           /\ Len([i \in DOMAIN s |-> <<s[i]>>]) = Len(s)
           /\ FlattenSeq([i \in DOMAIN s |-> <<s[i]>>]) = s
<1>1. PICK q, n : q = [i \in DOMAIN s |-> <<s[i]>>] /\ n = Len(s)
  OBVIOUS
<1>2. n \in Nat /\ DOMAIN s = 1..n
  BY <1>1, SeqDomain
<1>3. \A i \in 1..n : q[i] = <<s[i]>> /\ IsSeq(q[i]) /\ Len(q[i]) = 1
  <2> TAKE i \in 1..n
  <2>1. q[i] = <<s[i]>>
    BY <1>1, <1>2
  <2> QED
    BY <2>1, OneSeq
<1>4. IsSeq(q) /\ Len(q) = n
  <2>1. q = [i \in 1..n |-> q[i]]
    BY <1>1, <1>2
  <2> QED
    BY ONLY <1>2, <2>1, SeqMade
<1>5. PICK f : Joins(f, q, n) /\ \A k \in 0..n : IsSeq(f[k])
  BY <1>2, <1>3, JoinsExist
<1>6. Joined(f, q, n)
  BY <1>2, <1>3, <1>5, JoinsHold
<1>7. FlattenSeq(q) = f[n]
  BY <1>2, <1>3, <1>4, <1>5, FlattenAll
<1> DEFINE T == {k \in 0..n : Len(f[k]) = k}
<1>8. 0..n \subseteq T
  <2>1. 0 \in T
    BY <1>2, <1>5, EmptyIsSeq DEF Joins
  <2>2. ASSUME NEW k \in 1..n, k - 1 \in T PROVE k \in T
    <3>1. Len(f[k]) = Len(f[k - 1]) + Len(q[k]) /\ Len(q[k]) = 1
      BY <1>3, <1>6 DEF Joined
    <3>2. Len(f[k - 1]) = k - 1
      BY <2>2
    <3> QED
      BY <3>1, <3>2
  <2> HIDE DEF T
  <2> QED
    BY ONLY <1>2, <2>1, <2>2, Upwards
<1>9. Len(f[n]) = n /\ IsSeq(f[n])
  BY <1>2, <1>5, <1>8
<1>10. \A k \in 1..n : f[n][k] = s[k]
  <2> TAKE k \in 1..n
  <2>1. k - 1 \in 0..n /\ 1 \in 1..Len(q[k]) /\ (k - 1) + 1 = k
    <3>1. Len(q[k]) = 1
      BY <1>3
    <3> QED
      BY <1>2, <3>1
  <2>2. Len(f[k - 1]) = k - 1
    BY <1>8, <2>1
  <2>3. f[n][Len(f[k - 1]) + 1] = q[k][1]
    BY <1>6, <2>1 DEF Joined
  <2>4. q[k][1] = s[k]
    BY <1>3, OneSeq
  <2> QED
    BY <2>1, <2>2, <2>3, <2>4
<1>11. f[n] = s
  BY <1>1, <1>9, <1>10, SeqSame
<1> QED
  BY <1>1, <1>2, <1>3, <1>4, <1>7, <1>11

(* A write that leaves the octets e, if there is room for them.            *)
IsWrite(w) == IsSeq(w.chunks) /\ \A i \in 1..Len(w.chunks) : IsSeq(w.chunks[i])

Spells(w, e) == w.ok = TRUE /\ IsWrite(w) /\ FlattenSeq(w.chunks) = e /\ IsSeq(e)

(* A write of one chunk.                                                   *)
LEMMA SpellsOne ==
    ASSUME NEW e, IsSeq(e) PROVE Spells(Chunks(<<e>>), e)
<1>1. IsSeq(<<e>>) /\ Len(<<e>>) = 1 /\ <<e>>[1] = e
  BY OneSeq
<1>2. \A i \in 1..1 : i = 1
  OBVIOUS
<1> QED
  BY <1>1, <1>2, FlattenOne DEF Spells, IsWrite, Chunks

(* A write of one chunk for each octet.                                    *)
LEMMA SpellsOctets ==
    ASSUME NEW e, IsSeq(e) PROVE Spells(Octets(e), e)
<1>1. PICK q : q = [i \in DOMAIN e |-> <<e[i]>>]
  OBVIOUS
<1>2. IsSeq(q) /\ Len(q) = Len(e) /\ FlattenSeq(q) = e /\ \A i \in DOMAIN e : IsSeq(q[i])
  BY <1>1, FlattenOctets
<1>3. \A i \in 1..Len(q) : IsSeq(q[i])
  BY <1>2, SeqDomain
<1>4. Octets(e).ok = TRUE /\ Octets(e).chunks = q
  BY <1>1 DEF Octets
<1> QED
  BY <1>2, <1>3, <1>4 DEF Spells, IsWrite

(* One write after another.                                                *)
LEMMA SpellsThen ==
    ASSUME NEW w, NEW x, NEW a, NEW b, Spells(w, a), Spells(x, b)
    PROVE  Spells(Then(w, x), a \o b)
<1>1. PICK c, d : c = w.chunks /\ d = x.chunks
  OBVIOUS
<1>2. /\ IsSeq(c) /\ IsSeq(d) /\ IsSeq(a) /\ IsSeq(b)
      /\ FlattenSeq(c) = a /\ FlattenSeq(d) = b
      /\ \A i \in 1..Len(c) : IsSeq(c[i])
      /\ \A i \in 1..Len(d) : IsSeq(d[i])
  BY <1>1 DEF Spells, IsWrite
<1>3. Then(w, x).ok = TRUE /\ Then(w, x).chunks = c \o d
  BY <1>1 DEF Then, Spells
<1>4. FlattenSeq(c \o d) = a \o b /\ IsSeq(a \o b)
  BY <1>2, FlattenBoth, SeqJoined
<1>5. PICK q : q = c \o d
  OBVIOUS
<1>6. JoinOf(q, c, d)
  BY <1>2, <1>5, JoinIs
<1>7. \A i \in 1..Len(q) : IsSeq(q[i])
  <2> TAKE i \in 1..Len(q)
  <2>1. PICK m, k : m = Len(c) /\ k = Len(d)
    OBVIOUS
  <2>2. m \in Nat /\ k \in Nat /\ Len(q) = m + k
    BY <1>2, <1>6, <2>1, SeqDomain DEF JoinOf
  <2>3. CASE i <= m
    <3>1. i \in 1..m
      BY <2>2, <2>3
    <3>2. q[i] = c[i]
      BY <1>6, <2>1, <3>1 DEF JoinOf
    <3> QED
      BY <1>2, <2>1, <3>1, <3>2
  <2>4. CASE ~(i <= m)
    <3>1. i - m \in 1..k /\ m + (i - m) = i
      BY <2>2, <2>4
    <3>2. q[m + (i - m)] = d[i - m]
      BY <1>6, <2>1, <3>1 DEF JoinOf
    <3> QED
      BY <1>2, <2>1, <3>1, <3>2
  <2> QED
    BY <2>3, <2>4
<1>8. IsSeq(q)
  BY <1>6 DEF JoinOf
<1> QED
  BY <1>3, <1>4, <1>5, <1>7, <1>8 DEF Spells, IsWrite

(* Of the octets e, some at the beginning.                                 *)
Begins(p, e) == IsSeq(p) /\ Len(p) <= Len(e) /\ \A i \in 1..Len(p) : p[i] = e[i]

(* The buffer takes as many chunks as there is room for: all of them, or   *)
(* fewer octets than there are.                                            *)
LEMMA Accepting ==
    ASSUME NEW w, IsWrite(w), room \in Nat,
           NEW n, n = Accepted(w.chunks), NEW p, p = FlattenSeq(SubSeq(w.chunks, 1, n))
    PROVE  /\ Begins(p, FlattenSeq(w.chunks)) /\ Len(p) <= room
           /\ IF n = Len(w.chunks) THEN p = FlattenSeq(w.chunks)
                                   ELSE Len(p) < Len(FlattenSeq(w.chunks))
<1>1. PICK q, m : q = w.chunks /\ m = Len(q)
  OBVIOUS
<1>2. IsSeq(q) /\ m \in Nat /\ m \in 0..m /\ \A i \in 1..m : IsSeq(q[i])
  BY <1>1, SeqDomain DEF IsWrite
<1>3. PICK f : Joins(f, q, m) /\ \A k \in 0..m : IsSeq(f[k])
  BY <1>2, JoinsExist
<1>4. Joined(f, q, m)
  BY <1>2, <1>3, JoinsHold
<1>5. FlattenSeq(q) = f[m]
  BY <1>1, <1>2, <1>3, FlattenAll
<1>6. ASSUME NEW k \in 0..m PROVE FlattenSeq(SubSeq(q, 1, k)) = f[k]
  <2>1. PICK a : a = SubSeq(q, 1, k)
    OBVIOUS
  <2>2. IsSeq(a) /\ Len(a) = k /\ \A i \in 1..k : a[i] = q[i]
    <3>1. 1 \in Int /\ k \in Int /\ k \in Nat
      BY <1>2
    <3>2. /\ IsSeq(a) /\ Len(a) = IF 1 <= k THEN k - 1 + 1 ELSE 0
          /\ \A i \in 1..(k - 1 + 1) : a[i] = q[1 + i - 1]
      BY <2>1, <3>1, SeqPart
    <3>3. \A i \in 1..k : i \in 1..(k - 1 + 1) /\ 1 + i - 1 = i
      BY <3>1
    <3> QED
      BY <3>1, <3>2, <3>3
  <2>3. k \in 0..m /\ m \in Nat
    BY <1>2
  <2>4. Joins(f, q, m) /\ \A i \in 1..m : IsSeq(q[i])
    BY <1>2, <1>3
  <2>5. FirstOf(a, k, f, q, m)
    BY <2>2, <2>3, <2>4 DEF FirstOf
  <2> QED
    BY <2>1, <2>5, FlattenFirst
<1> DEFINE T == {k \in 0..m : Len(FlattenSeq(SubSeq(q, 1, k))) <= room}
<1>7. \A k \in 0..m : k \in T <=> Len(f[k]) <= room
  BY <1>6
<1>8. 0 \in T
  <2>1. Len(f[0]) = 0 /\ 0 \in 0..m
    BY <1>2, <1>3, EmptyIsSeq DEF Joins
  <2> QED
    BY <1>7, <2>1
<1>9. n = Max(T)
  BY <1>1 DEF Accepted
<1>10. n \in T /\ \A k \in T : k <= n
  <2>1. T \subseteq 0..m /\ T # {}
    BY <1>8
  <2> HIDE DEF T
  <2> QED
    BY <1>2, <1>9, <2>1, MaxIs
<1>11. n \in 0..m /\ p = f[n] /\ Len(p) <= room
  <2>1. n \in 0..m
    BY <1>10
  <2> QED
    BY <1>1, <1>6, <1>10, <2>1
<1>12. Begins(p, f[m])
  <2>1. m \in n..m /\ m \in 0..m
    BY <1>2, <1>11
  <2>2. Len(f[n]) <= Len(f[m])
    BY <1>4, <1>11, <2>1 DEF Joined
  <2>3. \A x \in 1..Len(f[n]) : f[m][x] = f[n][x]
    BY <1>4, <1>11 DEF Joined
  <2>4. IsSeq(f[n])
    BY <1>3, <1>11
  <2> QED
    BY <1>11, <2>2, <2>3, <2>4 DEF Begins
<1>13. CASE n = m
  BY <1>1, <1>5, <1>11, <1>12, <1>13
<1>14. CASE n # m
  <2>1. n + 1 \in 0..m /\ m \in (n + 1)..m /\ m \in 0..m /\ ~(n + 1 <= n)
    BY <1>2, <1>11, <1>14
  <2>2. ~(Len(f[n + 1]) <= room)
    BY <1>7, <1>10, <2>1
  <2>3. Len(f[n + 1]) <= Len(f[m]) /\ Len(f[n + 1]) \in Nat /\ Len(f[m]) \in Nat /\ Len(f[n]) \in Nat
    BY <1>4, <1>11, <2>1 DEF Joined
  <2>4. Len(p) < Len(f[m])
    BY <1>11, <2>2, <2>3
  <2> QED
    BY <1>1, <1>5, <1>11, <1>12, <1>14, <2>4
<1> QED
  BY <1>13, <1>14

-----------------------------------------------------------------------------
(* Writers and readers of the same kind *)

(* What the reader of a kind makes of s; the number of elements of a       *)
(* vector is known to it.                                                  *)
Got(kind, v, s) ==
    CASE kind = "leb" -> LebRead(s)
      [] kind = "vlu" -> VluRead(s)
      [] kind = "ident" -> IdentRead(s)
      [] kind = "length" -> LengthRead(s)
      [] kind = "derU64" -> DerU64Read(s)
      [] kind = "derS64" -> DerS64Read(s)
      [] kind = "derReal" -> DerRealRead(s)
      [] kind = "ieee32" -> Ieee32Read(s)
      [] kind = "ieee64" -> Ieee64Read(s)
      [] kind = "vf32" -> Vf32Read(s)
      [] kind = "vf64" -> Vf64Read(s)
      [] kind = "ieee32vec" -> Ieee32VecRead(s, Len(v))
      [] kind = "ieee64vec" -> Ieee64VecRead(s, Len(v))
      [] kind = "vf32vec" -> Vf32VecRead(s, Len(v))
      [] kind = "vf64vec" -> Vf64VecRead(s, Len(v))

(* It takes the octets e, whatever follows them; it makes nothing of them. *)
Delimited(kind, v, e) ==
    IsSeq(e) /\ \A s : IsSeq(s) /\ Agrees(s, e) => Takes(s, Got(kind, v, s), Len(e))

Refused(kind, v, e) ==
    /\ IsSeq(e)
    /\ \A s : IsSeq(s) /\ Agrees(s, e) /\ Len(s) <= Len(e) => ~Got(kind, v, s).ok

(* What a write leaves its reader takes, or refuses if the write failed.   *)
Leaves(kind, v, w) ==
    /\ w.ok \in BOOLEAN /\ IsWrite(w)
    /\ IF w.ok THEN Delimited(kind, v, FlattenSeq(w.chunks))
               ELSE Refused(kind, v, FlattenSeq(w.chunks))

(* What a full buffer left out of a number the reader misses.              *)
LEMMA TornIsRefused ==
    ASSUME NEW kind, NEW v, NEW e, NEW p, Begins(p, e),
           \/ Refused(kind, v, e)
           \/ Delimited(kind, v, e) /\ Len(p) < Len(e)
    PROVE  Refused(kind, v, p)
<1>1. IsSeq(p)
  BY DEF Begins
<1>2. ASSUME NEW s, IsSeq(s), Agrees(s, p), Len(s) <= Len(p) PROVE ~Got(kind, v, s).ok
  <2>1. PICK n, m, k : n = Len(s) /\ m = Len(p) /\ k = Len(e)
    OBVIOUS
  <2>2. n \in Nat /\ m \in Nat /\ k \in Nat /\ n <= m /\ m <= k
    <3>1. IsSeq(e)
      BY DEF Refused, Delimited
    <3> QED
      BY <1>1, <1>2, <2>1, <3>1, SeqDomain DEF Begins
  <2>3. Agrees(s, e)
    <3> SUFFICES ASSUME NEW i \in 1..k, i <= n PROVE s[i] = e[i]
      BY <2>1 DEF Agrees
    <3>1. i \in 1..m
      BY <2>2
    <3> QED
      BY <1>2, <2>1, <3>1 DEF Agrees, Begins
  <2>4. CASE Refused(kind, v, e)
    BY <1>2, <2>1, <2>2, <2>3, <2>4 DEF Refused
  <2>5. CASE Delimited(kind, v, e) /\ Len(p) < Len(e)
    <3>1. Takes(s, Got(kind, v, s), k)
      BY <1>2, <2>1, <2>3, <2>5 DEF Delimited
    <3>2. ~(k \in 0..n)
      BY <2>1, <2>2, <2>5
    <3> QED
      BY <2>1, <3>1, <3>2 DEF Takes
  <2> QED
    BY <2>4, <2>5
<1> QED
  BY <1>1, <1>2 DEF Refused

(* A write without an error leaves a code that its reader takes.           *)
LEMMA SpellsLeaves ==
    ASSUME NEW kind, NEW v, NEW w, NEW e, Spells(w, e),
           \A s : IsSeq(s) /\ Agrees(s, e) => Takes(s, Got(kind, v, s), Len(e))
    PROVE  Leaves(kind, v, w)
BY DEF Spells, Leaves, Delimited

(* A write with an error leaves what its reader cannot read.               *)
LEMMA FailsLeaves ==
    ASSUME NEW kind, NEW v, NEW w, w.ok = FALSE, IsWrite(w), IsSeq(FlattenSeq(w.chunks)),
           \A s : IsSeq(s) /\ Agrees(s, FlattenSeq(w.chunks)) /\ Len(s) <= Len(FlattenSeq(w.chunks))
                    => ~Got(kind, v, s).ok
    PROVE  Leaves(kind, v, w)
BY DEF Leaves, Refused

(* The highest bit of a word.                                              *)
LEMMA HighestBit ==
    ASSUME NEW n \in Nat, NEW x, x \subseteq 0..n, x # {}
    PROVE  /\ Max(x) \in 0..n /\ Max(x) \in x /\ \A i \in x : i <= Max(x)
           /\ \A w : Clz(x, w) = w - 1 - Max(x)
<1>1. Max(x) \in x /\ \A i \in x : i <= Max(x)
  BY MaxIs
<1>2. Max(x) \in 0..n
  BY <1>1
<1> QED
  BY <1>1, <1>2 DEF Clz

(* The lengths that writers give to words.                                 *)
LEMMA Lengths ==
    ASSUME NEW x, x \subseteq 0..63
    PROVE  /\ Fits56(x) => GroupsOf(x) \in 1..8
           /\ U64Length(x) \in 1..8 /\ S64Length(x) \in 1..8
           /\ x # {} => 8 - Clz(x, 64) \div 8 \in 1..8
<1>1. Fits56(x) => GroupsOf(x) \in 1..8
  <2> SUFFICES ASSUME x \subseteq 0..55 PROVE GroupsOf(x) \in 1..8
    BY DEF Fits56
  <2>1. CASE x = {}
    BY <2>1 DEF GroupsOf
  <2>2. CASE x # {}
    <3>1. PICK m \in 0..55 : Clz(x, 64) = 64 - 1 - m
      BY <2>2, HighestBit
    <3>2. (64 - 1 - m - 1) \div 7 \in 1..8
      BY SMT
    <3>3. GroupsOf(x) = 8 - (64 - 1 - m - 1) \div 7 + 1
      BY <2>2, <3>1 DEF GroupsOf
    <3> QED
      BY <3>2, <3>3
  <2> QED
    BY <2>1, <2>2
<1>2. ASSUME NEW y, y \subseteq 0..63, y # {} PROVE 8 - Clz(y, 64) \div 8 \in 1..8
  <2>1. PICK m \in 0..63 : Clz(y, 64) = 64 - 1 - m
    BY <1>2, HighestBit
  <2>2. (64 - 1 - m) \div 8 \in 0..7
    BY SMT
  <2> QED
    BY <2>1, <2>2
<1>3. U64Length(x) \in 1..8
  <2>1. CASE x = {}
    BY <2>1 DEF U64Length
  <2>2. CASE x # {}
    <3>1. U64Length(x) = 8 - Clz(x, 64) \div 8
      BY <2>2 DEF U64Length
    <3> QED
      BY <1>2, <2>2, <3>1
  <2> QED
    BY <2>1, <2>2
<1>4. S64Length(x) \in 1..8
  <2>1. CASE x = {}
    BY <2>1 DEF S64Length
  <2>2. CASE x # {}
    <3>1. PICK y : y = IF 63 \in x THEN Complement(x, 64) ELSE x
      OBVIOUS
    <3>2. y \subseteq 0..62
      BY <3>1 DEF Complement
    <3>3. S64Length(x) = 8 - (Clz(y, 64) - 1) \div 8
      BY <2>2, <3>1 DEF S64Length
    <3>4. CASE y = {}
      BY <3>3, <3>4 DEF Clz
    <3>5. CASE y # {}
      <4>1. PICK m \in 0..62 : Clz(y, 64) = 64 - 1 - m
        BY <3>2, <3>5, HighestBit
      <4>2. (64 - 1 - m - 1) \div 8 \in 0..7
        BY SMT
      <4> QED
        BY <3>3, <4>1, <4>2
    <3> QED
      BY <3>4, <3>5
  <2> QED
    BY <2>1, <2>2
<1> QED
  BY <1>1, <1>2, <1>3, <1>4

(* Octets of a word that has been taken apart.                             *)
LEMMA EndianIs ==
    ASSUME NEW x, NEW n \in Nat
    PROVE  /\ IsSeq(LittleEndian(x, n)) /\ Len(LittleEndian(x, n)) = n
           /\ IsSeq(BigEndian(x, n)) /\ Len(BigEndian(x, n)) = n
<1>1. PICK a : a = LittleEndian(x, n)
  OBVIOUS
<1>2. a = [k \in 1..n |-> a[k]]
  BY <1>1 DEF LittleEndian
<1>3. PICK b : b = BigEndian(x, n)
  OBVIOUS
<1>4. b = [k \in 1..n |-> b[k]]
  BY <1>3 DEF BigEndian
<1>5. IsSeq(a) /\ Len(a) = n
  BY ONLY <1>2, n \in Nat, SeqMade
<1>6. IsSeq(b) /\ Len(b) = n
  BY ONLY <1>4, n \in Nat, SeqMade
<1> QED
  BY <1>1, <1>3, <1>5, <1>6

(* Groups of seven bits.                                                   *)
LEMMA GroupsMade ==
    ASSUME NEW x, Fits56(x), NEW n, n = GroupsOf(x), NEW e, e = [k \in 1..n |-> e[k]],
           \A k \in 1..n : \E j : e[k] = Group(x, j) \union (IF k < n THEN {7} ELSE {})
    PROVE  Grouped(e)
<1>1. n \in 1..8
  <2>1. x \subseteq 0..63
    BY DEF Fits56
  <2> QED
    BY <2>1, Lengths
<1>2. IsSeq(e) /\ Len(e) = n
  <2>1. n \in Nat
    BY <1>1
  <2>2. e = [k \in 1..n |-> e[k]]
    OBVIOUS
  <2> QED
    BY ONLY <2>1, <2>2, SeqMade
<1>3. \A k \in 1..n : 7 \in e[k] <=> k < n
  <2> TAKE k \in 1..n
  <2>1. PICK j : e[k] = Group(x, j) \union (IF k < n THEN {7} ELSE {})
    OBVIOUS
  <2>2. 7 \notin Group(x, j)
    BY DEF Group, Low
  <2> QED
    BY <2>1, <2>2
<1> QED
  BY <1>1, <1>2, <1>3 DEF Grouped

(* A write that is rejected leaves nothing, of which no groups are read.   *)
LEMMA RejectedIs ==
    /\ Rejected.ok = FALSE /\ IsWrite(Rejected) /\ FlattenSeq(Rejected.chunks) = <<>>
    /\ ~LebRead(<<>>).ok /\ ~TagRead(<<>>).ok
    /\ \A s : IsSeq(s) /\ Len(s) <= 0 => s = <<>>
<1>1. IsSeq(<<>>) /\ Len(<<>>) = 0 /\ \A s : IsSeq(s) /\ Len(s) = 0 => s = <<>>
  BY EmptyIsSeq
<1>2. Rejected.ok = FALSE /\ Rejected.chunks = <<>>
  BY DEF Rejected
<1>3. FlattenSeq(<<>>) = <<>>
  BY DEF FlattenSeq
<1>4. GroupsIn(<<>>) = {}
  BY <1>1 DEF GroupsIn
<1>5. ~LebRead(<<>>).ok /\ ~TagRead(<<>>).ok
  BY <1>4, FailedTakes DEF LebRead, TagRead
<1>6. \A s : IsSeq(s) /\ Len(s) <= 0 => s = <<>>
  BY <1>1, SeqDomain
<1> QED
  BY <1>1, <1>2, <1>3, <1>5, <1>6 DEF IsWrite

(* The write of a LEB128 number leaves its groups.                         *)
LEMMA LebLeaves == ASSUME NEW v \in Word PROVE Leaves("leb", v, LebWrite(v))
<1>1. \A s : Got("leb", v, s) = LebRead(s)
  BY DEF Got
<1>2. CASE Fits56(v)
  <2>1. PICK n : n = GroupsOf(v)
    OBVIOUS
  <2>2. PICK e : e = [k \in 1..n |-> Group(v, k - 1) \union (IF k < n THEN {7} ELSE {})]
    OBVIOUS
  <2>3. Grouped(e)
    <3>1. e = [k \in 1..n |-> e[k]]
      BY <2>2
    <3>2. \A k \in 1..n : \E j : e[k] = Group(v, j) \union (IF k < n THEN {7} ELSE {})
      BY <2>2
    <3> QED
      BY <1>2, <2>1, <3>1, <3>2, GroupsMade
  <2>4. LebWrite(v) = Chunks(<<e>>)
    BY <1>2, <2>1, <2>2 DEF LebWrite
  <2>5. Spells(LebWrite(v), e)
    <3>1. IsSeq(e)
      BY <2>3 DEF Grouped
    <3> QED
      BY <2>4, <3>1, SpellsOne
  <2>6. \A s : IsSeq(s) /\ Agrees(s, e) => Takes(s, LebRead(s), Len(e))
    BY <2>3, GroupsTaken
  <2> QED
    BY <1>1, <2>5, <2>6, SpellsLeaves
<1>3. CASE ~Fits56(v)
  <2>1. LebWrite(v) = Rejected
    BY <1>3 DEF LebWrite
  <2>2. PICK w : w = LebWrite(v)
    OBVIOUS
  <2>3. w.ok = FALSE /\ IsWrite(w) /\ FlattenSeq(w.chunks) = <<>>
    BY <2>1, <2>2, RejectedIs
  <2>4. IsSeq(<<>>) /\ Len(<<>>) = 0
    BY EmptyIsSeq
  <2>5. \A s : IsSeq(s) /\ Len(s) <= 0 => ~Got("leb", v, s).ok
    BY <1>1, RejectedIs
  <2>6. Leaves("leb", v, w)
    BY <2>3, <2>4, <2>5, FailsLeaves
  <2> QED
    BY <2>2, <2>6
<1> QED
  BY <1>2, <1>3

(* The write of a VLU number leaves its groups, counted in the first.      *)
LEMMA VluLeaves == ASSUME NEW v \in Word PROVE Leaves("vlu", v, VluWrite(v))
<1>1. \A s : Got("vlu", v, s) = VluRead(s)
  BY DEF Got
<1>2. CASE Fits56(v)
  <2>1. PICK n : n = GroupsOf(v)
    OBVIOUS
  <2>2. n \in 1..8 /\ n \in Nat
    <3>1. v \subseteq 0..63
      BY DEF Word
    <3>2. GroupsOf(v) \in 1..8
      BY <1>2, <3>1, Lengths
    <3> QED
      BY <2>1, <3>2
  <2>3. PICK x : x = Shl(v, n, 64) \union 0..(n - 2)
    OBVIOUS
  <2>4. PICK e : e = LittleEndian(x, n)
    OBVIOUS
  <2>5. IsSeq(e) /\ Len(e) = n
    BY <2>2, <2>4, EndianIs
  <2>6. 0..(n - 2) \subseteq e[1] /\ n - 1 \notin e[1]
    <3>1. e[1] = Octet(x, 0)
      BY <2>2, <2>4 DEF LittleEndian
    <3>2. Octet(x, 0) = x \intersect 0..7
      <4>1. x \subseteq Nat
        BY <2>2, <2>3 DEF Shl
      <4>2. \A i \in x : i >= 8 * 0 /\ i - 8 * 0 = i
        BY <4>1
      <4>3. Shr(x, 8 * 0) = x
        BY <4>2 DEF Shr
      <4> QED
        BY <4>3 DEF Octet, Low
    <3>3. 0..(n - 2) \subseteq x /\ 0..(n - 2) \subseteq 0..7
      BY <2>2, <2>3
    <3>4. n - 1 \notin x
      <4>1. \A i \in v : i + n # n - 1
        <5> TAKE i \in v
        <5>1. i \in 0..63
          BY DEF Word
        <5> QED
          BY <2>2, <5>1
      <4>2. n - 1 \notin Shl(v, n, 64)
        BY <4>1 DEF Shl
      <4>3. n - 1 \notin 0..(n - 2)
        BY <2>2
      <4> QED
        BY <2>3, <4>2, <4>3
    <3> QED
      BY <3>1, <3>2, <3>3, <3>4
  <2>7. VluWrite(v) = Chunks(<<e>>)
    BY <1>2, <2>1, <2>2, <2>3, <2>4 DEF VluWrite, LeU64Write
  <2>8. Spells(VluWrite(v), e)
    BY <2>5, <2>7, SpellsOne
  <2>9. \A s : IsSeq(s) /\ Agrees(s, e) => Takes(s, VluRead(s), Len(e))
    BY <2>2, <2>5, <2>6, VluTaken
  <2> QED
    BY <1>1, <2>8, <2>9, SpellsLeaves
<1>3. CASE ~Fits56(v)
  <2>1. VluWrite(v) = Rejected
    BY <1>3 DEF VluWrite
  <2>2. PICK w : w = VluWrite(v)
    OBVIOUS
  <2>3. w.ok = FALSE /\ IsWrite(w) /\ FlattenSeq(w.chunks) = <<>>
    BY <2>1, <2>2, RejectedIs
  <2>4. IsSeq(<<>>) /\ Len(<<>>) = 0
    BY EmptyIsSeq
  <2>5. \A s : IsSeq(s) /\ Len(s) <= 0 => ~Got("vlu", v, s).ok
    <3>1. ~VluRead(<<>>).ok
      BY FailedTakes DEF VluRead
    <3> QED
      BY <1>1, <3>1, RejectedIs
  <2>6. Leaves("vlu", v, w)
    BY <2>3, <2>4, <2>5, FailsLeaves
  <2> QED
    BY <2>2, <2>6
<1> QED
  BY <1>2, <1>3

(* The write of a length leaves as many octets as the first one says.      *)
LEMMA LengthLeaves == ASSUME NEW v \in Word PROVE Leaves("length", v, LengthWrite(v))
<1>1. \A s : Got("length", v, s) = LengthRead(s)
  BY DEF Got
<1>2. CASE v \subseteq 0..6
  <2>1. PICK e : e = <<v>>
    OBVIOUS
  <2>2. IsSeq(e) /\ Len(e) = 1 /\ e[1] = v
    BY <2>1, OneSeq
  <2>3. LengthWrite(v) = Octets(e)
    BY <1>2, <2>1 DEF LengthWrite
  <2>4. Spells(LengthWrite(v), e)
    BY <2>2, <2>3, SpellsOctets
  <2>5. Len(e) >= 1 /\ 7 \notin e[1]
    BY <1>2, <2>2
  <2>6. \A s : IsSeq(s) /\ Agrees(s, e) => Takes(s, LengthRead(s), Len(e))
    BY <2>2, <2>5, ShortLengthTaken
  <2> QED
    BY <1>1, <2>4, <2>6, SpellsLeaves
<1>3. CASE ~(v \subseteq 0..6)
  <2>1. PICK n : n = 8 - Clz(v, 64) \div 8
    OBVIOUS
  <2>2. n \in 1..8 /\ n \in Nat /\ n \in 0..20
    <3>1. v \subseteq 0..63 /\ v # {}
      BY <1>3 DEF Word
    <3>2. 8 - Clz(v, 64) \div 8 \in 1..8
      BY <3>1, Lengths
    <3>3. n \in 1..8
      BY <2>1, <3>2
    <3> QED
      BY <3>3
  <2>3. PICK o, b : o = Bits(n) \union {7} /\ b = BigEndian(v, n)
    OBVIOUS
  <2>4. IsSeq(<<o>>) /\ Len(<<o>>) = 1 /\ <<o>>[1] = o
    BY OneSeq
  <2>5. IsSeq(b) /\ Len(b) = n
    BY <2>2, <2>3, EndianIs
  <2>6. PICK e : e = <<o>> \o b
    OBVIOUS
  <2>7. JoinOf(e, <<o>>, b)
    BY <2>4, <2>5, <2>6, JoinIs
  <2>8. IsSeq(e) /\ Len(e) = 1 + n /\ e[1] = o
    <3>1. 1 \in 1..1
      OBVIOUS
    <3> QED
      BY <2>4, <2>5, <2>7, <3>1 DEF JoinOf
  <2>9. LengthWrite(v) = Octets(e)
    BY <1>3, <2>1, <2>3, <2>6 DEF LengthWrite
  <2>10. Spells(LengthWrite(v), e)
    BY <2>8, <2>9, SpellsOctets
  <2>11. Len(e) >= 1 /\ 7 \in e[1] /\ Number(e[1] \ {7}) = n
    <3>1. Bits(n) \subseteq 0..4 /\ Number(Bits(n)) = n
      BY ONLY <2>2, NumbersAssumption
    <3>2. o \ {7} = Bits(n) /\ 7 \in o
      BY <2>3, <3>1
    <3>3. Len(e) >= 1
      BY <2>2, <2>8
    <3> QED
      BY <2>8, <3>1, <3>2, <3>3
  <2>12. \A s : IsSeq(s) /\ Agrees(s, e) => Takes(s, LengthRead(s), Len(e))
    BY <2>2, <2>8, <2>11, LongLengthTaken
  <2> QED
    BY <1>1, <2>10, <2>12, SpellsLeaves
<1> QED
  BY <1>2, <1>3

(* The first octet of an identifier.                                       *)
First(id, low) ==
    (IF 1 \in id.class THEN {7} ELSE {}) \union (IF id.constructed THEN {5} ELSE {}) \union low

(* The lowest bits of the first octet of an identifier are the tag.        *)
LEMMA FirstLow ==
    ASSUME NEW id, NEW low, low \subseteq 0..4 PROVE Low(First(id, low), 5) = low
<1>1. PICK a, b : /\ a = (IF 1 \in id.class THEN {7} ELSE {})
                  /\ b = (IF id.constructed THEN {5} ELSE {})
  OBVIOUS
<1>2. First(id, low) = a \union b \union low
  BY <1>1 DEF First
<1>3. a \subseteq {7} /\ b \subseteq {5}
  BY <1>1
<1>4. a \intersect 0..4 = {} /\ b \intersect 0..4 = {}
  BY <1>3
<1>5. (a \union b \union low) \intersect 0..4 = low
  BY <1>4
<1>6. Low(First(id, low), 5) = First(id, low) \intersect 0..4
  BY DEF Low
<1> QED
  BY <1>2, <1>5, <1>6

(* The write of an identifier leaves one octet, or one and a tag.          *)
LEMMA IdentLeaves == ASSUME NEW v \in Ident PROVE Leaves("ident", v, IdentWrite(v))
<1>1. \A s : Got("ident", v, s) = IdentRead(s)
  BY DEF Got
<1>2. PICK x : x = v.identifier
  OBVIOUS
<1>3. CASE x \subseteq 0..4 /\ x # 0..4
  <2>1. PICK o : o = First(v, x)
    OBVIOUS
  <2>2. Low(o, 5) # 0..4
    BY <1>3, <2>1, FirstLow
  <2>3. PICK e : e = <<o>>
    OBVIOUS
  <2>4. IsSeq(e) /\ Len(e) = 1 /\ e[1] = o
    BY <2>3, OneSeq
  <2>5. IdentWrite(v) = Octets(e)
    BY <1>2, <1>3, <2>1, <2>3 DEF IdentWrite, First
  <2>6. Spells(IdentWrite(v), e)
    BY <2>4, <2>5, SpellsOctets
  <2>7. \A s : IsSeq(s) /\ Agrees(s, e) => Takes(s, IdentRead(s), Len(e))
    <3>1. Len(e) >= 1 /\ Low(e[1], 5) # 0..4
      BY <2>2, <2>4
    <3> QED
      BY <2>4, <3>1, ShortIdentTaken
  <2> QED
    BY <1>1, <2>6, <2>7, SpellsLeaves
<1>4. CASE ~(x \subseteq 0..4 /\ x # 0..4)
  <2>1. PICK o : o = First(v, 0..4)
    OBVIOUS
  <2>2. Low(o, 5) = 0..4
    BY <2>1, FirstLow
  <2>3. PICK one : one = <<o>>
    OBVIOUS
  <2>4. IsSeq(one) /\ Len(one) = 1 /\ one[1] = o
    BY <2>3, OneSeq
  <2>5. IdentWrite(v) = Then(Octets(one), TagWrite(x))
    BY <1>2, <1>4, <2>1, <2>3 DEF IdentWrite, First
  <2>6. Spells(Octets(one), one)
    BY <2>4, SpellsOctets
  <2>7. CASE Fits56(x)
    <3>1. PICK n : n = GroupsOf(x)
      OBVIOUS
    <3>2. PICK g : g = [k \in 1..n |-> Group(x, n - k) \union (IF k < n THEN {7} ELSE {})]
      OBVIOUS
    <3>3. Grouped(g)
      <4>1. g = [k \in 1..n |-> g[k]]
        BY <3>2
      <4>2. \A k \in 1..n : \E j : g[k] = Group(x, j) \union (IF k < n THEN {7} ELSE {})
        BY <3>2
      <4> QED
        BY <2>7, <3>1, <4>1, <4>2, GroupsMade
    <3>4. TagWrite(x) = Octets(g)
      BY <2>7, <3>1, <3>2 DEF TagWrite
    <3>5. IsSeq(g) /\ Len(g) \in Nat
      BY <3>3, SeqDomain DEF Grouped
    <3>6. Spells(TagWrite(x), g)
      BY <3>4, <3>5, SpellsOctets
    <3>7. Spells(IdentWrite(v), one \o g)
      BY <2>5, <2>6, <3>6, SpellsThen
    <3>8. Len(one \o g) = 1 + Len(g)
      <4>1. PICK u : u = one \o g
        OBVIOUS
      <4>2. JoinOf(u, one, g)
        BY <2>4, <3>5, <4>1, JoinIs
      <4> QED
        BY <2>4, <4>1, <4>2 DEF JoinOf
    <3>9. \A s : IsSeq(s) /\ Agrees(s, one \o g) => Takes(s, IdentRead(s), Len(one \o g))
      BY <2>2, <2>3, <3>3, <3>8, LongIdentTaken
    <3> QED
      BY <1>1, <3>7, <3>9, SpellsLeaves
  <2>8. CASE ~Fits56(x)
    <3>1. TagWrite(x) = Rejected
      BY <2>8 DEF TagWrite
    <3>2. PICK w : w = IdentWrite(v)
      OBVIOUS
    <3>3. PICK c : c = Octets(one).chunks
      OBVIOUS
    <3>4. w.ok = FALSE /\ w.chunks = c \o <<>>
      <4>1. PICK y : y = Octets(one)
        OBVIOUS
      <4>2. y.ok = TRUE /\ y.chunks = c
        BY <2>6, <3>3, <4>1 DEF Spells
      <4>3. Rejected.ok = FALSE /\ Rejected.chunks = <<>>
        BY DEF Rejected
      <4>4. w = [ok |-> y.ok /\ Rejected.ok,
                 chunks |-> y.chunks \o (IF y.ok THEN Rejected.chunks ELSE <<>>)]
        BY <2>5, <3>1, <3>2, <4>1 DEF Then
      <4> QED
        BY <4>2, <4>3, <4>4
    <3>5. c \o <<>> = c
      <4>1. IsSeq(c)
        BY <2>6, <3>3 DEF Spells, IsWrite
      <4> QED
        BY <4>1 DEF IsSeq
    <3>6. IsWrite(w) /\ FlattenSeq(w.chunks) = one
      BY <2>6, <3>3, <3>4, <3>5 DEF Spells, IsWrite
    <3>7. ASSUME NEW s, IsSeq(s), Agrees(s, one), Len(s) <= 1 PROVE ~IdentRead(s).ok
      <4>1. CASE s = <<>>
        BY <4>1, FailedTakes DEF IdentRead
      <4>2. CASE s # <<>>
        <5>1. Head(s) = o
          <6>1. Len(one) \in Nat \ {0}
            BY <2>4
          <6> QED
            BY <2>4, <3>7, <4>2, <6>1, FirstAgrees
        <5>2. Tail(s) = <<>>
          <6>1. IsSeq(Tail(s)) /\ Len(Tail(s)) = Len(s) - 1 /\ Len(s) \in Nat
            BY <3>7, <4>2, SeqRest, SeqDomain
          <6>2. Len(Tail(s)) <= 0
            BY <3>7, <6>1
          <6> QED
            BY <6>1, <6>2, RejectedIs
        <5>3. ~TagRead(Tail(s)).ok
          BY <5>2, RejectedIs
        <5>4. IdentRead(s) = TagRead(Tail(s))
          BY <2>2, <4>2, <5>1, <5>3 DEF IdentRead
        <5> QED
          BY <5>3, <5>4
      <4> QED
        BY <4>1, <4>2
    <3>8. Leaves("ident", v, w)
      BY <1>1, <2>4, <3>4, <3>6, <3>7, FailsLeaves
    <3> QED
      BY <3>2, <3>8
  <2> QED
    BY <2>7, <2>8
<1> QED
  BY <1>3, <1>4

(* Tagged numbers: identifier, length and contents.                        *)
LEMMA DerSpells ==
    ASSUME NEW t \in Tags, NEW n \in 0..20, NEW w, NEW b, Spells(w, b), Len(b) >= 1
    PROVE  \E e : /\ Spells(DerWrite(t, n, w), e) /\ Tagged(e, n)
                  /\ Len(e) = 2 + Len(b) /\ e[3] = b[1]
<1>1. PICK a, c : a = <<Bits(t)>> /\ c = <<Bits(n)>>
  OBVIOUS
<1>2. /\ IsSeq(a) /\ Len(a) = 1 /\ a[1] = Bits(t)
      /\ IsSeq(c) /\ Len(c) = 1 /\ c[1] = Bits(n)
  BY <1>1, OneSeq
<1>3. Bits(t) \subseteq 0..3
  <2>1. t \in 0..15
    BY SamplesAssumption
  <2> QED
    BY ONLY <2>1, NumbersAssumption
<1>4. Bits(n) \subseteq 0..4
  BY ONLY n \in 0..20, NumbersAssumption
<1>5. Spells(IdentWrite(Universal(t)), a)
  <2>1. PICK x : x = Bits(t)
    OBVIOUS
  <2>2. x \subseteq 0..4 /\ x # 0..4
    BY <1>3, <2>1
  <2>3. Universal(t).identifier = x /\ Universal(t).constructed = FALSE /\ Universal(t).class = {}
    BY <2>1 DEF Universal
  <2>4. IdentWrite(Universal(t)) = Octets(<<x>>)
    BY <2>2, <2>3 DEF IdentWrite
  <2> QED
    BY <1>1, <1>2, <2>1, <2>4, SpellsOctets
<1>6. Spells(LengthWrite(Bits(n)), c)
  <2>1. LengthWrite(Bits(n)) = Octets(c)
    <3>1. Bits(n) \subseteq 0..6
      BY <1>4
    <3> QED
      BY <1>1, <3>1 DEF LengthWrite
  <2> QED
    BY <1>2, <2>1, SpellsOctets
<1>7. PICK d : d = a \o c
  OBVIOUS
<1>8. Spells(Then(IdentWrite(Universal(t)), LengthWrite(Bits(n))), d)
  BY <1>5, <1>6, <1>7, SpellsThen
<1>9. PICK e : e = d \o b
  OBVIOUS
<1>10. Spells(DerWrite(t, n, w), e)
  BY <1>8, <1>9, SpellsThen DEF DerWrite
<1>11. JoinOf(d, a, c)
  BY <1>2, <1>7, JoinIs
<1>12. IsSeq(d) /\ Len(d) = 2 /\ d[1] = Bits(t) /\ d[2] = Bits(n)
  <2>1. 1 \in 1..1 /\ 1 + 1 = 2
    OBVIOUS
  <2> QED
    BY <1>2, <1>11, <2>1 DEF JoinOf
<1>13. IsSeq(b) /\ Len(b) \in Nat
  BY SeqDomain DEF Spells
<1>14. JoinOf(e, d, b)
  BY <1>9, <1>12, <1>13, JoinIs
<1>15. IsSeq(e) /\ Len(e) = 2 + Len(b) /\ e[1] = Bits(t) /\ e[2] = Bits(n) /\ e[3] = b[1]
  <2>1. 1 \in 1..2 /\ 2 \in 1..2 /\ 1 \in 1..Len(b) /\ 2 + 1 = 3
    BY <1>13
  <2> QED
    BY <1>12, <1>14, <2>1 DEF JoinOf
<1>16. Tagged(e, n)
  <2>1. Low(e[1], 5) # 0..4
    <3>1. 4 \notin Low(e[1], 5)
      BY <1>3, <1>15 DEF Low
    <3> QED
      BY <3>1
  <2>2. Len(e) >= 2
    BY <1>13, <1>15
  <2> QED
    BY <1>15, <2>1, <2>2 DEF Tagged
<1> QED
  BY <1>10, <1>15, <1>16

(* A big-endian integer is one chunk.                                      *)
LEMMA BerSpells ==
    ASSUME NEW x, NEW n \in 1..8
    PROVE  Spells(BerU64Write(n, x), BigEndian(x, n)) /\ Len(BigEndian(x, n)) = n
<1>1. IsSeq(BigEndian(x, n)) /\ Len(BigEndian(x, n)) = n
  <2>1. n \in Nat
    OBVIOUS
  <2> QED
    BY <2>1, EndianIs
<1>2. BerU64Write(n, x) = Chunks(<<BigEndian(x, n)>>)
  BY DEF BerU64Write
<1> QED
  BY <1>1, <1>2, SpellsOne

(* The writes of ASN.1 integers leave the length they announce.            *)
LEMMA DerLeaves ==
    ASSUME NEW v \in Word, NEW t \in Tags
    PROVE  Leaves("derU64", v, DerU64Write(t, v)) /\ Leaves("derS64", v, DerS64Write(t, v))
<1>1. U64Length(v) \in 1..8 /\ S64Length(v) \in 1..8
  <2>1. v \subseteq 0..63
    BY DEF Word
  <2> QED
    BY <2>1, Lengths
<1>2. ASSUME NEW n \in 1..8
      PROVE  \E e : /\ Spells(DerWrite(t, n, BerU64Write(n, v)), e)
                    /\ \A s : IsSeq(s) /\ Agrees(s, e) => /\ Takes(s, DerU64Read(s), Len(e))
                                                          /\ Takes(s, DerS64Read(s), Len(e))
  <2>1. PICK w, b : w = BerU64Write(n, v) /\ b = BigEndian(v, n)
    OBVIOUS
  <2>2. Spells(w, b) /\ Len(b) = n /\ n \in 0..20 /\ Len(b) >= 1
    <3>1. Spells(w, b) /\ Len(b) = n
      BY <2>1, BerSpells
    <3> QED
      BY <3>1
  <2>3. PICK e : Spells(DerWrite(t, n, w), e) /\ Tagged(e, n) /\ Len(e) = 2 + Len(b)
    BY <2>2, DerSpells, SMTT(30)
  <2>4. \A s : IsSeq(s) /\ Agrees(s, e) => /\ Takes(s, DerU64Read(s), Len(e))
                                           /\ Takes(s, DerS64Read(s), Len(e))
    BY <2>2, <2>3, DerTaken
  <2> QED
    BY <2>1, <2>3, <2>4
<1>3. Leaves("derU64", v, DerU64Write(t, v))
  <2>1. \A s : Got("derU64", v, s) = DerU64Read(s)
    BY DEF Got
  <2>2. PICK n \in 1..8 : n = U64Length(v)
    BY <1>1
  <2>3. DerU64Write(t, v) = DerWrite(t, n, BerU64Write(n, v))
    BY <2>2 DEF DerU64Write
  <2> QED
    BY <1>2, <2>1, <2>3, SpellsLeaves
<1>4. Leaves("derS64", v, DerS64Write(t, v))
  <2>1. \A s : Got("derS64", v, s) = DerS64Read(s)
    BY DEF Got
  <2>2. PICK n \in 1..8 : n = S64Length(v)
    BY <1>1
  <2>3. DerS64Write(t, v) = DerWrite(t, n, BerU64Write(n, v))
    BY <2>2 DEF DerS64Write
  <2> QED
    BY <1>2, <2>1, <2>3, SpellsLeaves
<1> QED
  BY <1>3, <1>4

(* The fields of floats.                                                   *)
LEMMA Fields ==
    /\ F32.width = 32 /\ F32.exp = 8 /\ F32.mant = 23
    /\ F64.width = 64 /\ F64.exp = 11 /\ F64.mant = 52
    /\ F32 # F64 /\ Bias(F32) = 127 /\ Bias(F64) = 1023
<1>1. F32.width = 32 /\ F64.width = 64
  BY DEF F32, F64
<1>2. F32 # F64
  BY <1>1
<1>3. Bias(F32) = 127 /\ Bias(F64) = 1023
  BY NumbersAssumption
<1> QED
  BY <1>1, <1>2, <1>3 DEF F32, F64

(* The exponent of a float is within its field.                            *)
LEMMA ExponentIs ==
    ASSUME NEW f \in {F32, F64}, NEW v
    PROVE  Exponent(f, v) \in 0..(2 * Bias(f) + 1)
<1>1. PICK x : x = Low(Shr(v, f.mant), f.exp)
  OBVIOUS
<1>2. x \in SUBSET (0..(f.exp - 1))
  BY <1>1 DEF Low
<1>3. Number(x) \in 0..(2 * Bias(f) + 1)
  BY <1>2, NumbersAssumption
<1> QED
  BY <1>1, <1>3 DEF Exponent

(* The exponent of a float has one octet or two.                           *)
LEMMA ShortExponent == ASSUME NEW n, n \in -1200..1200 PROVE S64Length(Signed(n)) \in 1..2
<1>1. n \in FloatExponents
  BY DEF FloatExponents
<1> QED
  BY <1>1, NumbersAssumption

(* The lowest bit of a word, and what is left of a word shifted down.      *)
LEMMA LowestBit ==
    ASSUME NEW n \in Nat, NEW x, x \subseteq 0..n, NEW w \in Nat
    PROVE  Ctz(x, w) \in Nat /\ (x # {} => Ctz(x, w) \in 0..n /\ \A i \in x : Ctz(x, w) <= i)
<1>1. CASE x = {}
  BY <1>1 DEF Ctz
<1>2. CASE x # {}
  <2>1. PICK m : m = Min(x)
    OBVIOUS
  <2>2. x \in SUBSET Nat
    OBVIOUS
  <2>3. m \in x /\ \A i \in x : m <= i
    BY <1>2, <2>1, <2>2, MinIs
  <2>4. Ctz(x, w) = m
    BY <1>2, <2>1 DEF Ctz
  <2>5. m \in 0..n
    BY <2>3
  <2> QED
    BY <2>3, <2>4, <2>5
<1> QED
  BY <1>1, <1>2

(* A number shifted to the right has no more bits.                         *)
LEMMA ShrIs ==
    ASSUME NEW n \in Nat, NEW x, x \subseteq 0..n, NEW k \in Nat
    PROVE  Shr(x, k) \subseteq 0..n
<1>1. ASSUME NEW i \in x, i >= k PROVE i - k \in 0..n
  BY <1>1
<1> QED
  BY <1>1 DEF Shr

(* Exponents and fractions of reals are short.                             *)
LEMMA RealDataIs ==
    ASSUME NEW v \in Word
    PROVE  /\ RealExpLength(v) \in 1..2 /\ RealFracLength(v) \in 1..8
           /\ IsZero(F64, v) => RealExpLength(v) = 1 /\ RealFracLength(v) = 1
<1>1. PICK exp : exp = Exponent(F64, v)
  OBVIOUS
<1>2. exp \in 0..2047
  <2>1. Exponent(F64, v) \in 0..(2 * Bias(F64) + 1)
    BY ExponentIs
  <2> QED
    BY <1>1, <2>1, Fields
<1>3. PICK all : all = Mantissa(F64, v) \union (IF exp > 0 THEN {52} ELSE {})
  OBVIOUS
<1>4. PICK tz, lz : tz = Ctz(all, 64) /\ lz = Clz(all, 64)
  OBVIOUS
<1>5. PICK frac, sexp : /\ frac = Shr(all, tz)
                        /\ sexp = IF exp > 0 THEN exp + lz + tz - 63 - 1023 ELSE 0
  OBVIOUS
<1>6. RealData(v).frac = frac /\ RealData(v).sexp = sexp
  BY <1>1, <1>3, <1>4, <1>5, Fields DEF RealData
<1>7. all \subseteq 0..52
  <2>1. Mantissa(F64, v) \subseteq 0..51
    BY Fields DEF Mantissa, Low
  <2> QED
    BY <1>3, <2>1
<1>8. tz \in Nat
  BY <1>4, <1>7, LowestBit
<1>9. frac \subseteq 0..52
  BY <1>5, <1>7, <1>8, ShrIs
<1>10. sexp \in -1200..1200
  <2>1. CASE exp > 0
    <3>1. 52 \in all
      BY <1>3, <2>1
    <3>2. tz \in 0..52
      BY <1>4, <1>7, <3>1, LowestBit
    <3>3. lz = 11
      <4>1. Max(all) \in 0..52 /\ 52 <= Max(all) /\ Clz(all, 64) = 64 - 1 - Max(all)
        <5>1. 52 \in Nat /\ all # {}
          BY <3>1
        <5> QED
          BY <1>7, <3>1, <5>1, HighestBit
      <4> QED
        BY <1>4, <4>1
    <3> QED
      BY <1>2, <1>5, <2>1, <3>2, <3>3
  <2>2. CASE ~(exp > 0)
    BY <1>5, <2>2
  <2> QED
    BY <2>1, <2>2
<1>11. RealExpLength(v) \in 1..2
  <2>1. S64Length(Signed(sexp)) \in 1..2
    BY ONLY <1>10, ShortExponent, SMTT(30)
  <2> QED
    BY <1>6, <2>1 DEF RealExpLength
<1>12. RealFracLength(v) \in 1..8
  <2>1. frac \subseteq 0..63
    BY <1>9
  <2>2. U64Length(frac) \in 1..8
    BY <2>1, Lengths
  <2> QED
    BY <1>6, <2>2 DEF RealFracLength
<1>13. ASSUME IsZero(F64, v) PROVE RealExpLength(v) = 1 /\ RealFracLength(v) = 1
  <2>1. v \subseteq {63}
    BY <1>13, Fields DEF IsZero
  <2>2. Mantissa(F64, v) = {}
    <3>1. 63 \notin 0..(52 - 1)
      OBVIOUS
    <3> QED
      BY <2>1, <3>1, Fields DEF Mantissa, Low
  <2>3. Low(Shr(v, 52), 11) = {}
    <3>1. \A i \in v : i = 63 /\ i - 52 = 11
      BY <2>1
    <3>2. Shr(v, 52) \subseteq {11}
      BY <3>1 DEF Shr
    <3>3. 11 \notin 0..(11 - 1)
      OBVIOUS
    <3> QED
      BY <3>2, <3>3 DEF Low
  <2>4. Bits(0) = {} /\ Number({}) = 0
    <3>1. 0 \in 0..20
      OBVIOUS
    <3>2. Bits(0) = {} /\ Number(Bits(0)) = 0
      BY ONLY <3>1, NumbersAssumption
    <3> QED
      BY <3>2
  <2>5. exp = 0
    BY <1>1, <2>3, <2>4, Fields DEF Exponent
  <2>6. frac = {} /\ sexp = 0
    <3>1. all = {}
      BY <1>3, <2>2, <2>5
    <3> QED
      BY <1>5, <2>5, <3>1 DEF Shr
  <2>7. RealExpLength(v) = S64Length({})
    BY <1>6, <2>4, <2>6 DEF RealExpLength, Signed
  <2>8. RealFracLength(v) = U64Length({})
    BY <1>6, <2>6 DEF RealFracLength
  <2> QED
    BY <2>7, <2>8 DEF S64Length, U64Length
<1> QED
  BY <1>11, <1>12, <1>13

(* A real is one octet, or one with the length of the exponent.            *)
RealCode(b, n) ==
    /\ IsSeq(b) /\ Len(b) = n
    /\ b[1] \in Special => n = 1
    /\ b[1] \notin Special => Number(Low(b[1], 2)) \in Nat

(* The write of a real leaves as many octets as RealLength announces.      *)
LEMMA RealSpells ==
    ASSUME NEW v \in Word
    PROVE  /\ RealLength(v) \in 1..20
           /\ \E b : Spells(RealWrite(v), b) /\ RealCode(b, RealLength(v))
<1>1. ASSUME NEW o \in Special
      PROVE  Spells(Octets(<<o>>), <<o>>) /\ RealCode(<<o>>, 1)
  <2>1. IsSeq(<<o>>) /\ Len(<<o>>) = 1 /\ <<o>>[1] = o
    BY OneSeq
  <2>2. Spells(Octets(<<o>>), <<o>>)
    BY <2>1, SpellsOctets
  <2> QED
    BY <2>1, <2>2 DEF RealCode
<1>2. IsInf(F64, v) \/ IsNan(F64, v) => ~IsZero(F64, v)
  <2> SUFFICES ASSUME v \subseteq {63} PROVE Low(Shr(v, 52), 11) # 0..10
    BY Fields DEF IsInf, IsNan, IsZero, ExponentMask
  <2>1. 52 \notin v
    OBVIOUS
  <2>2. \A i \in v : i - 52 # 0
    OBVIOUS
  <2>3. 0 \notin Shr(v, 52)
    BY <2>2 DEF Shr
  <2> QED
    BY <2>3 DEF Low
<1>3. CASE IsZero(F64, v) /\ Sign(F64, v)
  <2>1. RealWrite(v) = Octets(<<MinusZero>>)
    <3>1. ~IsInf(F64, v) /\ ~IsNan(F64, v)
      BY <1>2, <1>3
    <3> QED
      BY <1>3, <3>1 DEF RealWrite
  <2>2. RealLength(v) = 1
    BY <1>3 DEF RealLength
  <2>3. MinusZero \in Special
    BY DEF Special
  <2> QED
    BY <1>1, <2>1, <2>2, <2>3
<1>4. CASE IsInf(F64, v)
  <2>1. ~IsZero(F64, v)
    BY <1>2, <1>4
  <2>2. RealLength(v) = 1
    BY <1>4, <2>1 DEF RealLength
  <2>3. PICK o : o = IF Sign(F64, v) THEN MinusInfinity ELSE PlusInfinity
    OBVIOUS
  <2>4. RealWrite(v) = Octets(<<o>>)
    <3>1. ~IsNan(F64, v)
      BY <1>4 DEF IsNan, IsInf
    <3> QED
      BY <1>4, <2>1, <2>3, <3>1 DEF RealWrite
  <2>5. o \in Special
    BY <2>3 DEF Special
  <2> QED
    BY <1>1, <2>2, <2>4, <2>5
<1>5. CASE IsNan(F64, v)
  <2>1. ~IsZero(F64, v) /\ ~IsInf(F64, v)
    BY <1>2, <1>5 DEF IsNan, IsInf
  <2>2. RealLength(v) = 1
    BY <1>5, <2>1 DEF RealLength
  <2>3. RealWrite(v) = Octets(<<NotANumber>>)
    BY <1>5, <2>1 DEF RealWrite
  <2>4. NotANumber \in Special
    BY DEF Special
  <2> QED
    BY <1>1, <2>2, <2>3, <2>4
<1>6. CASE ~(IsZero(F64, v) /\ Sign(F64, v)) /\ ~IsInf(F64, v) /\ ~IsNan(F64, v)
  <2>1. PICK j, k : j = RealExpLength(v) /\ k = RealFracLength(v)
    OBVIOUS
  <2>2. j \in 1..2 /\ k \in 1..8 /\ (IsZero(F64, v) => j = 1 /\ k = 1)
    BY <2>1, RealDataIs
  <2>3. RealLength(v) = 1 + j + k
    <3>1. CASE IsZero(F64, v)
      BY <1>6, <2>2, <3>1 DEF RealLength
    <3>2. CASE ~IsZero(F64, v)
      BY <1>6, <2>1, <3>2 DEF RealLength
    <3> QED
      BY <3>1, <3>2
  <2>4. PICK sg : sg = IF Sign(F64, v) THEN {6} ELSE {}
    OBVIOUS
  <2>5. PICK o : o = {7} \union sg \union Bits(j - 1)
    OBVIOUS
  <2>6. PICK e, m : e = BigEndian(Signed(RealData(v).sexp), j) /\ m = BigEndian(RealData(v).frac, k)
    OBVIOUS
  <2>7. RealWrite(v) = Then(Octets(<<o>>), Then(BerU64Write(j, Signed(RealData(v).sexp)),
                                                BerU64Write(k, RealData(v).frac)))
    BY <1>6, <2>1, <2>2, <2>4, <2>5 DEF RealWrite
  <2>8. IsSeq(<<o>>) /\ Len(<<o>>) = 1 /\ <<o>>[1] = o
    BY OneSeq
  <2>9. Spells(Octets(<<o>>), <<o>>)
    BY <2>8, SpellsOctets
  <2>10. /\ Spells(BerU64Write(j, Signed(RealData(v).sexp)), e) /\ Len(e) = j
         /\ Spells(BerU64Write(k, RealData(v).frac), m) /\ Len(m) = k
    <3>1. j \in 1..8
      BY <2>2
    <3> QED
      BY <2>2, <2>6, <3>1, BerSpells
  <2>11. PICK r, b : r = e \o m /\ b = <<o>> \o r
    OBVIOUS
  <2>12. Spells(RealWrite(v), b)
    <3>1. Spells(Then(BerU64Write(j, Signed(RealData(v).sexp)),
                      BerU64Write(k, RealData(v).frac)), r)
      BY <2>10, <2>11, SpellsThen
    <3> QED
      BY <2>7, <2>9, <2>11, <3>1, SpellsThen
  <2>13. IsSeq(b) /\ Len(b) = 1 + j + k /\ b[1] = o
    <3>1. IsSeq(e) /\ IsSeq(m)
      BY <2>10 DEF Spells
    <3>2. JoinOf(r, e, m)
      BY <2>11, <3>1, JoinIs
    <3>3. IsSeq(r) /\ Len(r) = j + k
      BY <2>10, <3>2 DEF JoinOf
    <3>4. JoinOf(b, <<o>>, r)
      BY <2>8, <2>11, <3>3, JoinIs
    <3>5. 1 \in 1..1 /\ 1 + (j + k) = 1 + j + k
      BY <2>2
    <3> QED
      BY <2>8, <3>3, <3>4, <3>5 DEF JoinOf
  <2>14. o \notin Special
    <3>1. 7 \in o
      BY <2>5
    <3> QED
      BY <3>1 DEF Special, PlusInfinity, MinusInfinity, MinusZero, NotANumber
  <2>15. Number(Low(o, 2)) \in Nat
    <3>1. PICK i \in 0..1 : i = j - 1
      BY <2>2
    <3>2. Bits(i) \subseteq 0..1 /\ Number(Bits(i)) = i
      <4>1. i \in 0..3 /\ i \in 0..20
        OBVIOUS
      <4> QED
        BY ONLY <4>1, NumbersAssumption
    <3>3. Low(o, 2) = Bits(i)
      <4>1. sg \subseteq {6} /\ 7 \notin 0..1 /\ 6 \notin 0..1
        BY <2>4
      <4>2. o = {7} \union sg \union Bits(i)
        BY <2>5, <3>1
      <4>3. o \intersect 0..1 = Bits(i)
        BY <3>2, <4>1, <4>2
      <4>4. Low(o, 2) = o \intersect 0..1
        BY DEF Low
      <4> QED
        BY <4>3, <4>4
    <3> QED
      BY <3>1, <3>2, <3>3
  <2>16. RealCode(b, RealLength(v)) /\ RealLength(v) \in 1..20
    BY <2>2, <2>3, <2>13, <2>14, <2>15 DEF RealCode
  <2> QED
    BY <2>12, <2>16
<1> QED
  BY <1>3, <1>4, <1>5, <1>6

(* The write of a real with its tag and its length.                        *)
LEMMA DerRealLeaves ==
    ASSUME NEW v \in Word, NEW t \in Tags PROVE Leaves("derReal", v, DerRealWrite(t, v))
<1>1. \A s : Got("derReal", v, s) = DerRealRead(s)
  BY DEF Got
<1>2. PICK n : n = RealLength(v)
  OBVIOUS
<1>3. PICK b : Spells(RealWrite(v), b) /\ RealCode(b, n) /\ n \in 1..20
  BY <1>2, RealSpells
<1>4. Len(b) = n /\ Len(b) >= 1 /\ n \in 0..20
  BY <1>3 DEF RealCode
<1>5. PICK e : /\ Spells(DerWrite(t, n, RealWrite(v)), e) /\ Tagged(e, n)
               /\ Len(e) = 2 + Len(b) /\ e[3] = b[1]
  BY <1>3, <1>4, DerSpells, SMTT(30)
<1>6. DerRealWrite(t, v) = DerWrite(t, n, RealWrite(v))
  BY <1>2 DEF DerRealWrite
<1>7. \A s : IsSeq(s) /\ Agrees(s, e) => Takes(s, DerRealRead(s), Len(e))
  <2>1. Len(e) >= 3 /\ Len(e) = 2 + n
    BY <1>4, <1>5
  <2>2. e[3] \in Special => n = 1
    BY <1>3, <1>5 DEF RealCode
  <2>3. e[3] \notin Special => Number(Low(e[3], 2)) \in Nat
    BY <1>3, <1>5 DEF RealCode
  <2> QED
    BY <1>5, <2>1, <2>2, <2>3, DerRealTaken
<1> QED
  BY <1>1, <1>5, <1>6, <1>7, SpellsLeaves

(* IEEE numbers are as many octets as they are wide.                       *)
LEMMA IeeeSpells ==
    ASSUME NEW f \in {F32, F64}, NEW v
    PROVE  \E e : /\ Spells(IeeeWrite(f, v), e)
                  /\ \A s : IsSeq(s) /\ Agrees(s, e) => Takes(s, IeeeRead(f, s), Len(e))
<1>1. PICK n : n = f.width \div 8
  OBVIOUS
<1>2. n \in {4, 8} /\ n \in Nat
  BY <1>1 DEF F32, F64
<1>3. PICK e : e = LittleEndian(v, n)
  OBVIOUS
<1>4. IsSeq(e) /\ Len(e) = n
  BY <1>2, <1>3, EndianIs
<1>5. IeeeWrite(f, v) = Chunks(<<e>>)
  BY <1>1, <1>3 DEF IeeeWrite
<1>6. Spells(IeeeWrite(f, v), e)
  BY <1>4, <1>5, SpellsOne
<1>7. \A s : IsSeq(s) => Takes(s, IeeeRead(f, s), n)
  BY <1>1, IeeeTaken
<1> QED
  BY <1>4, <1>6, <1>7

(* The writes of IEEE numbers leave the octets of a word.                  *)
LEMMA IeeeLeaves ==
    ASSUME NEW v
    PROVE  Leaves("ieee32", v, Ieee32Write(v)) /\ Leaves("ieee64", v, Ieee64Write(v))
<1>1. \A s : Got("ieee32", v, s) = IeeeRead(F32, s) /\ Got("ieee64", v, s) = IeeeRead(F64, s)
  BY DEF Got, Ieee32Read, Ieee64Read
<1>2. Leaves("ieee32", v, Ieee32Write(v))
  <2>1. PICK e : /\ Spells(IeeeWrite(F32, v), e)
                 /\ \A s : IsSeq(s) /\ Agrees(s, e) => Takes(s, IeeeRead(F32, s), Len(e))
    BY IeeeSpells
  <2> QED
    BY <1>1, <2>1, SpellsLeaves DEF Ieee32Write
<1>3. Leaves("ieee64", v, Ieee64Write(v))
  <2>1. PICK e : /\ Spells(IeeeWrite(F64, v), e)
                 /\ \A s : IsSeq(s) /\ Agrees(s, e) => Takes(s, IeeeRead(F64, s), Len(e))
    BY IeeeSpells
  <2> QED
    BY <1>1, <2>1, SpellsLeaves DEF Ieee64Write
<1> QED
  BY <1>2, <1>3

(* A compressed float of one octet,                                        *)
LEMMA InlineSpells ==
    ASSUME NEW f, NEW o, 7 \notin o
    PROVE  Spells(Chunks(<< <<o>> >>), <<o>>) /\ VfCode(f, <<o>>)
<1>1. PICK e : e = <<o>>
  OBVIOUS
<1>2. IsSeq(e) /\ Len(e) = 1 /\ e[1] = o
  BY <1>1, OneSeq
<1>3. Spells(Chunks(<<e>>), e)
  BY <1>2, SpellsOne
<1>4. \A s : IsSeq(s) /\ Agrees(s, e) => Takes(s, VfRead(f, s), 1)
  <2>1. Len(e) >= 1 /\ 7 \notin e[1]
    BY <1>2
  <2> QED
    BY <1>2, <2>1, VfTaken
<1> QED
  BY <1>1, <1>2, <1>3, <1>4 DEF VfCode

(* Chunks one after the other.                                             *)
LEMMA TuplesJoined ==
    ASSUME NEW a, NEW b, NEW c
    PROVE  <<b>> \o <<c>> = <<b, c>> /\ <<a>> \o <<b, c>> = <<a, b, c>>
<1>1. PICK p, t : p = <<b, c>> /\ t = <<a, b, c>>
  OBVIOUS
<1>2. IsSeq(p) /\ Len(p) = 2 /\ p[1] = b /\ p[2] = c
  <2>1. p \in Seq({b, c})
    BY <1>1
  <2> QED
    BY <1>1, <2>1, SeqOfAny
<1>3. IsSeq(t) /\ Len(t) = 3 /\ t[1] = a /\ t[2] = b /\ t[3] = c
  <2>1. t \in Seq({a, b, c})
    BY <1>1
  <2> QED
    BY <1>1, <2>1, SeqOfAny
<1>4. PICK u, v, w : u = <<a>> /\ v = <<b>> /\ w = <<c>>
  OBVIOUS
<1>5. /\ IsSeq(u) /\ Len(u) = 1 /\ u[1] = a
      /\ IsSeq(v) /\ Len(v) = 1 /\ v[1] = b
      /\ IsSeq(w) /\ Len(w) = 1 /\ w[1] = c
  BY <1>4, OneSeq
<1>6. PICK x, y : x = v \o w /\ y = u \o p
  OBVIOUS
<1>7. JoinOf(x, v, w) /\ JoinOf(y, u, p)
  BY <1>2, <1>5, <1>6, JoinIs
<1>8. 1 \in 1..1 /\ 1 \in 1..2 /\ 2 \in 1..2 /\ 1 + 1 = 2 /\ 1 + 2 = 3
  OBVIOUS
<1>9. IsSeq(x) /\ Len(x) = 2 /\ x[1] = b /\ x[2] = c
  BY <1>5, <1>7, <1>8 DEF JoinOf
<1>10. IsSeq(y) /\ Len(y) = 3 /\ y[1] = a /\ y[2] = b /\ y[3] = c
  BY <1>2, <1>5, <1>7, <1>8 DEF JoinOf
<1>11. x = p
  <2>1. \A i \in 1..2 : i = 1 \/ i = 2
    OBVIOUS
  <2>2. \A i \in 1..Len(x) : x[i] = p[i]
    BY <1>2, <1>9, <2>1
  <2> QED
    BY <1>2, <1>9, <2>2, SeqSame
<1>12. y = t
  <2>1. \A i \in 1..3 : i = 1 \/ i = 2 \/ i = 3
    OBVIOUS
  <2>2. \A i \in 1..Len(y) : y[i] = t[i]
    BY <1>3, <1>10, <2>1
  <2> QED
    BY <1>3, <1>10, <2>2, SeqSame
<1> QED
  BY <1>1, <1>4, <1>6, <1>11, <1>12

(* and one with lengths, exponent and mantissa.                            *)
LEMMA OutOfLineSpells ==
    ASSUME NEW f, NEW sign, sign \subseteq {6}, NEW j \in 0..2, NEW x, NEW k \in 0..8, NEW man
    PROVE  \E e : Spells(OutOfLine(sign, j, x, k, man), e) /\ VfCode(f, e)
<1>1. PICK o : o = {7} \union sign \union Shl(Bits(j), 4, 8) \union Bits(k)
  OBVIOUS
<1>2. Bits(j) \subseteq 0..1 /\ Number(Bits(j)) = j
  <2>1. j \in 0..3 /\ j \in 0..20
    OBVIOUS
  <2> QED
    BY ONLY <2>1, NumbersAssumption
<1>3. Bits(k) \subseteq 0..3 /\ Number(Bits(k)) = k
  <2>1. k \in 0..15 /\ k \in 0..20
    OBVIOUS
  <2> QED
    BY ONLY <2>1, NumbersAssumption
<1>4. Bits(0) = {} /\ Number({}) = 0
  <2>1. 0 \in 0..20
    OBVIOUS
  <2>2. Bits(0) = {} /\ Number(Bits(0)) = 0
    BY ONLY <2>1, NumbersAssumption
  <2> QED
    BY <2>2
<1>5. Low(Shr(o, 4), 2) = Bits(j)
  <2>1. \A i \in o : i >= 4 /\ i - 4 \in 0..1 <=> i \in {4, 5} /\ i - 4 \in Bits(j)
    <3>1. Shl(Bits(j), 4, 8) = {i + 4 : i \in Bits(j)}
      <4>1. \A i \in Bits(j) : i + 4 \in 0..7
        BY <1>2
      <4> QED
        BY <4>1 DEF Shl
    <3>2. \A i \in Shl(Bits(j), 4, 8) : i \in {4, 5} /\ i - 4 \in Bits(j)
      BY <1>2, <3>1
    <3>3. \A i \in sign : i = 6
      OBVIOUS
    <3>4. \A i \in Bits(k) : i \in 0..3
      BY <1>3
    <3>5. \A i \in o : \/ i = 7 \/ i = 6 \/ i \in 0..3
                       \/ i \in {4, 5} /\ i - 4 \in Bits(j)
      BY <1>1, <3>2, <3>3, <3>4
    <3> QED
      BY <3>5
  <2>2. \A b \in Bits(j) : b + 4 \in o /\ b + 4 >= 4 /\ (b + 4) - 4 = b /\ b \in 0..1
    <3> TAKE b \in Bits(j)
    <3>1. b \in 0..1 /\ b + 4 \in 0..(8 - 1)
      BY <1>2
    <3>2. b + 4 \in Shl(Bits(j), 4, 8)
      BY <3>1 DEF Shl
    <3> QED
      BY <1>1, <3>1, <3>2
  <2>3. \A b : b \in Low(Shr(o, 4), 2) <=> b \in 0..1 /\ \E i \in o : i >= 4 /\ i - 4 = b
    <3>1. 0..(2 - 1) = 0..1
      OBVIOUS
    <3> QED
      BY <3>1 DEF Low, Shr
  <2> QED
    BY <2>1, <2>2, <2>3
<1>6. Low(o, 4) = Bits(k)
  <2>1. \A i \in Shl(Bits(j), 4, 8) : ~(i \in 0..3)
    <3>1. \A i \in Bits(j) : ~(i + 4 \in 0..3)
      BY <1>2
    <3> QED
      BY <3>1 DEF Shl
  <2>2. \A i \in sign : ~(i \in 0..3)
    OBVIOUS
  <2>3. ~(7 \in 0..3)
    OBVIOUS
  <2>4. o \intersect 0..3 = Bits(k)
    BY <1>1, <1>3, <2>1, <2>2, <2>3
  <2>5. Low(o, 4) = o \intersect 0..3
    BY DEF Low
  <2> QED
    BY <2>4, <2>5
<1>7. SizeIn(Bits(j)) = j /\ SizeIn(Bits(k)) = k
  BY <1>2, <1>3, <1>4 DEF SizeIn
<1>8. PICK a, b, c : a = <<o>> /\ b = LittleEndian(Signed(x), j) /\ c = LittleEndian(man, k)
  OBVIOUS
<1>9. /\ IsSeq(a) /\ Len(a) = 1 /\ a[1] = o
      /\ IsSeq(b) /\ Len(b) = j /\ IsSeq(c) /\ Len(c) = k
  <2>1. j \in Nat /\ k \in Nat
    OBVIOUS
  <2>2. IsSeq(b) /\ Len(b) = j
    BY <1>8, <2>1, EndianIs
  <2>3. IsSeq(c) /\ Len(c) = k
    BY <1>8, <2>1, EndianIs
  <2> QED
    BY <1>8, <2>2, <2>3, OneSeq
<1>10. PICK d, e : d = b \o c /\ e = a \o d
  OBVIOUS
<1>11. Spells(OutOfLine(sign, j, x, k, man), e)
  <2>1. Spells(Chunks(<<a>>), a) /\ Spells(Chunks(<<b>>), b) /\ Spells(Chunks(<<c>>), c)
    BY <1>9, SpellsOne
  <2>2. Spells(Then(Chunks(<<a>>), Then(Chunks(<<b>>), Chunks(<<c>>))), e)
    BY <1>10, <2>1, SpellsThen
  <2>3. Then(Chunks(<<b>>), Chunks(<<c>>)) = Chunks(<<b, c>>)
    BY TuplesJoined DEF Then, Chunks
  <2>4. Then(Chunks(<<a>>), Chunks(<<b, c>>)) = Chunks(<<a, b, c>>)
    BY TuplesJoined DEF Then, Chunks
  <2>5. OutOfLine(sign, j, x, k, man) = Chunks(<<a, b, c>>)
    BY <1>1, <1>8 DEF OutOfLine
  <2> QED
    BY <2>2, <2>3, <2>4, <2>5
<1>12. IsSeq(e) /\ Len(e) = 1 + j + k /\ e[1] = o
  <2>1. JoinOf(d, b, c)
    BY <1>9, <1>10, JoinIs
  <2>2. IsSeq(d) /\ Len(d) = j + k
    BY <1>9, <2>1 DEF JoinOf
  <2>3. JoinOf(e, a, d)
    BY <1>9, <1>10, <2>2, JoinIs
  <2>4. 1 \in 1..1 /\ 1 + (j + k) = 1 + j + k
    OBVIOUS
  <2> QED
    BY <1>9, <2>2, <2>3, <2>4 DEF JoinOf
<1>13. \A s : IsSeq(s) /\ Agrees(s, e) => Takes(s, VfRead(f, s), Len(e))
  <2>1. SizeIn(Low(Shr(e[1], 4), 2)) = j /\ SizeIn(Low(e[1], 4)) = k
    BY <1>5, <1>6, <1>7, <1>12
  <2>2. 7 \in e[1] /\ Len(e) >= 1 /\ j \in Nat /\ k \in Nat
    BY <1>1, <1>12
  <2> QED
    BY <1>12, <2>1, <2>2, VfTaken
<1> QED
  BY <1>11, <1>12, <1>13 DEF VfCode

(* A number shifted to the left stays within its width.                    *)
LEMMA ShlIs ==
    ASSUME NEW x, NEW k, NEW w \in Nat PROVE Shl(x, k, w) \subseteq 0..(w - 1)
BY DEF Shl

(* The mantissa of a fraction has no more bits than a word.                *)
LEMMA VfManIs ==
    ASSUME NEW w \in {32, 64}, NEW f, f.width = w,
           NEW frac, frac \subseteq 1..(w - 1)
    PROVE  /\ VfMan(f, frac) \subseteq 0..63
           /\ Shr(frac, Ctz(frac, f.width)) \subseteq 0..63
           /\ Clz(frac, f.width) \in 0..64
<1>1. PICK k : k = Ctz(frac, w)
  OBVIOUS
<1>2. w \in Nat /\ 63 \in Nat /\ frac \subseteq 0..63
  OBVIOUS
<1>3. k \in Nat /\ w - k \in 0..63
  <2>1. CASE frac = {}
    BY <1>1, <2>1 DEF Ctz
  <2>2. CASE frac # {}
    <3>1. PICK m : m = Min(frac)
      OBVIOUS
    <3>2. frac \in SUBSET Nat
      OBVIOUS
    <3>3. m \in frac
      BY <2>2, <3>1, <3>2, MinIs
    <3>4. k = m
      BY <1>1, <2>2, <3>1 DEF Ctz
    <3>5. m \in 1..(w - 1)
      BY <3>3
    <3> QED
      BY <3>4, <3>5
  <2> QED
    BY <2>1, <2>2
<1>4. Shr(frac, k) \subseteq 0..63
  BY <1>2, <1>3, ShrIs, ZenonT(40)
<1>5. VfMan(f, frac) = Shr(frac, k) \union {w - k}
  BY <1>1 DEF VfMan
<1>6. Clz(frac, w) \in 0..64
  <2>1. CASE frac = {}
    BY <2>1 DEF Clz
  <2>2. CASE frac # {}
    <3>1. w - 1 \in Nat /\ frac \subseteq 0..(w - 1)
      OBVIOUS
    <3>2. PICK m : m = Max(frac)
      OBVIOUS
    <3>3. m \in 0..(w - 1) /\ Clz(frac, w) = w - 1 - m
      BY <2>2, <3>1, <3>2, HighestBit
    <3> QED
      BY <3>3
  <2> QED
    BY <2>1, <2>2
<1>7. VfMan(f, frac) \subseteq 0..63
  BY <1>3, <1>4, <1>5
<1> QED
  BY <1>1, <1>4, <1>6, <1>7

(* A number with an exponent and a mantissa of their own.                  *)
LEMMA VfOutOfLineSpells ==
    ASSUME NEW f \in {F32, F64}, NEW sign, sign \subseteq {6}, NEW frac,
           frac \subseteq 1..(f.width - 1), NEW sexp \in (-Bias(f))..(Bias(f) + 1)
    PROVE  \E e : Spells(VfOutOfLine(f, sign, sexp, frac), e) /\ VfCode(f, e)
<1>1. PICK w, q : w = f.width /\ q = Bias(f)
  OBVIOUS
<1>2. w \in {32, 64} /\ q \in {127, 1023} /\ sexp \in (-q)..(q + 1) /\ frac \subseteq 1..(w - 1)
  BY <1>1, Fields
<1>3. PICK man, sub, lz : /\ man = VfMan(f, frac)
                          /\ sub = Shr(frac, Ctz(frac, f.width))
                          /\ lz = Clz(frac, f.width)
  OBVIOUS
<1>4. man \subseteq 0..63 /\ sub \subseteq 0..63 /\ lz \in 0..64
  <2>1. f.width = w /\ w \in {32, 64} /\ frac \subseteq 1..(w - 1)
    BY <1>1, <1>2
  <2>2. /\ VfMan(f, frac) \subseteq 0..63
        /\ Shr(frac, Ctz(frac, f.width)) \subseteq 0..63
        /\ Clz(frac, f.width) \in 0..64
    BY ONLY <2>1, VfManIs, ZenonT(40)
  <2> QED
    BY <1>3, <2>2
<1>5. ASSUME NEW x, x \subseteq 0..63 PROVE U64Length(x) \in 0..8
  <2>1. U64Length(x) \in 1..8
    BY <1>5, Lengths
  <2> QED
    BY <2>1
<1>6. ASSUME NEW j, NEW x, NEW k, NEW m, j \in 0..2, k \in 0..8
      PROVE  \E e : Spells(OutOfLine(sign, j, x, k, m), e) /\ VfCode(f, e)
  BY <1>6, OutOfLineSpells
<1>7. CASE sexp = -Bias(f)
  <2>1. PICK x : x = sexp - lz - 1
    OBVIOUS
  <2>2. x \in -1200..1200
    BY <1>2, <1>4, <2>1
  <2>3. S64Length(Signed(x)) \in 1..2
    BY <2>2, ShortExponent, SMTT(30)
  <2>4. S64Length(Signed(x)) \in 0..2
    BY <2>3
  <2>5. U64Length(sub) \in 0..8
    BY <1>4, <1>5
  <2>6. VfOutOfLine(f, sign, sexp, frac) = OutOfLine(sign, S64Length(Signed(x)), x, U64Length(sub), sub)
    BY <1>3, <1>7, <2>1 DEF VfOutOfLine
  <2> QED
    BY <1>6, <2>4, <2>6, <2>5
<1>8. sexp \in -1200..1200 /\ S64Length(Signed(sexp)) \in 0..2
  <2>1. sexp \in -1200..1200
    BY <1>2
  <2>2. S64Length(Signed(sexp)) \in 1..2
    BY <2>1, ShortExponent, SMTT(30)
  <2> QED
    BY <2>1, <2>2
<1>9. CASE sexp # -Bias(f) /\ frac = {}
  <2>1. VfOutOfLine(f, sign, sexp, frac) = OutOfLine(sign, S64Length(Signed(sexp)), sexp, 0, {})
    BY <1>9 DEF VfOutOfLine
  <2>2. 0 \in 0..8
    OBVIOUS
  <2> QED
    BY <1>6, <1>8, <2>1, <2>2
<1>10. CASE sexp # -Bias(f) /\ frac # {} /\ sexp \in -8..-1
  <2>1. VfOutOfLine(f, sign, sexp, frac) = VfFraction(f, sign, sexp, frac)
    BY <1>10 DEF VfOutOfLine
  <2>2. PICK unary : unary = Shl(man, -sexp - 1, f.width)
    OBVIOUS
  <2>3. unary \subseteq 0..63
    <3>1. unary = Shl(man, -sexp - 1, w) /\ w \in Nat
      BY <1>1, <1>2, <2>2
    <3>2. unary \subseteq 0..(w - 1)
      BY <3>1, ShlIs
    <3> QED
      BY <1>2, <3>2
  <2>4. \/ VfFraction(f, sign, sexp, frac) = OutOfLine(sign, S64Length(Signed(sexp)), sexp, U64Length(man), man)
        \/ VfFraction(f, sign, sexp, frac) = OutOfLine(sign, 0, 0, U64Length(unary), unary)
    BY <1>3, <2>2 DEF VfFraction
  <2>5. U64Length(man) \in 0..8
    BY <1>4, <1>5
  <2>6. U64Length(unary) \in 0..8
    BY <1>5, <2>3
  <2>7. 0 \in 0..2
    OBVIOUS
  <2> QED
    BY <1>6, <1>8, <2>1, <2>4, <2>5, <2>6, <2>7
<1>11. CASE sexp # -Bias(f) /\ frac # {} /\ ~(sexp \in -8..-1)
  <2>1. VfOutOfLine(f, sign, sexp, frac)
          = OutOfLine(sign, S64Length(Signed(sexp)), sexp, U64Length(man), man)
    BY <1>3, <1>11 DEF VfOutOfLine
  <2>2. U64Length(man) \in 0..8
    BY <1>4, <1>5
  <2> QED
    BY <1>6, <1>8, <2>1, <2>2
<1> QED
  BY <1>7, <1>9, <1>10, <1>11

(* Every float has a code of its own.                                      *)
LEMMA VfSpells ==
    ASSUME NEW f \in {F32, F64}, NEW v
    PROVE  \E e : Spells(VfWrite(f, v), e) /\ VfCode(f, e)
<1>1. PICK sign, sexp, frac : /\ sign = IF Sign(f, v) THEN {6} ELSE {}
                              /\ sexp = VfSexp(f, v)
                              /\ frac = VfFrac(f, v)
  OBVIOUS
<1>2. sign \subseteq {6}
  BY <1>1
<1>3. PICK w, q, x, m : w = f.width /\ q = Bias(f) /\ x = f.exp /\ m = f.mant
  OBVIOUS
<1>4. w \in {32, 64} /\ q \in {127, 1023} /\ x \in {8, 11}
  BY <1>3, Fields
<1>5. sexp \in (-q)..(q + 1)
  <2>1. PICK n : n = Exponent(f, v)
    OBVIOUS
  <2>2. n \in 0..(2 * q + 1)
    BY <1>3, <2>1, ExponentIs
  <2>3. sexp = n - q
    BY <1>1, <1>3, <2>1 DEF VfSexp
  <2> QED
    BY <1>4, <2>2, <2>3
<1>6. frac \subseteq 1..(w - 1)
  <2>1. PICK a : a = Mantissa(f, v)
    OBVIOUS
  <2>2. a \subseteq Nat
    BY <2>1 DEF Mantissa, Low
  <2>3. frac = {i + (x + 1) : i \in a} \intersect 0..(w - 1)
    BY <1>1, <1>3, <2>1 DEF VfFrac, Shl
  <2>4. \A i \in a : i + (x + 1) # 0
    BY <1>4, <2>2
  <2> QED
    BY <1>4, <2>3, <2>4
<1>7. ASSUME NEW o, o \subseteq 0..6, VfWrite(f, v) = Chunks(<< <<sign \union o>> >>)
      PROVE  \E e : Spells(VfWrite(f, v), e) /\ VfCode(f, e)
  <2>1. PICK u : u = sign \union o
    OBVIOUS
  <2>2. 7 \notin u
    BY <1>2, <1>7, <2>1
  <2>3. Spells(Chunks(<< <<u>> >>), <<u>>) /\ VfCode(f, <<u>>)
    BY <2>2, InlineSpells
  <2> QED
    BY <1>7, <2>1, <2>3
<1>8. TopNibble(f) = (w - 4)..(w - 1)
  BY <1>3 DEF TopNibble
<1>9. ASSUME NEW y, y \subseteq 0..(w - 1) PROVE Shr(y, w - 4) \subseteq 0..3
  <2>1. \A i \in y : i >= w - 4 => i - (w - 4) \in 0..3
    BY <1>4, <1>9
  <2> QED
    BY <2>1 DEF Shr
<1> DEFINE One == sexp = q + 1
           Two == sexp = -q /\ frac = {}
           Three == sexp \in 0..1 /\ frac \subseteq TopNibble(f)
           Four == sexp \in -4..-1 /\ Shr(frac, -sexp) \subseteq TopNibble(f)
<1>10. /\ One => ~Two /\ ~Three /\ ~Four
       /\ Two => ~Three /\ ~Four
       /\ Three => ~Four
  BY <1>4
<1>11. VfWrite(f, v) =
         CASE One -> Chunks(<< <<sign \union ({4, 5} \union (IF frac = {} THEN {} ELSE {3}))>> >>)
           [] Two -> Chunks(<< <<sign \union {}>> >>)
           [] Three -> Chunks(<< <<sign \union (Shl(Bits(sexp + 1), 4, 8) \union Shr(frac, f.width - 4))>> >>)
           [] Four -> Chunks(<< <<sign \union Shr({4} \union Shr(frac, f.width - 4), -sexp)>> >>)
           [] OTHER -> VfOutOfLine(f, sign, sexp, frac)
  BY <1>1, <1>3 DEF VfWrite
<1>12. CASE One
  <2>1. PICK o : o = {4, 5} \union (IF frac = {} THEN {} ELSE {3})
    OBVIOUS
  <2>2. o \subseteq 0..6
    BY <2>1
  <2> HIDE DEF One, Two, Three, Four
  <2>3. VfWrite(f, v) = Chunks(<< <<sign \union o>> >>)
    BY <1>10, <1>11, <1>12, <2>1
  <2> QED
    BY <1>7, <2>2, <2>3
<1>13. CASE Two
  <2>1. {} \subseteq 0..6
    OBVIOUS
  <2> HIDE DEF One, Two, Three, Four
  <2>2. VfWrite(f, v) = Chunks(<< <<sign \union {}>> >>)
    BY <1>10, <1>11, <1>13
  <2> QED
    BY <1>7, <2>1, <2>2
<1>14. CASE Three
  <2>1. PICK o : o = Shl(Bits(sexp + 1), 4, 8) \union Shr(frac, f.width - 4)
    OBVIOUS
  <2>2. o \subseteq 0..6
    <3>1. PICK i \in 1..2 : i = sexp + 1
      BY <1>14
    <3>2. Bits(i) \subseteq 0..1
      <4>1. i \in 0..3
        OBVIOUS
      <4> QED
        BY ONLY <4>1, NumbersAssumption
    <3>3. Shl(Bits(i), 4, 8) \subseteq 0..6
      <4>1. \A b \in Bits(i) : b + 4 \in 0..6
        BY <3>2
      <4> QED
        BY <4>1 DEF Shl
    <3>4. Shr(frac, w - 4) \subseteq 0..3
      <4>1. frac \subseteq 0..(w - 1)
        BY <1>4, <1>6
      <4> QED
        BY <1>9, <4>1
    <3>5. 0..3 \subseteq 0..6
      OBVIOUS
    <3> QED
      BY <1>3, <2>1, <3>1, <3>3, <3>4, <3>5
  <2> HIDE DEF One, Two, Three, Four
  <2>3. VfWrite(f, v) = Chunks(<< <<sign \union o>> >>)
    BY <1>10, <1>11, <1>14, <2>1
  <2> QED
    BY <1>7, <2>2, <2>3
<1>15. CASE Four
  <2>1. PICK o : o = Shr({4} \union Shr(frac, f.width - 4), -sexp)
    OBVIOUS
  <2>2. o \subseteq 0..6
    <3>1. PICK i \in 1..4 : i = -sexp
      <4>1. -sexp \in 1..4
        BY <1>15
      <4> QED
        BY <4>1
    <3>2. Shr(frac, w - 4) \subseteq 0..3
      <4>1. frac \subseteq 0..(w - 1)
        BY <1>4, <1>6
      <4> QED
        BY <1>9, <4>1
    <3>3. {4} \union Shr(frac, w - 4) \subseteq 0..6 /\ 6 \in Nat /\ i \in Nat
      BY <3>2
    <3>4. Shr({4} \union Shr(frac, w - 4), i) \subseteq 0..6
      BY <3>3, ShrIs
    <3> QED
      BY <1>3, <2>1, <3>1, <3>4
  <2> HIDE DEF One, Two, Three, Four
  <2>3. VfWrite(f, v) = Chunks(<< <<sign \union o>> >>)
    BY <1>10, <1>11, <1>15, <2>1
  <2> QED
    BY <1>7, <2>2, <2>3
<1>16. CASE ~One /\ ~Two /\ ~Three /\ ~Four
  <2>1. VfWrite(f, v) = VfOutOfLine(f, sign, sexp, frac)
    <3> HIDE DEF One, Two, Three, Four
    <3> QED
      BY <1>11, <1>16
  <2>2. frac \subseteq 1..(f.width - 1) /\ sexp \in (-Bias(f))..(Bias(f) + 1)
    BY <1>3, <1>5, <1>6
  <2> QED
    BY <1>2, <2>1, <2>2, VfOutOfLineSpells
<1> QED
  BY <1>12, <1>13, <1>14, <1>15, <1>16

(* The writes of vf128 numbers leave what their first octet announces.     *)
LEMMA VfLeaves ==
    ASSUME NEW v
    PROVE  Leaves("vf32", v, Vf32Write(v)) /\ Leaves("vf64", v, Vf64Write(v))
<1>1. F32 \in {F32, F64} /\ F64 \in {F32, F64}
  OBVIOUS
<1>2. PICK e : Spells(VfWrite(F32, v), e) /\ VfCode(F32, e)
  BY <1>1, VfSpells
<1>3. PICK d : Spells(VfWrite(F64, v), d) /\ VfCode(F64, d)
  BY <1>1, VfSpells
<1>4. /\ \A s : Got("vf32", v, s) = VfRead(F32, s)
      /\ \A s : Got("vf64", v, s) = VfRead(F64, s)
  BY DEF Got, Vf32Read, Vf64Read
<1>5. \A s : IsSeq(s) /\ Agrees(s, e) => Takes(s, Got("vf32", v, s), Len(e))
  BY <1>2, <1>4 DEF VfCode
<1>6. \A s : IsSeq(s) /\ Agrees(s, d) => Takes(s, Got("vf64", v, s), Len(d))
  BY <1>3, <1>4 DEF VfCode
<1>7. Leaves("vf32", v, VfWrite(F32, v))
  BY <1>2, <1>5, SpellsLeaves
<1>8. Leaves("vf64", v, VfWrite(F64, v))
  BY <1>3, <1>6, SpellsLeaves
<1> QED
  BY <1>7, <1>8 DEF Vf32Write, Vf64Write

-----------------------------------------------------------------------------
(* Vectors *)

(* A sequence of sequences.                                                *)
Items(q) == IsSeq(q) /\ \A i \in 1..Len(q) : IsSeq(q[i])

(* Items of the same size take as many times that size together, and each  *)
(* is where the sizes of those before it tell.                             *)
Parts(e, q, z) == \A i \in 1..Len(q) : SubSeq(e, (i - 1) * z + 1, i * z) = q[i]

(* The parts of sequences of one length are these.                         *)
LEMMA FlattenSized ==
    ASSUME NEW q, Items(q), NEW z \in {4, 8}, \A i \in 1..Len(q) : Len(q[i]) = z
    PROVE  /\ IsSeq(FlattenSeq(q)) /\ Len(FlattenSeq(q)) = Len(q) * z
           /\ Parts(FlattenSeq(q), q, z)
<1>1. PICK n : n = Len(q)
  OBVIOUS
<1>2. IsSeq(q) /\ n \in Nat /\ \A i \in 1..n : IsSeq(q[i]) /\ Len(q[i]) = z
  BY <1>1, SeqDomain DEF Items
<1>3. PICK f : Joins(f, q, n) /\ \A k \in 0..n : IsSeq(f[k])
  BY <1>2, JoinsExist
<1>4. FlattenSeq(q) = f[n]
  BY <1>1, <1>2, <1>3, FlattenAll
<1>5. Joined(f, q, n)
  BY <1>2, <1>3, JoinsHold
<1> DEFINE T == {k \in 0..n : Len(f[k]) = k * z}
<1>6. 0 \in T
  <2>1. f[0] = <<>> /\ Len(<<>>) = 0 /\ 0 * z = 0 /\ 0 \in 0..n
    BY <1>2, <1>3 DEF Joins
  <2> QED
    BY <2>1
<1>7. ASSUME NEW k \in 1..n, k - 1 \in T PROVE k \in T
  <2>1. Len(f[k]) = Len(f[k - 1]) + z
    BY <1>2, <1>5 DEF Joined
  <2>2. Len(f[k - 1]) = (k - 1) * z
    BY <1>7
  <2>3. (k - 1) * z + z = k * z /\ k \in 0..n
    BY <1>2
  <2> QED
    BY <2>1, <2>2, <2>3
<1>8. n \in T
  <2> HIDE DEF T
  <2>1. 0..n \subseteq T
    BY <1>2, <1>6, <1>7, Upwards
  <2> QED
    BY <1>2, <2>1
<1>9. Len(f[n]) = n * z /\ IsSeq(f[n])
  BY <1>2, <1>3, <1>8
<1>10. ASSUME NEW i \in 1..n PROVE SubSeq(f[n], (i - 1) * z + 1, i * z) = q[i]
  <2>1. i - 1 \in T
    <3> HIDE DEF T
    <3>1. 0..n \subseteq T
      BY <1>2, <1>6, <1>7, Upwards
    <3>2. i - 1 \in 0..n
      BY <1>2
    <3> QED
      BY <3>1, <3>2
  <2>2. PICK j, k : j = (i - 1) * z + 1 /\ k = i * z
    OBVIOUS
  <2>3. j \in Int /\ k \in Int /\ k - j + 1 = z /\ j <= k
    BY <1>2, <2>2
  <2>4. PICK e : e = SubSeq(f[n], j, k)
    OBVIOUS
  <2>5. IsSeq(e) /\ Len(e) = z /\ \A x \in 1..z : e[x] = f[n][j + x - 1]
    <3>1. /\ IsSeq(SubSeq(f[n], j, k))
          /\ Len(SubSeq(f[n], j, k)) = IF j <= k THEN k - j + 1 ELSE 0
          /\ \A x \in 1..(k - j + 1) : SubSeq(f[n], j, k)[x] = f[n][j + x - 1]
      BY ONLY <2>3, SeqPart
    <3> QED
      BY <2>3, <2>4, <3>1
  <2>6. ASSUME NEW x \in 1..z PROVE e[x] = q[i][x]
    <3>1. Len(f[i - 1]) = (i - 1) * z
      BY <2>1
    <3>2. f[n][Len(f[i - 1]) + x] = q[i][x]
      BY <1>2, <1>5 DEF Joined
    <3>3. j + x - 1 = (i - 1) * z + x
      BY <2>2
    <3> QED
      BY <2>5, <3>1, <3>2, <3>3
  <2>7. e = q[i]
    <3>1. IsSeq(q[i]) /\ Len(q[i]) = z
      BY <1>2
    <3> QED
      BY <2>5, <2>6, <3>1, SeqSame
  <2> QED
    BY <2>2, <2>4, <2>7
<1> QED
  BY <1>1, <1>4, <1>9, <1>10 DEF Parts

(* The joined chunks of several writes hold what each of them spells.      *)
LEMMA FlattenTwice ==
    ASSUME NEW q, Items(q), \A i \in 1..Len(q) : Items(q[i]),
           NEW p, Items(p), Len(p) = Len(q), \A i \in 1..Len(q) : p[i] = FlattenSeq(q[i])
    PROVE  Items(FlattenSeq(q)) /\ FlattenSeq(FlattenSeq(q)) = FlattenSeq(p)
<1>1. PICK n : n = Len(q)
  OBVIOUS
<1>2. IsSeq(q) /\ IsSeq(p) /\ n \in Nat /\ Len(p) = n
  BY <1>1, SeqDomain DEF Items
<1>3. \A i \in 1..n : IsSeq(q[i]) /\ IsSeq(p[i])
  BY <1>1 DEF Items
<1>4. PICK f : Joins(f, q, n) /\ \A k \in 0..n : IsSeq(f[k])
  BY <1>2, <1>3, JoinsExist
<1>5. PICK g : Joins(g, p, n) /\ \A k \in 0..n : IsSeq(g[k])
  BY <1>2, <1>3, JoinsExist
<1>6. FlattenSeq(q) = f[n] /\ FlattenSeq(p) = g[n]
  BY <1>1, <1>2, <1>3, <1>4, <1>5, FlattenAll
<1> DEFINE T == {k \in 0..n : Items(f[k]) /\ FlattenSeq(f[k]) = g[k]}
<1>7. 0 \in T
  <2>1. f[0] = <<>> /\ g[0] = <<>>
    BY <1>4, <1>5 DEF Joins
  <2>2. Items(<<>>)
    BY EmptyIsSeq DEF Items
  <2>3. FlattenSeq(<<>>) = <<>>
    BY RejectedIs DEF Rejected
  <2> QED
    BY <1>2, <2>1, <2>2, <2>3
<1>8. ASSUME NEW k \in 1..n, k - 1 \in T PROVE k \in T
  <2>1. PICK a, b, c : a = f[k - 1] /\ b = q[k] /\ c = f[k]
    OBVIOUS
  <2>2. c = a \o b /\ g[k] = g[k - 1] \o p[k]
    BY <1>4, <1>5, <2>1 DEF Joins
  <2>3. Items(a) /\ FlattenSeq(a) = g[k - 1]
    BY <1>8, <2>1
  <2>4. Items(b) /\ p[k] = FlattenSeq(b)
    BY <1>1, <2>1
  <2>5. FlattenSeq(a \o b) = FlattenSeq(a) \o FlattenSeq(b)
    <3>1. IsSeq(a) /\ IsSeq(b) /\ \A i \in 1..Len(a) : IsSeq(a[i])
      BY <2>3, <2>4 DEF Items
    <3>2. \A i \in 1..Len(b) : IsSeq(b[i])
      BY <2>4 DEF Items
    <3> QED
      BY <3>1, <3>2, FlattenBoth
  <2>6. Items(c)
    <3>1. IsSeq(a) /\ IsSeq(b) /\ Len(a) \in Nat /\ Len(b) \in Nat
      BY <2>3, <2>4, SeqDomain DEF Items
    <3>2. JoinOf(c, a, b)
      BY <2>2, <3>1, JoinIs
    <3> SUFFICES ASSUME NEW i \in 1..Len(c) PROVE IsSeq(c[i])
      BY <3>2 DEF Items, JoinOf
    <3>3. CASE i \in 1..Len(a)
      BY <2>3, <3>2, <3>3 DEF Items, JoinOf
    <3>4. CASE i \notin 1..Len(a)
      <4>1. PICK j : j = i - Len(a)
        OBVIOUS
      <4>2. j \in 1..Len(b) /\ i = Len(a) + j
        BY <3>1, <3>2, <3>4, <4>1 DEF JoinOf
      <4> QED
        BY <2>4, <3>2, <4>2 DEF Items, JoinOf
    <3> QED
      BY <3>3, <3>4
  <2>7. FlattenSeq(f[k]) = g[k]
    BY <2>1, <2>2, <2>3, <2>4, <2>5
  <2>8. k \in 0..n
    BY <1>2
  <2> QED
    BY <2>1, <2>6, <2>7, <2>8
<1>9. n \in T
  <2> HIDE DEF T
  <2>1. 0..n \subseteq T
    BY <1>2, <1>7, <1>8, Upwards
  <2> QED
    BY <1>2, <2>1
<1> QED
  BY <1>6, <1>9

(* The one chunk of a vector has as many octets as its numbers need.       *)
LEMMA IeeeVecSpells ==
    ASSUME NEW f \in {F32, F64}, NEW v, IsSeq(v)
    PROVE  LET w == IeeeVecWrite(f, v)
           IN  /\ w.ok = (v = <<>> \/ f = F32) /\ IsWrite(w)
               /\ IsSeq(FlattenSeq(w.chunks))
               /\ Len(FlattenSeq(w.chunks)) = Len(v) * (f.width \div 8)
<1>1. PICK n, z : n = Len(v) /\ z = f.width \div 8
  OBVIOUS
<1>2. n \in Nat /\ DOMAIN v = 1..n /\ z \in {4, 8} /\ z \in Nat
  BY <1>1, SeqDomain, Fields
<1>3. PICK q : q = [i \in DOMAIN v |-> LittleEndian(v[i], z)]
  OBVIOUS
<1>4. IsSeq(q) /\ Len(q) = n /\ \A i \in 1..n : q[i] = LittleEndian(v[i], z)
  <2>1. q = [i \in 1..n |-> q[i]]
    BY <1>2, <1>3
  <2>2. IsSeq(q) /\ Len(q) = n
    BY <1>2, <2>1, SeqMade
  <2> QED
    BY <1>2, <1>3, <2>2
<1>5. \A i \in 1..n : IsSeq(q[i]) /\ Len(q[i]) = z
  BY <1>2, <1>4, EndianIs
<1>6. Items(q) /\ \A i \in 1..Len(q) : Len(q[i]) = z
  BY <1>4, <1>5 DEF Items
<1>7. PICK e : e = FlattenSeq(q)
  OBVIOUS
<1>8. IsSeq(e) /\ Len(e) = n * z
  BY <1>2, <1>4, <1>6, <1>7, FlattenSized
<1>9. PICK w : w = IeeeVecWrite(f, v)
  OBVIOUS
<1>10. w = [ok |-> v = <<>> \/ f = F32, chunks |-> <<e>>]
  BY <1>1, <1>3, <1>7, <1>9 DEF IeeeVecWrite
<1>11. w.ok = (v = <<>> \/ f = F32) /\ w.chunks = <<e>>
  BY <1>10
<1>12. Spells(Chunks(<<e>>), e)
  BY <1>8, SpellsOne
<1>13. IsWrite(w) /\ FlattenSeq(w.chunks) = e
  BY <1>11, <1>12 DEF Spells, Chunks, IsWrite
<1> QED
  BY <1>1, <1>8, <1>9, <1>11, <1>13

(* The write of a vector of floats leaves all of them; that of a vector of *)
(* doubles reports an error, as its reader will.                           *)
LEMMA IeeeVecLeaves ==
    ASSUME NEW v, IsSeq(v)
    PROVE  /\ Leaves("ieee32vec", v, Ieee32VecWrite(v))
           /\ Leaves("ieee64vec", v, Ieee64VecWrite(v))
<1>1. F32 \in {F32, F64} /\ F64 \in {F32, F64} /\ F32 # F64 /\ Len(v) \in Nat
  BY Fields, SeqDomain
<1>2. PICK w, x, n : w = IeeeVecWrite(F32, v) /\ x = IeeeVecWrite(F64, v) /\ n = Len(v)
  OBVIOUS
<1>3. PICK d, e : d = FlattenSeq(w.chunks) /\ e = FlattenSeq(x.chunks)
  OBVIOUS
<1>4. w.ok = TRUE /\ IsWrite(w) /\ IsSeq(d) /\ Len(d) = n * (F32.width \div 8)
  BY <1>1, <1>2, <1>3, IeeeVecSpells
<1>5. /\ x.ok = (v = <<>>) /\ IsWrite(x) /\ IsSeq(e)
      /\ Len(e) = n * (F64.width \div 8)
  BY <1>1, <1>2, <1>3, IeeeVecSpells
<1>6. /\ \A s : Got("ieee32vec", v, s) = IeeeVecRead(F32, s, n)
      /\ \A s : Got("ieee64vec", v, s) = IeeeVecRead(F64, s, n)
  BY <1>2 DEF Got, Ieee32VecRead, Ieee64VecRead
<1>7. \A s : IsSeq(s) => Takes(s, IeeeVecRead(F32, s, n), Len(d))
  BY <1>1, <1>2, <1>4, IeeeTaken
<1>8. \A s : IsSeq(s) => Takes(s, IeeeVecRead(F64, s, n), Len(e))
  BY <1>1, <1>2, <1>5, IeeeTaken
<1>9. Leaves("ieee32vec", v, w)
  <2>1. Spells(w, d)
    BY <1>3, <1>4 DEF Spells
  <2>2. \A s : IsSeq(s) /\ Agrees(s, d) => Takes(s, Got("ieee32vec", v, s), Len(d))
    BY <1>6, <1>7
  <2> QED
    BY <2>1, <2>2, SpellsLeaves
<1>10. Leaves("ieee64vec", v, x)
  <2>1. CASE v = <<>>
    <3>1. Spells(x, e)
      BY <1>3, <1>5, <2>1 DEF Spells
    <3>2. \A s : IsSeq(s) /\ Agrees(s, e) => Takes(s, Got("ieee64vec", v, s), Len(e))
      BY <1>6, <1>8
    <3> QED
      BY <3>1, <3>2, SpellsLeaves
  <2>2. CASE v # <<>>
    <3>1. n > 0 /\ n \in Nat
      BY <1>1, <1>2, <2>2, EmptyIsSeq
    <3>2. \A s : IsSeq(s) => ~IeeeVecRead(F64, s, n).ok
      BY <1>1, <3>1, IeeeTaken
    <3>3. x.ok = FALSE /\ IsWrite(x) /\ IsSeq(FlattenSeq(x.chunks))
      BY <1>3, <1>5, <2>2
    <3>4. \A s : IsSeq(s) => ~Got("ieee64vec", v, s).ok
      BY <1>6, <3>2
    <3> QED
      BY <3>3, <3>4, FailsLeaves
  <2> QED
    BY <2>1, <2>2
<1> QED
  BY <1>2, <1>9, <1>10 DEF Ieee32VecWrite, Ieee64VecWrite

(* The codes of the numbers of a vector follow each other.                 *)
LEMMA VfVecSpells ==
    ASSUME NEW f \in {F32, F64}, NEW v, IsSeq(v)
    PROVE  \E e : /\ Spells(VfVecWrite(f, v), e)
                  /\ \A s : IsSeq(s) /\ Agrees(s, e) => Takes(s, VfVecRead(f, s, Len(v)), Len(e))
<1>1. PICK n : n = Len(v)
  OBVIOUS
<1>2. n \in Nat /\ DOMAIN v = 1..n
  BY <1>1, SeqDomain
<1>3. \A i \in 1..n : \E e : Spells(VfWrite(f, v[i]), e) /\ VfCode(f, e)
  BY VfSpells
<1>4. PICK p : p = [i \in 1..n |-> CHOOSE e : Spells(VfWrite(f, v[i]), e) /\ VfCode(f, e)]
  OBVIOUS
<1>5. \A i \in 1..n : Spells(VfWrite(f, v[i]), p[i]) /\ VfCode(f, p[i])
  BY <1>3, <1>4
<1>6. PICK q : q = [i \in DOMAIN v |-> VfWrite(f, v[i]).chunks]
  OBVIOUS
<1>7. IsSeq(p) /\ Len(p) = n
  <2>1. p = [i \in 1..n |-> p[i]]
    BY <1>4
  <2> QED
    BY <1>2, <2>1, SeqMade
<1>8. IsSeq(q) /\ Len(q) = n /\ \A i \in 1..n : q[i] = VfWrite(f, v[i]).chunks
  <2>1. q = [i \in 1..n |-> q[i]]
    BY <1>2, <1>6
  <2>2. IsSeq(q) /\ Len(q) = n
    BY <1>2, <2>1, SeqMade
  <2> QED
    BY <1>2, <1>6, <2>2
<1>9. \A i \in 1..n : Items(q[i]) /\ IsSeq(p[i]) /\ p[i] = FlattenSeq(q[i])
  BY <1>5, <1>8 DEF Spells, IsWrite, Items
<1>10. Items(q) /\ Items(p)
  BY <1>7, <1>8, <1>9 DEF Items
<1>11. PICK w, d, e : w = VfVecWrite(f, v) /\ d = FlattenSeq(q) /\ e = FlattenSeq(p)
  OBVIOUS
<1>12. Items(d) /\ FlattenSeq(d) = e
  BY <1>7, <1>8, <1>9, <1>10, <1>11, FlattenTwice
<1>13. IsSeq(e)
  <2>1. IsSeq(p) /\ \A i \in DOMAIN p : IsSeq(p[i])
    BY <1>7, <1>9, SeqDomain
  <2> QED
    BY <1>11, <2>1, FlattenIsSeq
<1>14. w.ok = TRUE /\ w.chunks = d
  <2>1. \A i \in DOMAIN v : VfWrite(f, v[i]).ok
    BY <1>2, <1>5 DEF Spells
  <2> QED
    BY <1>6, <1>11, <2>1 DEF VfVecWrite
<1>15. Spells(w, e)
  BY <1>12, <1>13, <1>14 DEF Spells, IsWrite, Items
<1>16. \A s : IsSeq(s) /\ Agrees(s, e) => Takes(s, VfVecRead(f, s, n), Len(e))
  <2>1. \A i \in 1..Len(p) : VfCode(f, p[i])
    BY <1>5, <1>7
  <2> QED
    BY <1>7, <1>11, <2>1, VfVecTaken
<1> QED
  BY <1>1, <1>11, <1>15, <1>16

(* The writes of vectors of vf128 numbers leave all of them.               *)
LEMMA VfVecLeaves ==
    ASSUME NEW v, IsSeq(v)
    PROVE  Leaves("vf32vec", v, Vf32VecWrite(v)) /\ Leaves("vf64vec", v, Vf64VecWrite(v))
<1>1. F32 \in {F32, F64} /\ F64 \in {F32, F64}
  OBVIOUS
<1>2. PICK d : /\ Spells(VfVecWrite(F32, v), d)
               /\ \A s : IsSeq(s) /\ Agrees(s, d) => Takes(s, VfVecRead(F32, s, Len(v)), Len(d))
  BY <1>1, VfVecSpells
<1>3. PICK e : /\ Spells(VfVecWrite(F64, v), e)
               /\ \A s : IsSeq(s) /\ Agrees(s, e) => Takes(s, VfVecRead(F64, s, Len(v)), Len(e))
  BY <1>1, VfVecSpells
<1>4. /\ \A s : Got("vf32vec", v, s) = VfVecRead(F32, s, Len(v))
      /\ \A s : Got("vf64vec", v, s) = VfVecRead(F64, s, Len(v))
  BY DEF Got, Vf32VecRead, Vf64VecRead
<1>5. \A s : IsSeq(s) /\ Agrees(s, d) => Takes(s, Got("vf32vec", v, s), Len(d))
  BY <1>2, <1>4
<1>6. \A s : IsSeq(s) /\ Agrees(s, e) => Takes(s, Got("vf64vec", v, s), Len(e))
  BY <1>3, <1>4
<1>7. Leaves("vf32vec", v, VfVecWrite(F32, v))
  BY <1>2, <1>5, SpellsLeaves
<1>8. Leaves("vf64vec", v, VfVecWrite(F64, v))
  BY <1>3, <1>6, SpellsLeaves
<1> QED
  BY <1>7, <1>8 DEF Vf32VecWrite, Vf64VecWrite

-----------------------------------------------------------------------------
(* Words as sets of bits *)

(* The bits of words that have been shifted and masked.                    *)
LEMMA ShlHas ==
    ASSUME NEW x, x \subseteq Int, NEW n \in Int, NEW w \in Int
    PROVE  \A i : i \in Shl(x, n, w) <=> i \in 0..(w - 1) /\ i - n \in x
<1> TAKE i
<1>1. Shl(x, n, w) = {j + n : j \in x} \intersect 0..(w - 1)
  BY DEF Shl
<1>2. ASSUME i \in 0..(w - 1), i - n \in x PROVE i \in {j + n : j \in x}
  <2>1. i = (i - n) + n
    BY <1>2
  <2> QED
    BY <1>2, <2>1
<1>3. ASSUME i \in {j + n : j \in x} PROVE i - n \in x
  <2>1. PICK j \in x : i = j + n
    BY <1>3
  <2>2. i - n = j
    BY <2>1
  <2> QED
    BY <2>2
<1> QED
  BY <1>1, <1>2, <1>3

(* A shift to the right moves each bit down.                               *)
LEMMA ShrHas ==
    ASSUME NEW x, x \subseteq Int, NEW n \in Int
    PROVE  \A i : i \in Shr(x, n) <=> i \in Nat /\ i + n \in x
<1> TAKE i
<1>1. ASSUME i \in Nat, i + n \in x PROVE i \in Shr(x, n)
  <2>1. i + n >= n /\ i = (i + n) - n
    BY <1>1
  <2>2. i + n \in {j \in x : j >= n}
    BY <1>1, <2>1
  <2> QED
    BY <2>1, <2>2 DEF Shr
<1>2. ASSUME i \in Shr(x, n) PROVE i \in Nat /\ i + n \in x
  <2>1. PICK j \in x : j >= n /\ i = j - n
    BY <1>2 DEF Shr
  <2>2. i + n = j /\ i \in Nat
    BY <2>1
  <2> QED
    BY <2>2
<1> QED
  BY <1>1, <1>2

(* The low bits are those below the mask.                                  *)
LEMMA LowHas ==
    ASSUME NEW x, NEW n PROVE \A i : i \in Low(x, n) <=> i \in x /\ i \in 0..(n - 1)
  BY DEF Low

(* A slice of a word in its place.                                         *)
LEMMA SliceIs ==
    ASSUME NEW x, x \subseteq Int, NEW m \in Nat, NEW z \in Nat
    PROVE  \A i : i \in Shl(Low(Shr(x, m), z), m, 64)
                    <=> i \in x /\ i \in m..(m + z - 1) /\ i \in 0..63
<1> TAKE i
<1>1. PICK y, u : y = Shr(x, m) /\ u = Low(y, z)
  OBVIOUS
<1>2. \A j : j \in y <=> j \in Nat /\ j + m \in x
  <2>1. m \in Int
    OBVIOUS
  <2> QED
    BY <1>1, <2>1, ShrHas
<1>3. \A j : j \in u <=> j \in y /\ j \in 0..(z - 1)
  BY <1>1, LowHas
<1>4. u \subseteq Int
  BY <1>2, <1>3
<1>5. i \in Shl(u, m, 64) <=> i \in 0..63 /\ i - m \in u
  <2>1. m \in Int /\ 64 \in Int
    OBVIOUS
  <2>2. \A k : k \in Shl(u, m, 64) <=> k \in 0..(64 - 1) /\ k - m \in u
    BY ONLY <1>4, <2>1, ShlHas, Zenon
  <2> QED
    BY <2>2
<1>6. ASSUME i \in 0..63 PROVE i - m \in u <=> i \in x /\ i \in m..(m + z - 1)
  <2>1. i - m + m = i /\ (i - m \in 0..(z - 1) <=> i \in m..(m + z - 1))
    BY <1>6
  <2>2. i \in m..(m + z - 1) => i - m \in Nat
    BY <1>6
  <2> QED
    BY <1>2, <1>3, <2>1, <2>2
<1> QED
  BY <1>1, <1>5, <1>6

(* The slices p of a word, of z bits each; g[k] tells which the k-th is.   *)
Places(g, n) ==
    /\ \A k \in 1..n : g[k] \in 0..(n - 1)
    /\ \A j \in 0..(n - 1) : \E k \in 1..n : g[k] = j
Slices(p, x, z, g, n) == \A k \in 1..n : p[k] = Low(Shr(x, z * g[k]), z)
Gathered(p, z, g, n) == UNION {Shl(p[k], z * g[k], 64) : k \in 1..n}

(* Slices are gathered from either end.                                    *)
LEMMA PlacesAre ==
    ASSUME NEW n \in 0..8
    PROVE  Places([k \in 1..n |-> k - 1], n) /\ Places([k \in 1..n |-> n - k], n)
<1>1. PICK g, h : g = [k \in 1..n |-> k - 1] /\ h = [k \in 1..n |-> n - k]
  OBVIOUS
<1>2. \A k \in 1..n : g[k] = k - 1 /\ g[k] \in 0..(n - 1) /\ h[k] = n - k /\ h[k] \in 0..(n - 1)
  BY <1>1
<1>3. ASSUME NEW j \in 0..(n - 1)
      PROVE  (\E k \in 1..n : g[k] = j) /\ (\E k \in 1..n : h[k] = j)
  <2>1. j + 1 \in 1..n /\ j + 1 - 1 = j /\ n - j \in 1..n /\ n - (n - j) = j
    OBVIOUS
  <2>2. g[j + 1] = j /\ h[n - j] = j
    BY <1>2, <2>1
  <2> QED
    BY <2>1, <2>2
<1> QED
  BY <1>1, <1>2, <1>3 DEF Places

(* The slices of a word, each in its place, are its low end.               *)
LEMMA Sliced ==
    ASSUME NEW z \in {7, 8}, NEW n \in 0..8, NEW x, x \subseteq Int,
           NEW g, Places(g, n), NEW p, Slices(p, x, z, g, n)
    PROVE  Gathered(p, z, g, n) = x \intersect 0..(z * n - 1)
<1>1. /\ \A k \in 1..n : g[k] \in 0..(n - 1) /\ p[k] = Low(Shr(x, z * g[k]), z)
      /\ \A j \in 0..(n - 1) : \E k \in 1..n : g[k] = j
  BY DEF Places, Slices
<1>2. ASSUME NEW k \in 1..n, NEW i
      PROVE  i \in Shl(p[k], z * g[k], 64)
                <=> i \in x /\ i \in (z * g[k])..(z * g[k] + z - 1) /\ i \in 0..63
  <2>1. PICK m : m = z * g[k]
    OBVIOUS
  <2>2. m \in Nat /\ z \in Nat
    <3>1. g[k] \in Nat
      BY <1>1
    <3>2. CASE z = 7
      BY <2>1, <3>1, <3>2
    <3>3. CASE z = 8
      BY <2>1, <3>1, <3>3
    <3> QED
      BY <3>2, <3>3
  <2>3. \A j : j \in Shl(Low(Shr(x, m), z), m, 64)
                 <=> j \in x /\ j \in m..(m + z - 1) /\ j \in 0..63
    BY ONLY x \subseteq Int, <2>2, SliceIs
  <2>4. p[k] = Low(Shr(x, m), z)
    BY <1>1, <2>1
  <2> QED
    BY <2>1, <2>3, <2>4
<1>3. ASSUME NEW i \in 0..(z * n - 1)
      PROVE  \E j \in 0..(n - 1) : i \in (z * j)..(z * j + z - 1) /\ i \in 0..63
  <2>1. CASE z = 7
    <3>1. i \in 0..(7 * n - 1)
      BY <2>1
    <3>2. i \div 7 \in 0..(n - 1) /\ i \in (7 * (i \div 7))..(7 * (i \div 7) + 7 - 1) /\ i \in 0..63
      BY <3>1
    <3> QED
      BY <2>1, <3>2
  <2>2. CASE z = 8
    <3>1. i \in 0..(8 * n - 1)
      BY <2>2
    <3>2. i \div 8 \in 0..(n - 1) /\ i \in (8 * (i \div 8))..(8 * (i \div 8) + 8 - 1) /\ i \in 0..63
      BY <3>1
    <3> QED
      BY <2>2, <3>2
  <2> QED
    BY <2>1, <2>2
<1>4. ASSUME NEW j \in 0..(n - 1), NEW i \in (z * j)..(z * j + z - 1) PROVE i \in 0..(z * n - 1)
  <2>1. CASE z = 7
    BY <1>4, <2>1
  <2>2. CASE z = 8
    BY <1>4, <2>2
  <2> QED
    BY <2>1, <2>2
<1>5. ASSUME NEW i \in x, i \in 0..(z * n - 1) PROVE \E k \in 1..n : i \in Shl(p[k], z * g[k], 64)
  <2>1. PICK j \in 0..(n - 1) : i \in (z * j)..(z * j + z - 1) /\ i \in 0..63
    BY <1>3, <1>5
  <2>2. PICK k \in 1..n : g[k] = j
    BY <1>1
  <2>3. i \in Shl(p[k], z * g[k], 64)
    BY <1>2, <2>1, <2>2
  <2> QED
    BY <2>3
<1>6. ASSUME NEW i, NEW k \in 1..n, i \in Shl(p[k], z * g[k], 64) PROVE i \in x /\ i \in 0..(z * n - 1)
  <2>1. i \in x /\ i \in (z * g[k])..(z * g[k] + z - 1)
    BY <1>2, <1>6
  <2>2. PICK j \in 0..(n - 1) : j = g[k]
    BY <1>1
  <2> QED
    BY <1>4, <2>1, <2>2
<1>7. ASSUME NEW i
      PROVE  i \in UNION {Shl(p[k], z * g[k], 64) : k \in 1..n} <=> i \in x /\ i \in 0..(z * n - 1)
  <2>1. i \in UNION {Shl(p[k], z * g[k], 64) : k \in 1..n}
             <=> \E k \in 1..n : i \in Shl(p[k], z * g[k], 64)
    OBVIOUS
  <2> QED
    BY <1>5, <1>6, <2>1
<1> QED
  BY <1>7 DEF Gathered

(* The octets of a word in either order are its low end.                   *)
LEMMA OctetsJoined ==
    ASSUME NEW n \in 0..8, NEW x, x \subseteq Int
    PROVE  /\ FromLittleEndian(LittleEndian(x, n)) = x \intersect 0..(8 * n - 1)
           /\ FromBigEndian(BigEndian(x, n)) = x \intersect 0..(8 * n - 1)
<1>1. PICK g, h, p, q : /\ g = [k \in 1..n |-> k - 1] /\ p = LittleEndian(x, n)
                        /\ h = [k \in 1..n |-> n - k] /\ q = BigEndian(x, n)
  OBVIOUS
<1>2. Places(g, n) /\ Places(h, n)
  BY <1>1, PlacesAre
<1>3. \A k \in 1..n : g[k] = k - 1 /\ h[k] = n - k
  BY <1>1
<1>4. DOMAIN p = 1..n /\ DOMAIN q = 1..n /\ Len(q) = n
  <2>1. n \in Nat
    OBVIOUS
  <2> QED
    BY <1>1, <2>1, EndianIs DEF LittleEndian, BigEndian
<1>5. Slices(p, x, 8, g, n) /\ Slices(q, x, 8, h, n)
  BY <1>1, <1>3 DEF Slices, LittleEndian, BigEndian, Octet
<1>6. 8 \in {7, 8}
  OBVIOUS
<1>7. Gathered(p, 8, g, n) = x \intersect 0..(8 * n - 1)
  BY ONLY n \in 0..8, x \subseteq Int, <1>2, <1>5, <1>6, Sliced
<1>8. Gathered(q, 8, h, n) = x \intersect 0..(8 * n - 1)
  BY ONLY n \in 0..8, x \subseteq Int, <1>2, <1>5, <1>6, Sliced
<1>9. Gathered(p, 8, g, n) = FromLittleEndian(p)
  <2>1. \A k \in 1..n : Shl(p[k], 8 * (k - 1), 64) = Shl(p[k], 8 * g[k], 64)
    BY <1>3
  <2>2. {Shl(p[k], 8 * (k - 1), 64) : k \in DOMAIN p} = {Shl(p[k], 8 * g[k], 64) : k \in 1..n}
    BY <1>4, <2>1
  <2> QED
    BY <2>2 DEF Gathered, FromLittleEndian
<1>10. Gathered(q, 8, h, n) = FromBigEndian(q)
  <2>1. \A k \in 1..n : Len(q) - k = h[k]
    BY <1>3, <1>4
  <2>2. {Shl(q[k], 8 * (Len(q) - k), 64) : k \in DOMAIN q} = {Shl(q[k], 8 * h[k], 64) : k \in 1..n}
    BY <1>4, <2>1
  <2> QED
    BY <2>2 DEF Gathered, FromBigEndian
<1> QED
  BY <1>1, <1>7, <1>8, <1>9, <1>10

(* The groups of seven bits in s are those of a word, from the low end or  *)
(* from the high end.                                                      *)
UpFrom(s, x, n) == \A k \in 1..n : s[k] \ {7} = Group(x, k - 1)
DownFrom(s, x, n) == \A k \in 1..n : s[k] \ {7} = Group(x, n - k)
UpTo(s, n) == UNION {Shl(s[k] \ {7}, 7 * (k - 1), 64) : k \in 1..n}
DownTo(s, n) == UNION {Shl(s[k] \ {7}, 7 * (n - k), 64) : k \in 1..n}

(* Together they are the word.                                             *)
LEMMA GroupsJoined ==
    ASSUME NEW n \in 1..8, NEW x, x \subseteq 0..(7 * n - 1), NEW s
    PROVE  (UpFrom(s, x, n) => UpTo(s, n) = x) /\ (DownFrom(s, x, n) => DownTo(s, n) = x)
<1>1. PICK g, h, p : /\ g = [k \in 1..n |-> k - 1] /\ h = [k \in 1..n |-> n - k]
                     /\ p = [k \in 1..n |-> s[k] \ {7}]
  OBVIOUS
<1>2. n \in 0..8 /\ 7 \in {7, 8}
  OBVIOUS
<1>3. x \subseteq Int /\ x \intersect 0..(7 * n - 1) = x
  <2>1. PICK m : m = 7 * n - 1
    OBVIOUS
  <2>2. \A i \in x : i \in 0..m /\ i \in Int
    BY <2>1
  <2>3. x \subseteq Int /\ x \intersect 0..m = x
    BY <2>2
  <2> QED
    BY <2>1, <2>3
<1>4. Places(g, n) /\ Places(h, n)
  BY <1>1, <1>2, PlacesAre
<1>5. \A k \in 1..n : g[k] = k - 1 /\ h[k] = n - k /\ p[k] = s[k] \ {7}
  BY <1>1
<1>6. ASSUME UpFrom(s, x, n) PROVE UpTo(s, n) = x
  <2>1. Slices(p, x, 7, g, n)
    BY <1>5, <1>6 DEF Slices, Group, UpFrom
  <2>2. Gathered(p, 7, g, n) = x \intersect 0..(7 * n - 1)
    BY ONLY <1>2, <1>3, <1>4, <2>1, Sliced
  <2>3. Gathered(p, 7, g, n) = UpTo(s, n)
    <3>1. \A k \in 1..n : Shl(p[k], 7 * g[k], 64) = Shl(s[k] \ {7}, 7 * (k - 1), 64)
      BY <1>5
    <3>2. {Shl(p[k], 7 * g[k], 64) : k \in 1..n} = {Shl(s[k] \ {7}, 7 * (k - 1), 64) : k \in 1..n}
      BY <3>1
    <3> QED
      BY <3>2 DEF Gathered, UpTo
  <2> QED
    BY <1>3, <2>2, <2>3
<1>7. ASSUME DownFrom(s, x, n) PROVE DownTo(s, n) = x
  <2>1. Slices(p, x, 7, h, n)
    BY <1>5, <1>7 DEF Slices, Group, DownFrom
  <2>2. Gathered(p, 7, h, n) = x \intersect 0..(7 * n - 1)
    BY ONLY <1>2, <1>3, <1>4, <2>1, Sliced
  <2>3. Gathered(p, 7, h, n) = DownTo(s, n)
    <3>1. \A k \in 1..n : Shl(p[k], 7 * h[k], 64) = Shl(s[k] \ {7}, 7 * (n - k), 64)
      BY <1>5
    <3>2. {Shl(p[k], 7 * h[k], 64) : k \in 1..n} = {Shl(s[k] \ {7}, 7 * (n - k), 64) : k \in 1..n}
      BY <3>1
    <3> QED
      BY <3>2 DEF Gathered, DownTo
  <2> QED
    BY <1>3, <2>2, <2>3
<1> QED
  BY <1>6, <1>7

(* The lengths that writers give to words are enough for them.             *)
LEMMA Extents ==
    ASSUME NEW x, x \subseteq 0..63
    PROVE  /\ Fits56(x) => x \subseteq 0..(7 * GroupsOf(x) - 1)
           /\ x \subseteq 0..(8 * U64Length(x) - 1)
           /\ x # {} => x \subseteq 0..(8 * (8 - Clz(x, 64) \div 8) - 1)
<1>1. ASSUME x # {}
      PROVE  /\ Fits56(x) => x \subseteq 0..(7 * GroupsOf(x) - 1)
             /\ x \subseteq 0..(8 * (8 - Clz(x, 64) \div 8) - 1)
  <2>1. PICK m \in 0..63 : Clz(x, 64) = 64 - 1 - m /\ m \in x /\ \A i \in x : i <= m
    <3>1. /\ Max(x) \in 0..63 /\ Max(x) \in x /\ \A i \in x : i <= Max(x)
          /\ \A w : Clz(x, w) = w - 1 - Max(x)
      BY <1>1, HighestBit
    <3> QED
      BY <3>1
  <2>2. \A i \in x : i \in 0..m
    BY <2>1
  <2>3. ASSUME Fits56(x) PROVE x \subseteq 0..(7 * GroupsOf(x) - 1)
    <3>1. GroupsOf(x) = 8 - (64 - 1 - m - 1) \div 7 + 1
      BY <1>1, <2>1 DEF GroupsOf
    <3>2. m <= 7 * (8 - (64 - 1 - m - 1) \div 7 + 1) - 1
      BY SMT
    <3>3. PICK k : k = 7 * GroupsOf(x) - 1
      OBVIOUS
    <3>4. m <= k /\ k \in Int
      BY <3>1, <3>2, <3>3
    <3> QED
      BY <2>2, <3>3, <3>4
  <2>4. x \subseteq 0..(8 * (8 - Clz(x, 64) \div 8) - 1)
    <3>1. m <= 8 * (8 - (64 - 1 - m) \div 8) - 1
      BY SMT
    <3>2. PICK k : k = 8 * (8 - Clz(x, 64) \div 8) - 1
      OBVIOUS
    <3>3. m <= k /\ k \in Int
      BY <2>1, <3>1, <3>2
    <3> QED
      BY <2>2, <3>2, <3>3
  <2> QED
    BY <2>3, <2>4
<1>2. x \subseteq 0..(8 * U64Length(x) - 1)
  <2>1. CASE x = {}
    BY <2>1
  <2>2. CASE x # {}
    <3>1. U64Length(x) = 8 - Clz(x, 64) \div 8
      BY <2>2 DEF U64Length
    <3> QED
      BY <1>1, <2>2, <3>1
  <2> QED
    BY <2>1, <2>2
<1>3. Fits56(x) => x \subseteq 0..(7 * GroupsOf(x) - 1)
  BY <1>1
<1>4. x # {} => x \subseteq 0..(8 * (8 - Clz(x, 64) \div 8) - 1)
  BY <1>1
<1> QED
  BY <1>2, <1>3, <1>4

(* The octets of a number with a sign are enough to restore it.            *)
LEMMA SignRestored ==
    ASSUME NEW x, x \subseteq 0..63
    PROVE  SignExtend(x \intersect 0..(8 * S64Length(x) - 1), S64Length(x)) = x
<1>1. PICK n : n = S64Length(x)
  OBVIOUS
<1>2. PICK y : y = IF 63 \in x THEN Complement(x, 64) ELSE x
  OBVIOUS
<1>3. \A i \in y : i \in 0..62
  BY <1>2 DEF Complement
<1>4. n \in 1..8 /\ \A i \in y : i <= 8 * n - 2
  <2>1. n \in 1..8
    BY <1>1, Lengths
  <2>2. CASE x = {}
    BY <1>2, <2>1, <2>2
  <2>3. CASE x # {} /\ y = {}
    BY <2>1, <2>3
  <2>4. CASE x # {} /\ y # {}
    <3>1. S64Length(x) = 8 - (Clz(y, 64) - 1) \div 8
      BY <1>2, <2>4 DEF S64Length
    <3>2. PICK m \in 0..62 : Clz(y, 64) = 64 - 1 - m /\ \A i \in y : i <= m
      <4>1. y \subseteq 0..62
        BY <1>3
      <4>2. Max(y) \in 0..62 /\ (\A i \in y : i <= Max(y)) /\ \A w : Clz(y, w) = w - 1 - Max(y)
        BY <2>4, <4>1, HighestBit
      <4> QED
        BY <4>2
    <3>3. m <= 8 * (8 - (64 - 1 - m - 1) \div 8) - 2
      BY SMT
    <3>4. m <= 8 * n - 2
      BY <1>1, <3>1, <3>2, <3>3
    <3> QED
      BY <1>3, <2>1, <3>2, <3>4
  <2> QED
    BY <2>2, <2>3, <2>4
<1>5. PICK l : l = 8 * n - 1
  OBVIOUS
<1>6. l \in 7..63 /\ 8 * n = l + 1 /\ \A i \in y : i < l
  <2>1. l \in 7..63 /\ 8 * n = l + 1 /\ 8 * n - 2 = l - 1
    BY <1>4, <1>5
  <2> QED
    BY <1>3, <1>4, <2>1
<1>7. CASE 63 \in x
  <2>1. \A i \in 0..63 : i >= l => i \in x
    BY <1>2, <1>6, <1>7 DEF Complement
  <2>2. l \in x \intersect 0..l /\ (x \intersect 0..l) \union (l + 1)..63 = x
    <3>1. l \in x
      BY <1>6, <2>1
    <3>2. \A i \in x : i \in 0..l \/ i \in (l + 1)..63
      BY <1>6
    <3>3. \A i \in (l + 1)..63 : i \in x
      BY <1>6, <2>1
    <3>4. l \in 0..l
      BY <1>6
    <3>5. (x \intersect 0..l) \union (l + 1)..63 = x
      BY <3>2, <3>3
    <3> QED
      BY <3>1, <3>4, <3>5
  <2> QED
    BY <1>1, <1>5, <1>6, <2>2 DEF SignExtend
<1>8. CASE 63 \notin x
  <2>1. \A i \in x : i \in 0..l /\ i # l
    BY <1>2, <1>6, <1>8
  <2>2. l \notin x \intersect 0..l /\ x \intersect 0..l = x
    BY <2>1
  <2> QED
    BY <1>1, <1>5, <2>2 DEF SignExtend
<1> QED
  BY <1>7, <1>8

-----------------------------------------------------------------------------
(* Reading what has been written *)

(* All of the octets e are there, at the beginning of s.                   *)
Starts(s, e) ==
    IsSeq(s) /\ IsSeq(e) /\ Len(e) <= Len(s) /\ \A i \in 1..Len(e) : s[i] = e[i]

(* Then what is left begins with what follows.                             *)
LEMMA StartsJoined ==
    ASSUME NEW s, NEW a, NEW b, IsSeq(a), IsSeq(b), Starts(s, a \o b)
    PROVE  /\ Starts(s, a) /\ Starts(Drop(s, Len(a)), b)
           /\ Drop(Drop(s, Len(a)), Len(b)) = Drop(s, Len(a \o b))
<1>1. PICK j, k, n : j = Len(a) /\ k = Len(b) /\ n = Len(s)
  OBVIOUS
<1>2. j \in Nat /\ k \in Nat /\ n \in Nat
  BY <1>1, SeqDomain DEF Starts
<1>3. PICK e, t : e = a \o b /\ t = Drop(s, j)
  OBVIOUS
<1>4. JoinOf(e, a, b)
  BY <1>3, JoinIs
<1>5. Len(e) = j + k /\ (\A i \in 1..j : e[i] = a[i]) /\ \A i \in 1..k : e[j + i] = b[i]
  BY <1>1, <1>4 DEF JoinOf
<1>6. IsSeq(s) /\ j + k <= n /\ \A i \in 1..(j + k) : s[i] = e[i]
  BY <1>1, <1>3, <1>5 DEF Starts
<1>7. j \in 0..n
  BY <1>2, <1>6
<1>8. IsSeq(t) /\ Len(t) = n - j /\ \A i \in 1..(n - j) : t[i] = s[j + i]
  <2>1. j \in 0..Len(s)
    BY <1>1, <1>7
  <2>2. IsSeq(t) /\ Len(t) = Len(s) - j /\ \A i \in 1..(Len(s) - j) : t[i] = s[j + i]
    BY <1>3, <1>6, <2>1, DropIs
  <2> QED
    BY <1>1, <2>2
<1>9. Starts(s, a)
  <2>1. \A i \in 1..j : i \in 1..(j + k)
    BY <1>2
  <2>2. \A i \in 1..j : s[i] = a[i]
    BY <1>5, <1>6, <2>1
  <2> QED
    BY <1>1, <1>2, <1>6, <2>2 DEF Starts
<1>10. Starts(t, b)
  <2>1. ASSUME NEW i \in 1..k PROVE t[i] = b[i]
    <3>1. i \in 1..(n - j) /\ j + i \in 1..(j + k)
      BY <1>2, <1>6
    <3> QED
      BY <1>5, <1>6, <1>8, <3>1
  <2> QED
    BY <1>1, <1>2, <1>6, <1>8, <2>1 DEF Starts
<1>11. Drop(Drop(s, j), k) = Drop(s, j + k)
  <2>1. k \in 0..(Len(s) - j) /\ j \in 0..Len(s)
    BY <1>1, <1>2, <1>6, <1>7
  <2> QED
    BY <1>6, <2>1, DropDrop
<1> QED
  BY <1>1, <1>3, <1>5, <1>9, <1>10, <1>11

(* The first octet, and the others.                                        *)
LEMMA StartsFirst ==
    ASSUME NEW s, NEW o, NEW b, IsSeq(b), Starts(s, <<o>> \o b)
    PROVE  /\ s # <<>> /\ Head(s) = o /\ Tail(s) = Drop(s, 1) /\ Starts(Tail(s), b)
           /\ Drop(Tail(s), Len(b)) = Drop(s, Len(<<o>> \o b))
           /\ Len(<<o>> \o b) = 1 + Len(b)
<1>1. PICK a : a = <<o>>
  OBVIOUS
<1>2. IsSeq(a) /\ Len(a) = 1 /\ a[1] = o
  BY <1>1, OneSeq
<1>3. /\ Starts(s, a) /\ Starts(Drop(s, Len(a)), b)
      /\ Drop(Drop(s, Len(a)), Len(b)) = Drop(s, Len(a \o b))
  <2>1. Starts(s, a \o b)
    BY <1>1
  <2>2. IsSeq(a)
    BY <1>2
  <2> QED
    BY ONLY IsSeq(b), <2>1, <2>2, StartsJoined
<1>4. 1 \in 1..1
  OBVIOUS
<1>5. IsSeq(s) /\ s[1] = o /\ 1 <= Len(s)
  BY <1>2, <1>3, <1>4 DEF Starts
<1>6. s # <<>>
  BY <1>5, EmptyIsSeq
<1>7. Head(s) = o /\ Tail(s) = Drop(s, 1)
  BY <1>5, <1>6, DropTail
<1>8. Len(a \o b) = 1 + Len(b)
  <2>1. JoinOf(a \o b, a, b)
    BY <1>2, JoinIs
  <2> QED
    BY <1>2, <2>1 DEF JoinOf
<1> QED
  BY <1>1, <1>2, <1>3, <1>6, <1>7, <1>8

(* The octets that are there are read.                                     *)
LEMMA BytesRead ==
    ASSUME NEW s, NEW e, Starts(s, e)
    PROVE  ReadBytes(s, Len(e)) = Value(e, Drop(s, Len(e)))
<1>1. PICK n, a : n = Len(e) /\ a = SubSeq(s, 1, n)
  OBVIOUS
<1>2. IsSeq(s) /\ IsSeq(e) /\ n \in Nat /\ n <= Len(s) /\ Len(s) \in Nat
  BY <1>1, SeqDomain DEF Starts
<1>3. a = e
  <2>1. 1 \in Int /\ n \in Int
    BY <1>2
  <2>2. /\ IsSeq(a) /\ Len(a) = IF 1 <= n THEN n - 1 + 1 ELSE 0
        /\ \A i \in 1..(n - 1 + 1) : a[i] = s[1 + i - 1]
    BY <1>1, <1>2, <2>1, SeqPart
  <2>3. Len(a) = n
    BY <1>2, <2>2
  <2>4. \A i \in 1..n : i \in 1..(n - 1 + 1) /\ 1 + i - 1 = i
    BY <1>2
  <2>5. \A i \in 1..n : a[i] = e[i]
    BY <1>1, <2>2, <2>4 DEF Starts
  <2> QED
    BY <1>1, <1>2, <2>2, <2>3, <2>5, SeqSame
<1>4. ReadBytes(s, n) = Value(SubSeq(s, 1, n), SubSeq(s, n + 1, Len(s)))
  BY <1>2 DEF ReadBytes
<1> QED
  BY <1>1, <1>3, <1>4 DEF Drop

(* The octets of an integer are read as its low end.                       *)
LEMMA IntegersRead ==
    ASSUME NEW x, x \subseteq Int, NEW n \in 0..8, NEW s
    PROVE  /\ Starts(s, LittleEndian(x, n)) =>
                 LeU64Read(s, n) = Value(x \intersect 0..(8 * n - 1), Drop(s, n))
           /\ Starts(s, BigEndian(x, n)) =>
                 BerU64Read(s, n) = Value(x \intersect 0..(8 * n - 1), Drop(s, n))
<1>1. PICK a, b : a = LittleEndian(x, n) /\ b = BigEndian(x, n)
  OBVIOUS
<1>2. Len(a) = n /\ Len(b) = n
  <2>1. n \in Nat
    OBVIOUS
  <2> QED
    BY <1>1, <2>1, EndianIs
<1>3. /\ FromLittleEndian(a) = x \intersect 0..(8 * n - 1)
      /\ FromBigEndian(b) = x \intersect 0..(8 * n - 1)
  BY <1>1, OctetsJoined
<1>4. ~(n > 8)
  OBVIOUS
<1>5. ASSUME Starts(s, a) PROVE LeU64Read(s, n) = Value(x \intersect 0..(8 * n - 1), Drop(s, n))
  <2>1. PICK r : r = ReadBytes(s, n)
    OBVIOUS
  <2>2. r.ok /\ r.value = a /\ r.rest = Drop(s, n)
    BY <1>2, <1>5, <2>1, BytesRead, ValueIs
  <2>3. LeU64Read(s, n) = Value(FromLittleEndian(r.value), r.rest)
    BY <1>4, <2>1, <2>2 DEF LeU64Read
  <2> QED
    BY <1>3, <2>2, <2>3
<1>6. ASSUME Starts(s, b) PROVE BerU64Read(s, n) = Value(x \intersect 0..(8 * n - 1), Drop(s, n))
  <2>1. PICK r : r = ReadBytes(s, n)
    OBVIOUS
  <2>2. r.ok /\ r.value = b /\ r.rest = Drop(s, n)
    BY <1>2, <1>6, <2>1, BytesRead, ValueIs
  <2>3. BerU64Read(s, n) = Value(FromBigEndian(r.value), r.rest)
    BY <1>4, <2>1, <2>2 DEF BerU64Read
  <2> QED
    BY <1>3, <2>2, <2>3
<1> QED
  BY <1>1, <1>5, <1>6

(* The octets of an integer with a sign are read as the integer.           *)
LEMMA SignedRead ==
    ASSUME NEW x, x \subseteq 0..63, NEW n, n = S64Length(x), NEW s
    PROVE  /\ Starts(s, LittleEndian(x, n)) => LeS64Read(s, n) = Value(x, Drop(s, n))
           /\ Starts(s, BigEndian(x, n)) => BerS64Read(s, n) = Value(x, Drop(s, n))
<1>1. x \subseteq Int /\ n \in 0..8
  <2>1. S64Length(x) \in 1..8
    BY Lengths
  <2>2. \A i \in x : i \in Int
    OBVIOUS
  <2> QED
    BY <2>1, <2>2
<1>2. PICK y : y = x \intersect 0..(8 * n - 1)
  OBVIOUS
<1>3. SignExtend(y, n) = x
  BY <1>2, SignRestored
<1>4. ASSUME Starts(s, LittleEndian(x, n)) PROVE LeS64Read(s, n) = Value(x, Drop(s, n))
  <2>1. LeU64Read(s, n) = Value(y, Drop(s, n))
    BY <1>1, <1>2, <1>4, IntegersRead
  <2> QED
    BY <1>3, <2>1, ValueIs DEF LeS64Read
<1>5. ASSUME Starts(s, BigEndian(x, n)) PROVE BerS64Read(s, n) = Value(x, Drop(s, n))
  <2>1. BerU64Read(s, n) = Value(y, Drop(s, n))
    BY <1>1, <1>2, <1>5, IntegersRead
  <2> QED
    BY <1>3, <2>1, ValueIs DEF BerS64Read
<1> QED
  BY <1>4, <1>5

(* The groups of a word, from the low end or from the high end.            *)
UpGroups(x, n) == [k \in 1..n |-> Group(x, k - 1) \union (IF k < n THEN {7} ELSE {})]
DownGroups(x, n) == [k \in 1..n |-> Group(x, n - k) \union (IF k < n THEN {7} ELSE {})]

(* They are groups that a reader finds the end of.                         *)
LEMMA GroupsAre ==
    ASSUME NEW x, Fits56(x), NEW n, n = GroupsOf(x)
    PROVE  /\ n \in 1..8
           /\ Grouped(UpGroups(x, n)) /\ Len(UpGroups(x, n)) = n
           /\ Grouped(DownGroups(x, n)) /\ Len(DownGroups(x, n)) = n
<1>1. n \in 1..8 /\ n \in Nat
  <2>1. x \subseteq 0..63
    BY DEF Fits56
  <2>2. GroupsOf(x) \in 1..8
    BY <2>1, Lengths
  <2> QED
    BY <2>2
<1>2. PICK a, b : a = UpGroups(x, n) /\ b = DownGroups(x, n)
  OBVIOUS
<1>3. a = [k \in 1..n |-> a[k]]
  BY <1>2 DEF UpGroups
<1>4. b = [k \in 1..n |-> b[k]]
  BY <1>2 DEF DownGroups
<1>5. Grouped(a)
  <2>1. \A k \in 1..n : \E j : a[k] = Group(x, j) \union (IF k < n THEN {7} ELSE {})
    BY <1>2 DEF UpGroups
  <2> QED
    BY ONLY Fits56(x), n = GroupsOf(x), <1>3, <2>1, GroupsMade
<1>6. Grouped(b)
  <2>1. \A k \in 1..n : \E j : b[k] = Group(x, j) \union (IF k < n THEN {7} ELSE {})
    BY <1>2 DEF DownGroups
  <2> QED
    BY ONLY Fits56(x), n = GroupsOf(x), <1>4, <2>1, GroupsMade
<1>7. Len(a) = n
  BY ONLY <1>1, <1>3, SeqMade
<1>8. Len(b) = n
  BY ONLY <1>1, <1>4, SeqMade
<1> QED
  BY <1>1, <1>2, <1>5, <1>6, <1>7, <1>8

(* The end of the groups that are there is found.                          *)
LEMMA EndFound ==
    ASSUME NEW e, Grouped(e), NEW s, Starts(s, e)
    PROVE  GroupsIn(s) # {} /\ Min(GroupsIn(s)) = Len(e)
<1>1. IsSeq(s) /\ Len(e) \in 1..8 /\ Len(e) <= Len(s) /\ Len(s) \in Nat
  BY SeqDomain DEF Starts, Grouped
<1>2. Agrees(s, e)
  BY DEF Starts, Agrees
<1>3. PICK n : n = Len(e)
  OBVIOUS
<1>4. n \in 1..n /\ n \in 1..Len(s) /\ ~(n < n)
  BY <1>1, <1>3
<1>5. 7 \notin s[n]
  BY <1>3, <1>4 DEF Starts, Grouped
<1>6. n \in GroupsIn(s)
  BY <1>4, <1>5 DEF GroupsIn
<1> QED
  BY <1>1, <1>2, <1>6, GroupsFound

(* A word is read from its groups.                                         *)
LEMMA GroupsRead ==
    ASSUME NEW x, Fits56(x), NEW n, n = GroupsOf(x), NEW s
    PROVE  /\ Starts(s, UpGroups(x, n)) => LebRead(s) = Value(x, Drop(s, n))
           /\ Starts(s, DownGroups(x, n)) => TagRead(s) = Value(x, Drop(s, n))
<1>1. PICK a, b : a = UpGroups(x, n) /\ b = DownGroups(x, n)
  OBVIOUS
<1>2. n \in 1..8 /\ Grouped(a) /\ Len(a) = n /\ Grouped(b) /\ Len(b) = n
  BY <1>1, GroupsAre
<1>3. x \subseteq 0..(7 * n - 1)
  <2>1. x \subseteq 0..63
    BY DEF Fits56
  <2> QED
    BY <2>1, Extents
<1>4. \A j : 7 \notin Group(x, j)
  BY DEF Group, Low
<1>5. ASSUME Starts(s, a) PROVE LebRead(s) = Value(x, Drop(s, n))
  <2>1. GroupsIn(s) # {} /\ Min(GroupsIn(s)) = n
    BY <1>2, <1>5, EndFound
  <2>2. UpFrom(s, x, n)
    <3> SUFFICES ASSUME NEW k \in 1..n PROVE s[k] \ {7} = Group(x, k - 1)
      BY DEF UpFrom
    <3>1. s[k] = a[k] /\ a[k] = Group(x, k - 1) \union (IF k < n THEN {7} ELSE {})
      BY <1>1, <1>2, <1>5 DEF Starts, UpGroups
    <3> QED
      BY <1>4, <3>1
  <2>3. UpTo(s, n) = x
    BY <1>2, <1>3, <2>2, GroupsJoined
  <2> QED
    BY <2>1, <2>3 DEF LebRead, Drop, UpTo
<1>6. ASSUME Starts(s, b) PROVE TagRead(s) = Value(x, Drop(s, n))
  <2>1. GroupsIn(s) # {} /\ Min(GroupsIn(s)) = n
    BY <1>2, <1>6, EndFound
  <2>2. DownFrom(s, x, n)
    <3> SUFFICES ASSUME NEW k \in 1..n PROVE s[k] \ {7} = Group(x, n - k)
      BY DEF DownFrom
    <3>1. s[k] = b[k] /\ b[k] = Group(x, n - k) \union (IF k < n THEN {7} ELSE {})
      BY <1>1, <1>2, <1>6 DEF Starts, DownGroups
    <3> QED
      BY <1>4, <3>1
  <2>3. DownTo(s, n) = x
    BY <1>2, <1>3, <2>2, GroupsJoined
  <2> QED
    BY <2>1, <2>3 DEF TagRead, Drop, DownTo
<1> QED
  BY <1>1, <1>5, <1>6

(* The reader of a kind makes v of the octets e, whatever follows them.    *)
Decodes(kind, v, e) ==
    \A s : Starts(s, e) => /\ Got(kind, v, s).ok
                           /\ Exact(kind, v) => Got(kind, v, s).value = Kept(kind, v)

(* What a write without an error leaves is read as what was written.       *)
Reads(kind, v, w) == w.ok => Decodes(kind, v, FlattenSeq(w.chunks))

(* It is enough that the reader returns the value for what was spelt.      *)
LEMMA SpellsReads ==
    ASSUME NEW kind, NEW v, NEW w, NEW e, Spells(w, e), NEW k,
           \A s : Starts(s, e) => Got(kind, v, s) = Value(Kept(kind, v), Drop(s, k))
    PROVE  Reads(kind, v, w)
BY ValueIs DEF Spells, Reads, Decodes

(* Of most kinds all of the value is kept.                                 *)
LEMMA KeptIs ==
    ASSUME NEW v
    PROVE  \A kind \in {"leb", "vlu", "length", "derU64", "derS64", "ieee32", "ieee64",
                        "ieee32vec", "ieee64vec"} : Kept(kind, v) = v
BY DEF Kept

(* The LEB128 numbers.                                                     *)
LEMMA LebReads == ASSUME NEW v \in Word PROVE Reads("leb", v, LebWrite(v))
<1>1. \A s : Got("leb", v, s) = LebRead(s)
  BY DEF Got
<1>2. CASE Fits56(v)
  <2>1. PICK n : n = GroupsOf(v)
    OBVIOUS
  <2>2. PICK e : e = UpGroups(v, n)
    OBVIOUS
  <2>3. IsSeq(e)
    BY <1>2, <2>1, <2>2, GroupsAre DEF Grouped
  <2>4. LebWrite(v) = Chunks(<<e>>)
    BY <1>2, <2>1, <2>2 DEF LebWrite, UpGroups
  <2>5. Spells(LebWrite(v), e)
    BY <2>3, <2>4, SpellsOne
  <2>6. \A s : Starts(s, e) => LebRead(s) = Value(v, Drop(s, n))
    BY <1>2, <2>1, <2>2, GroupsRead
  <2>7. Kept("leb", v) = v
    BY KeptIs
  <2> QED
    BY <1>1, <2>5, <2>6, <2>7, SpellsReads
<1>3. CASE ~Fits56(v)
  BY <1>3 DEF Reads, LebWrite, Rejected
<1> QED
  BY <1>2, <1>3

(* The lengths.                                                            *)
LEMMA LengthReads == ASSUME NEW v \in Word PROVE Reads("length", v, LengthWrite(v))
<1>1. \A s : Got("length", v, s) = LengthRead(s)
  BY DEF Got
<1>2. Kept("length", v) = v
  BY KeptIs
<1>3. CASE v \subseteq 0..6
  <2>1. PICK e : e = <<v>>
    OBVIOUS
  <2>2. IsSeq(e) /\ Len(e) = 1 /\ e[1] = v
    BY <2>1, OneSeq
  <2>3. LengthWrite(v) = Octets(e)
    BY <1>3, <2>1 DEF LengthWrite
  <2>4. Spells(LengthWrite(v), e)
    BY <2>2, <2>3, SpellsOctets
  <2>5. ASSUME NEW s, Starts(s, e) PROVE LengthRead(s) = Value(v, Drop(s, 1))
    <3>1. 1 \in 1..1 /\ 7 \notin v
      BY <1>3
    <3>2. IsSeq(s) /\ s[1] = v /\ 1 <= Len(s)
      BY <2>2, <2>5, <3>1 DEF Starts
    <3>3. s # <<>>
      BY <3>2, EmptyIsSeq
    <3>4. Head(s) = v /\ Tail(s) = Drop(s, 1)
      BY <3>2, <3>3, DropTail
    <3> QED
      BY <3>1, <3>3, <3>4 DEF LengthRead
  <2> QED
    BY <1>1, <1>2, <2>4, <2>5, SpellsReads
<1>4. CASE ~(v \subseteq 0..6)
  <2>1. PICK n : n = 8 - Clz(v, 64) \div 8
    OBVIOUS
  <2>2. /\ n \in 1..8 /\ n \in Nat /\ n \in 0..20 /\ n \in 0..8 /\ v \subseteq Int
        /\ v \subseteq 0..(8 * n - 1)
    <3>1. v \subseteq 0..63 /\ v # {}
      BY <1>4 DEF Word
    <3>2. 8 - Clz(v, 64) \div 8 \in 1..8
      BY <3>1, Lengths
    <3>3. v \subseteq 0..(8 * n - 1)
      BY <2>1, <3>1, Extents
    <3>4. n \in 1..8
      BY <2>1, <3>2
    <3>5. v \subseteq Int
      BY <3>1
    <3> QED
      BY <3>3, <3>4, <3>5
  <2>3. PICK o, b : o = Bits(n) \union {7} /\ b = BigEndian(v, n)
    OBVIOUS
  <2>4. IsSeq(<<o>>) /\ Len(<<o>>) = 1 /\ <<o>>[1] = o
    BY OneSeq
  <2>5. IsSeq(b) /\ Len(b) = n
    BY <2>2, <2>3, EndianIs
  <2>6. PICK e : e = <<o>> \o b
    OBVIOUS
  <2>7. IsSeq(e)
    <3>1. JoinOf(e, <<o>>, b)
      BY <2>4, <2>5, <2>6, JoinIs
    <3> QED
      BY <3>1 DEF JoinOf
  <2>8. LengthWrite(v) = Octets(e)
    BY <1>4, <2>1, <2>3, <2>6 DEF LengthWrite
  <2>9. Spells(LengthWrite(v), e)
    BY <2>7, <2>8, SpellsOctets
  <2>10. Number(o \ {7}) = n /\ 7 \in o
    <3>1. Bits(n) \subseteq 0..4 /\ Number(Bits(n)) = n
      BY ONLY <2>2, NumbersAssumption
    <3>2. o \ {7} = Bits(n) /\ 7 \in o
      BY <2>3, <3>1
    <3> QED
      BY <3>1, <3>2
  <2>11. ASSUME NEW s, Starts(s, e) PROVE LengthRead(s) = Value(v, Drop(s, Len(e)))
    <3>1. /\ s # <<>> /\ Head(s) = o /\ Starts(Tail(s), b)
          /\ Drop(Tail(s), n) = Drop(s, Len(e))
      BY <2>5, <2>6, <2>11, StartsFirst
    <3>2. PICK r, t : t = Tail(s) /\ r = ReadBytes(t, n)
      OBVIOUS
    <3>3. r = Value(b, Drop(t, n))
      BY <2>5, <3>1, <3>2, BytesRead
    <3>4. r.ok /\ r.value = b /\ r.rest = Drop(s, Len(e))
      BY <3>1, <3>2, <3>3, ValueIs
    <3>5. FromBigEndian(b) = v
      <4>1. FromBigEndian(b) = v \intersect 0..(8 * n - 1)
        BY <2>2, <2>3, OctetsJoined
      <4> QED
        BY <2>2, <4>1
    <3>6. LengthRead(s) = Value(FromBigEndian(r.value), r.rest)
      BY <2>2, <2>10, <3>1, <3>2, <3>4 DEF LengthRead
    <3> QED
      BY <3>4, <3>5, <3>6
  <2> QED
    BY <1>1, <1>2, <2>9, <2>11, SpellsReads
<1> QED
  BY <1>3, <1>4

(* Two shifts to the right are one.                                        *)
LEMMA ShrTwice ==
    ASSUME NEW x, x \subseteq Int, NEW j \in Nat, NEW k \in Nat
    PROVE  Shr(x, j) \subseteq Nat /\ Shr(Shr(x, j), k) = Shr(x, j + k)
<1>1. PICK y, m : y = Shr(x, j) /\ m = j + k
  OBVIOUS
<1>2. j \in Int /\ k \in Int /\ m \in Int
  BY <1>1
<1>3. \A i : i \in y <=> i \in Nat /\ i + j \in x
  BY <1>1, <1>2, ShrHas
<1>4. y \subseteq Int /\ y \subseteq Nat
  BY <1>3
<1>5. \A i : i \in Shr(y, k) <=> i \in Nat /\ i + k \in y
  BY ONLY <1>2, <1>4, ShrHas
<1>6. \A i : i \in Shr(x, m) <=> i \in Nat /\ i + m \in x
  BY ONLY x \subseteq Int, <1>2, ShrHas
<1>7. ASSUME NEW i \in Nat PROVE i + k \in y <=> i + m \in x
  <2>1. i + k \in Nat /\ i + k + j = i + m
    BY <1>1
  <2> QED
    BY <1>3, <2>1
<1>8. Shr(y, k) = Shr(x, m)
  BY <1>5, <1>6, <1>7
<1> QED
  BY <1>1, <1>4, <1>8

(* The first octet of a word and those of the rest.                        *)
LEMMA FirstOctet ==
    ASSUME NEW x, x \subseteq Nat, NEW n \in 1..8
    PROVE  LittleEndian(x, n) = <<Low(x, 8)>> \o LittleEndian(Shr(x, 8), n - 1)
<1>1. PICK e, a, b, m : /\ e = LittleEndian(x, n) /\ a = <<Low(x, 8)>>
                        /\ b = LittleEndian(Shr(x, 8), m) /\ m = n - 1
  OBVIOUS
<1>2. IsSeq(e) /\ Len(e) = n /\ IsSeq(b) /\ Len(b) = m /\ m \in 0..7 /\ n = 1 + m
  <2>1. n \in Nat /\ m \in Nat /\ m \in 0..7 /\ n = 1 + m
    BY <1>1
  <2> QED
    BY <1>1, <2>1, EndianIs
<1>3. IsSeq(a) /\ Len(a) = 1 /\ a[1] = Low(x, 8)
  BY <1>1, OneSeq
<1>4. JoinOf(a \o b, a, b)
  BY <1>2, <1>3, JoinIs
<1>5. IsSeq(a \o b) /\ Len(a \o b) = 1 + m
  BY <1>2, <1>3, <1>4 DEF JoinOf
<1>6. (a \o b)[1] = e[1]
  <2>1. e[1] = Octet(x, 0)
    BY <1>1 DEF LittleEndian
  <2>2. Shr(x, 8 * 0) = x
    <3>1. \A i \in x : i >= 8 * 0 /\ i - 8 * 0 = i
      OBVIOUS
    <3> QED
      BY <3>1 DEF Shr
  <2>3. (a \o b)[1] = a[1]
    BY <1>3, <1>4 DEF JoinOf
  <2> QED
    BY <1>3, <2>1, <2>2, <2>3 DEF Octet
<1>7. ASSUME NEW k \in 1..m PROVE (a \o b)[1 + k] = e[1 + k]
  <2>1. (a \o b)[1 + k] = b[k]
    BY <1>2, <1>3, <1>4 DEF JoinOf
  <2>2. b[k] = Low(Shr(Shr(x, 8), 8 * (k - 1)), 8)
    BY <1>1 DEF LittleEndian, Octet
  <2>3. 1 + k \in 1..n /\ 1 + k - 1 = k /\ 8 + 8 * (k - 1) = 8 * k
    BY <1>2
  <2>4. e[1 + k] = Low(Shr(x, 8 * k), 8)
    BY <1>1, <2>3 DEF LittleEndian, Octet
  <2>5. Shr(Shr(x, 8), 8 * (k - 1)) = Shr(x, 8 * k)
    <3>1. PICK j : j = 8 * (k - 1)
      OBVIOUS
    <3>2. 8 \in Nat /\ j \in Nat /\ x \subseteq Int /\ 8 + j = 8 * k
      BY <1>2, <2>3, <3>1
    <3>3. Shr(Shr(x, 8), j) = Shr(x, 8 + j)
      BY ONLY <3>2, ShrTwice
    <3> QED
      BY <3>1, <3>2, <3>3
  <2> QED
    BY <2>1, <2>2, <2>4, <2>5
<1>8. ASSUME NEW i \in 1..n PROVE (a \o b)[i] = e[i]
  <2>1. CASE i = 1
    BY <1>6, <2>1
  <2>2. CASE i # 1
    <3>1. PICK k : k = i - 1
      OBVIOUS
    <3>2. k \in 1..m /\ 1 + k = i
      BY <1>2, <2>2, <3>1
    <3> QED
      BY <1>7, <3>2
  <2> QED
    BY <2>1, <2>2
<1>9. a \o b = e
  <2>1. PICK d : d = a \o b
    OBVIOUS
  <2>2. IsSeq(d) /\ Len(d) = n /\ \A i \in 1..n : d[i] = e[i]
    BY <1>2, <1>5, <1>8, <2>1
  <2>3. d = e
    BY <1>2, <2>2, SeqSame
  <2> QED
    BY <2>1, <2>3
<1> QED
  BY <1>1, <1>9

(* The VLU numbers: the count in the first octet is the count of octets,   *)
(* and the shifts that make room for it are undone.                        *)
Unary(x, v, n) == v \subseteq 0..(7 * n - 1) /\ x = Shl(v, n, 64) \union 0..(n - 2)

Undone(x, v, n) ==
    /\ x \subseteq 0..(8 * n - 1) /\ x \subseteq Nat
    /\ Ctz(Complement(Low(x, 8), 8), 64) = n - 1
    /\ Shr(Low(x, 8), n) \union Shl(Shr(x, 8), 8 - n, 64) = v
    /\ n = 1 => Shr(Low(x, 8), 1) = v

(* Both ways of shifting the count out again give back the number.         *)
LEMMA VluRestored ==
    ASSUME NEW v, v \subseteq Nat, NEW n \in 1..8, NEW x, Unary(x, v, n)
    PROVE  Undone(x, v, n)
<1> USE DEF Unary
<1>1. PICK m : m = 7 * n - 1
  OBVIOUS
<1>2. v \subseteq Int /\ v \subseteq 0..m /\ m + n = 8 * n - 1 /\ m + n \in 7..63 /\ n \in Int
  BY <1>1
<1>3. \A i : i \in Shl(v, n, 64) <=> i \in 0..(64 - 1) /\ i - n \in v
  <2>1. 64 \in Int
    OBVIOUS
  <2> QED
    BY ONLY <1>2, <2>1, ShlHas, Zenon
<1>4. \A i : i \in x <=> (i \in 0..63 /\ i - n \in v) \/ i \in 0..(n - 2)
  BY <1>3
<1>5. \A i \in x : i \in 0..(m + n)
  <2> TAKE i \in x
  <2>1. CASE i \in 0..63 /\ i - n \in v
    <3>1. i - n \in 0..m
      BY <1>2, <2>1
    <3> QED
      BY <1>2, <2>1, <3>1
  <2>2. CASE i \in 0..(n - 2)
    BY <1>2, <2>2
  <2> QED
    BY <1>4, <2>1, <2>2
<1>6. x \subseteq 0..(8 * n - 1) /\ x \subseteq Nat /\ x \subseteq Int
  BY <1>2, <1>5
<1>7. \A i \in v : i \in 0..63 /\ i + n \in x /\ i + n - n = i /\ i + n \in 0..63
  <2> TAKE i \in v
  <2>1. i \in 0..m
    BY <1>2
  <2>2. i \in 0..63 /\ i + n \in 0..63 /\ i + n - n = i
    BY <1>2, <2>1
  <2> QED
    BY <1>4, <2>2
<1>8. \A i \in Nat : i + n \in x => i \in v
  <2> TAKE i \in Nat
  <2> HAVE i + n \in x
  <2>1. ~(i + n \in 0..(n - 2)) /\ i + n - n = i
    OBVIOUS
  <2> QED
    BY <1>4, <2>1
<1>9. PICK y : y = Low(x, 8)
  OBVIOUS
<1>10. \A i : i \in y <=> i \in x /\ i \in 0..7
  BY <1>9 DEF Low
<1>11. y \subseteq Int
  BY <1>6, <1>10
<1>12. Ctz(Complement(y, 8), 64) = n - 1
  <2>1. PICK c : c = Complement(y, 8)
    OBVIOUS
  <2>2. \A i : i \in c <=> i \in 0..7 /\ i \notin y
    BY <2>1 DEF Complement
  <2>3. n - 1 \notin x
    <3>1. n - 1 - n = -1 /\ ~(n - 1 \in 0..(n - 2))
      OBVIOUS
    <3>2. -1 \notin v
      OBVIOUS
    <3> QED
      BY <1>4, <3>1, <3>2
  <2>4. n - 1 \in c
    BY <1>10, <2>2, <2>3
  <2>5. \A i \in c : n - 1 <= i
    <3> SUFFICES ASSUME NEW i \in c, ~(n - 1 <= i) PROVE FALSE
      OBVIOUS
    <3>1. i \in 0..7 /\ i \notin y
      BY <2>2
    <3>2. i \in 0..(n - 2)
      BY <3>1
    <3> QED
      BY <1>4, <1>10, <3>1, <3>2
  <2>6. c \in SUBSET Nat /\ c # {}
    BY <2>2, <2>4
  <2>7. Min(c) \in c /\ \A i \in c : Min(c) <= i
    BY <2>6, MinIs
  <2>8. Min(c) = n - 1
    <3>1. Min(c) <= n - 1 /\ n - 1 <= Min(c) /\ Min(c) \in Nat
      BY <2>4, <2>5, <2>6, <2>7
    <3> QED
      BY <3>1
  <2> QED
    BY <2>1, <2>6, <2>8 DEF Ctz
<1>13. \A i : i \in Shr(y, n) <=> i \in Nat /\ i + n \in y
  BY ONLY <1>2, <1>11, ShrHas
<1>14. PICK u, k : u = Shr(x, 8) /\ k = 8 - n
  OBVIOUS
<1>15. \A i : i \in u <=> i \in Nat /\ i + 8 \in x
  <2>1. 8 \in Int
    OBVIOUS
  <2>2. \A i : i \in Shr(x, 8) <=> i \in Nat /\ i + 8 \in x
    BY ONLY <1>6, <2>1, ShrHas, Zenon
  <2> QED
    BY <1>14, <2>2
<1>16. \A i : i \in Shl(u, k, 64) <=> i \in 0..(64 - 1) /\ i - k \in u
  <2>1. 64 \in Int /\ k \in Int /\ u \subseteq Int
    <3>1. \A i \in u : i \in Int
      BY <1>15
    <3>2. k \in Int
      BY <1>14
    <3> QED
      BY <3>1, <3>2
  <2> QED
    BY ONLY <2>1, ShlHas, Zenon
<1>17. ASSUME NEW i \in v PROVE i \in Shr(y, n) \union Shl(u, k, 64)
  <2>1. i \in 0..63 /\ i + n \in x /\ i + n \in 0..63
    BY <1>7
  <2>2. CASE i + n <= 7
    BY <1>10, <1>13, <2>1, <2>2
  <2>3. CASE ~(i + n <= 7)
    <3>1. i - k \in Nat /\ i - k + 8 = i + n
      BY <1>14, <2>1, <2>3
    <3>2. i - k \in u
      BY <1>15, <2>1, <3>1
    <3> QED
      BY <1>16, <2>1, <3>2
  <2> QED
    BY <2>2, <2>3
<1>18. ASSUME NEW i, i \in Shr(y, n) PROVE i \in v
  BY <1>8, <1>10, <1>13, <1>18
<1>19. ASSUME NEW i, i \in Shl(u, k, 64) PROVE i \in v
  <2>1. i \in 0..63 /\ i - k \in Nat /\ i - k + 8 \in x
    BY <1>15, <1>16, <1>19
  <2>2. i - k + 8 = i + n /\ i \in Nat
    BY <1>14, <2>1
  <2> QED
    BY <1>8, <2>1, <2>2
<1>20. Shr(y, n) \union Shl(u, k, 64) = v
  BY <1>17, <1>18, <1>19
<1>21. ASSUME n = 1 PROVE Shr(y, n) = v
  <2>1. ASSUME NEW i \in v PROVE i \in Shr(y, n)
    <3>1. i \in 0..m /\ i + n \in x
      BY <1>2, <1>7
    <3>2. i \in Nat /\ i + n \in 0..7
      BY <1>1, <1>21, <3>1
    <3> QED
      BY <1>10, <1>13, <3>1, <3>2
  <2> QED
    BY <1>18, <2>1
<1> QED
  BY <1>6, <1>9, <1>12, <1>14, <1>20, <1>21 DEF Undone

(* Every VLU number is read as what was written.                           *)
LEMMA VluReads == ASSUME NEW v \in Word PROVE Reads("vlu", v, VluWrite(v))
<1>1. \A s : Got("vlu", v, s) = VluRead(s)
  BY DEF Got
<1>2. CASE Fits56(v)
  <2>1. PICK n : n = GroupsOf(v)
    OBVIOUS
  <2>2. n \in 1..8 /\ n \in Nat /\ v \subseteq Nat /\ v \subseteq 0..(7 * n - 1)
    <3>1. v \subseteq 0..63
      BY DEF Word
    <3>2. GroupsOf(v) \in 1..8
      BY <1>2, <3>1, Lengths
    <3>3. v \subseteq 0..(7 * GroupsOf(v) - 1)
      BY <1>2, <3>1, Extents
    <3>4. v \subseteq Nat
      BY <3>1
    <3> QED
      BY <2>1, <3>2, <3>3, <3>4
  <2>3. PICK x : x = Shl(v, n, 64) \union 0..(n - 2)
    OBVIOUS
  <2>4. /\ x \subseteq 0..(8 * n - 1) /\ x \subseteq Nat
        /\ Ctz(Complement(Low(x, 8), 8), 64) = n - 1
        /\ Shr(Low(x, 8), n) \union Shl(Shr(x, 8), 8 - n, 64) = v
        /\ n = 1 => Shr(Low(x, 8), 1) = v
    <3>1. Unary(x, v, n)
      BY <2>2, <2>3 DEF Unary
    <3>2. Undone(x, v, n)
      BY ONLY <2>2, <3>1, VluRestored
    <3> QED
      BY <3>2 DEF Undone
  <2>5. PICK o, m, y, b : o = Low(x, 8) /\ m = n - 1 /\ y = Shr(x, 8) /\ b = LittleEndian(y, m)
    OBVIOUS
  <2>6. PICK e : e = LittleEndian(x, n)
    OBVIOUS
  <2>7. IsSeq(e) /\ Len(e) = n /\ e = <<o>> \o b
    BY <2>2, <2>4, <2>5, <2>6, EndianIs, FirstOctet
  <2>8. m \in 0..8 /\ m \in Nat /\ m + 1 = n
    BY <2>2, <2>5
  <2>9. IsSeq(b) /\ Len(b) = m
    BY <2>5, <2>8, EndianIs
  <2>10. y \subseteq Int /\ y \intersect 0..(8 * m - 1) = y
    <3>1. \A i : i \in y <=> i \in Nat /\ i + 8 \in x
      <4>1. x \subseteq Int /\ 8 \in Int
        BY <2>4
      <4>2. \A i : i \in Shr(x, 8) <=> i \in Nat /\ i + 8 \in x
        BY ONLY <4>1, ShrHas, Zenon
      <4> QED
        BY <2>5, <4>2
    <3>2. \A i \in y : i \in Int /\ i \in 0..(8 * m - 1)
      <4> TAKE i \in y
      <4>1. i \in Nat /\ i + 8 \in 0..(8 * n - 1)
        BY <2>4, <3>1
      <4> QED
        BY <2>8, <4>1
    <3> QED
      BY <3>2
  <2>11. VluWrite(v) = Chunks(<<e>>)
    BY <1>2, <2>1, <2>2, <2>3, <2>6 DEF VluWrite, LeU64Write
  <2>12. Spells(VluWrite(v), e)
    BY <2>7, <2>11, SpellsOne
  <2>13. ASSUME NEW s, Starts(s, e) PROVE VluRead(s) = Value(v, Drop(s, Len(e)))
    <3>1. /\ s # <<>> /\ Head(s) = o /\ Starts(Tail(s), b)
          /\ Drop(Tail(s), m) = Drop(s, Len(e)) /\ Tail(s) = Drop(s, 1)
      BY <2>7, <2>9, <2>13, StartsFirst
    <3>2. Ctz(Complement(Head(s), 8), 64) + 1 = n /\ n - 1 = m /\ ~(n > 8)
      BY <2>2, <2>4, <2>5, <2>8, <3>1
    <3>3. PICK t, r : t = Tail(s) /\ r = LeU64Read(t, m)
      OBVIOUS
    <3>4. r.ok /\ r.value = y /\ r.rest = Drop(s, Len(e))
      <4>1. LeU64Read(t, m) = Value(y \intersect 0..(8 * m - 1), Drop(t, m))
        BY <2>5, <2>8, <2>10, <3>1, <3>3, IntegersRead
      <4>2. r = Value(y, Drop(s, Len(e)))
        BY <2>10, <3>1, <3>3, <4>1
      <4> QED
        BY <4>2, ValueIs
    <3>5. CASE n = 1
      <4>1. VluRead(s) = Value(Shr(o, 1), Tail(s))
        BY <3>1, <3>2, <3>5 DEF VluRead
      <4> QED
        BY <2>4, <2>5, <2>7, <3>1, <3>5, <4>1
    <3>6. CASE n # 1
      <4>1. VluRead(s) = Value(Shr(o, n) \union Shl(r.value, 8 - n, 64), r.rest)
        BY <3>1, <3>2, <3>3, <3>4, <3>6 DEF VluRead
      <4> QED
        BY <2>4, <2>5, <3>4, <4>1
    <3> QED
      BY <3>5, <3>6
  <2>14. Kept("vlu", v) = v
    BY KeptIs
  <2> QED
    BY <1>1, <2>12, <2>13, <2>14, SpellsReads
<1>3. CASE ~Fits56(v)
  BY <1>3 DEF Reads, VluWrite, Rejected
<1> QED
  BY <1>2, <1>3

(* The first octet of an identifier tells all but the tag.                 *)
IdentOf(o, x) ==
    [identifier |-> x, constructed |-> 5 \in o, class |-> IF 7 \in o THEN {1} ELSE {}]

(* What the first octet tells is the identifier, but for the lower bit of  *)
(* its class.                                                              *)
LEMMA IdentKept ==
    ASSUME NEW v \in Ident, NEW low, low \subseteq 0..4
    PROVE  IdentOf(First(v, low), v.identifier) = Kept("ident", v)
<1>1. PICK o : o = First(v, low)
  OBVIOUS
<1>2. (5 \in o <=> v.constructed) /\ (7 \in o <=> 1 \in v.class)
  BY <1>1 DEF First
<1>3. v.constructed \in BOOLEAN /\ v.class \subseteq 0..1
  BY DEF Ident
<1>4. (5 \in o) = v.constructed
  BY <1>2, <1>3
<1>5. (IF 7 \in o THEN {1} ELSE {}) = v.class \ {0}
  <2>1. CASE 1 \in v.class
    <3>1. v.class \ {0} = {1}
      BY <1>3, <2>1
    <3> QED
      BY <1>2, <2>1, <3>1
  <2>2. CASE 1 \notin v.class
    <3>1. v.class \ {0} = {}
      BY <1>3, <2>2
    <3> QED
      BY <1>2, <2>2, <3>1
  <2> QED
    BY <2>1, <2>2
<1>6. Kept("ident", v) = [v EXCEPT !.class = @ \ {0}]
  BY DEF Kept
<1>7. [v EXCEPT !.class = @ \ {0}]
        = [identifier |-> v.identifier, constructed |-> v.constructed, class |-> v.class \ {0}]
  BY DEF Ident
<1> QED
  BY <1>1, <1>4, <1>5, <1>6, <1>7 DEF IdentOf

(* The identifiers.                                                        *)
LEMMA IdentReads == ASSUME NEW v \in Ident PROVE Reads("ident", v, IdentWrite(v))
<1>1. \A s : Got("ident", v, s) = IdentRead(s)
  BY DEF Got
<1>2. PICK x : x = v.identifier
  OBVIOUS
<1>3. CASE x \subseteq 0..4 /\ x # 0..4
  <2>1. PICK o : o = First(v, x)
    OBVIOUS
  <2>2. Low(o, 5) = x /\ IdentOf(o, x) = Kept("ident", v)
    BY <1>2, <1>3, <2>1, FirstLow, IdentKept
  <2>3. PICK e : e = <<o>>
    OBVIOUS
  <2>4. IsSeq(e) /\ Len(e) = 1 /\ e[1] = o
    BY <2>3, OneSeq
  <2>5. IdentWrite(v) = Octets(e)
    BY <1>2, <1>3, <2>1, <2>3 DEF IdentWrite, First
  <2>6. Spells(IdentWrite(v), e)
    BY <2>4, <2>5, SpellsOctets
  <2>7. ASSUME NEW s, Starts(s, e) PROVE IdentRead(s) = Value(Kept("ident", v), Drop(s, 1))
    <3>1. 1 \in 1..1
      OBVIOUS
    <3>2. IsSeq(s) /\ s[1] = o /\ 1 <= Len(s)
      BY <2>4, <2>7, <3>1 DEF Starts
    <3>3. s # <<>>
      BY <3>2, EmptyIsSeq
    <3>4. Head(s) = o /\ Tail(s) = Drop(s, 1)
      BY <3>2, <3>3, DropTail
    <3> QED
      BY <1>3, <2>2, <3>3, <3>4 DEF IdentRead, IdentOf
  <2> QED
    BY <1>1, <2>6, <2>7, SpellsReads
<1>4. CASE ~(x \subseteq 0..4 /\ x # 0..4)
  <2>1. PICK o : o = First(v, 0..4)
    OBVIOUS
  <2>2. Low(o, 5) = 0..4 /\ IdentOf(o, x) = Kept("ident", v)
    BY <1>2, <2>1, FirstLow, IdentKept
  <2>3. PICK one : one = <<o>>
    OBVIOUS
  <2>4. IsSeq(one) /\ Len(one) = 1 /\ one[1] = o
    BY <2>3, OneSeq
  <2>5. IdentWrite(v) = Then(Octets(one), TagWrite(x))
    BY <1>2, <1>4, <2>1, <2>3 DEF IdentWrite, First
  <2>6. Spells(Octets(one), one)
    BY <2>4, SpellsOctets
  <2>7. CASE Fits56(x)
    <3>1. PICK n : n = GroupsOf(x)
      OBVIOUS
    <3>2. PICK g : g = DownGroups(x, n)
      OBVIOUS
    <3>3. IsSeq(g) /\ Len(g) = n
      BY <2>7, <3>1, <3>2, GroupsAre DEF Grouped
    <3>4. TagWrite(x) = Octets(g)
      BY <2>7, <3>1, <3>2 DEF TagWrite, DownGroups
    <3>5. Spells(TagWrite(x), g)
      BY <3>3, <3>4, SpellsOctets
    <3>6. PICK e : e = one \o g
      OBVIOUS
    <3>7. Spells(IdentWrite(v), e)
      BY <2>5, <2>6, <3>5, <3>6, SpellsThen
    <3>8. ASSUME NEW s, Starts(s, e)
          PROVE  IdentRead(s) = Value(Kept("ident", v), Drop(s, Len(e)))
      <4>1. /\ s # <<>> /\ Head(s) = o /\ Starts(Tail(s), g)
            /\ Drop(Tail(s), n) = Drop(s, Len(e))
        BY <2>3, <3>3, <3>6, <3>8, StartsFirst
      <4>2. TagRead(Tail(s)) = Value(x, Drop(s, Len(e)))
        BY <2>7, <3>1, <3>2, <4>1, GroupsRead
      <4>3. PICK tag : tag = TagRead(Tail(s))
        OBVIOUS
      <4>4. tag.ok /\ tag.value = x /\ tag.rest = Drop(s, Len(e))
        BY <4>2, <4>3, ValueIs
      <4>5. IdentRead(s) = Value(IdentOf(o, tag.value), tag.rest)
        BY <1>4, <2>2, <4>1, <4>3, <4>4 DEF IdentRead, IdentOf
      <4> QED
        BY <2>2, <4>4, <4>5
    <3> QED
      BY <1>1, <3>7, <3>8, SpellsReads
  <2>8. CASE ~Fits56(x)
    <3>1. TagWrite(x).ok = FALSE
      BY <2>8 DEF TagWrite, Rejected
    <3>2. IdentWrite(v).ok = FALSE
      <4>1. PICK y, z : y = Octets(one) /\ z = TagWrite(x)
        OBVIOUS
      <4>2. y.ok = TRUE /\ z.ok = FALSE
        BY <2>6, <3>1, <4>1 DEF Spells
      <4>3. IdentWrite(v) = [ok |-> y.ok /\ z.ok,
                             chunks |-> y.chunks \o (IF y.ok THEN z.chunks ELSE <<>>)]
        BY <2>5, <4>1 DEF Then
      <4>4. IdentWrite(v).ok = (y.ok /\ z.ok)
        BY ONLY <4>3
      <4> QED
        BY <4>2, <4>4
    <3> QED
      BY <3>2 DEF Reads
  <2> QED
    BY <2>7, <2>8
<1> QED
  BY <1>3, <1>4

(* A number with its tag and its length: what is left when they have been  *)
(* read, and the length.                                                   *)
Headed(e, n, b) ==
    \A s : Starts(s, e) => /\ DerHeader(s) = Value(Bits(n), Drop(s, 2))
                           /\ Starts(Drop(s, 2), b)
                           /\ Drop(Drop(s, 2), Len(b)) = Drop(s, Len(e))

(* The header of what a writer spelt is read as its length.                *)
LEMMA HeaderRead ==
    ASSUME NEW t \in Tags, NEW n \in 0..20, NEW w, NEW b, Spells(w, b)
    PROVE  \E e : Spells(DerWrite(t, n, w), e) /\ Headed(e, n, b)
<1>1. PICK o, c : o = Bits(t) /\ c = Bits(n)
  OBVIOUS
<1>2. PICK d, e : d = <<c>> \o b /\ e = <<o>> \o d
  OBVIOUS
<1>3. IsSeq(b) /\ Len(b) \in Nat
  BY SeqDomain DEF Spells
<1>4. IsSeq(d) /\ Len(d) = 1 + Len(b) /\ IsSeq(e) /\ Len(e) = 2 + Len(b)
  <2>1. IsSeq(<<c>>) /\ Len(<<c>>) = 1 /\ IsSeq(<<o>>) /\ Len(<<o>>) = 1
    BY OneSeq
  <2>2. JoinOf(d, <<c>>, b)
    BY <1>2, <1>3, <2>1, JoinIs
  <2>3. IsSeq(d) /\ Len(d) = 1 + Len(b)
    BY <2>1, <2>2 DEF JoinOf
  <2>4. JoinOf(e, <<o>>, d)
    BY <1>2, <2>1, <2>3, JoinIs
  <2>5. IsSeq(e) /\ Len(e) = 1 + Len(d)
    BY <2>1, <2>4 DEF JoinOf
  <2> QED
    BY <1>3, <2>3, <2>5
<1>5. o \subseteq 0..3 /\ c \subseteq 0..4
  <2>1. t \in 0..15
    BY SamplesAssumption
  <2>2. Bits(t) \subseteq 0..3
    BY ONLY <2>1, NumbersAssumption
  <2>3. Bits(n) \subseteq 0..4
    BY ONLY n \in 0..20, NumbersAssumption
  <2> QED
    BY <1>1, <2>2, <2>3
<1>6. Low(o, 5) = o /\ o # 0..4
  <2>1. 4 \notin o /\ \A i \in o : i \in 0..4
    BY <1>5
  <2> QED
    BY <2>1 DEF Low
<1>7. Spells(DerWrite(t, n, w), e)
  <2>1. Spells(IdentWrite(Universal(t)), <<o>>)
    <3>1. o \subseteq 0..4 /\ o # 0..4
      BY <1>5, <1>6
    <3>2. Universal(t).identifier = o /\ Universal(t).constructed = FALSE /\ Universal(t).class = {}
      BY <1>1 DEF Universal
    <3>3. IdentWrite(Universal(t)) = Octets(<<o>>)
      BY <3>1, <3>2 DEF IdentWrite
    <3>4. IsSeq(<<o>>)
      BY OneSeq
    <3> QED
      BY <3>3, <3>4, SpellsOctets
  <2>2. Spells(LengthWrite(Bits(n)), <<c>>)
    <3>1. c \subseteq 0..6
      BY <1>5
    <3>2. LengthWrite(Bits(n)) = Octets(<<c>>)
      BY <1>1, <3>1 DEF LengthWrite
    <3>3. IsSeq(<<c>>)
      BY OneSeq
    <3> QED
      BY <3>2, <3>3, SpellsOctets
  <2>3. PICK h : h = <<o>> \o <<c>>
    OBVIOUS
  <2>4. Spells(DerWrite(t, n, w), h \o b)
    <3>1. PICK y : y = Then(IdentWrite(Universal(t)), LengthWrite(Bits(n)))
      OBVIOUS
    <3>2. Spells(y, h)
      BY <2>1, <2>2, <2>3, <3>1, SpellsThen
    <3> QED
      BY <3>1, <3>2, SpellsThen DEF DerWrite
  <2>5. h \o b = e
    <3>1. IsSeq(<<o>>) /\ Len(<<o>>) = 1 /\ IsSeq(<<c>>) /\ Len(<<c>>) = 1
          /\ <<o>>[1] = o /\ <<c>>[1] = c
      BY OneSeq
    <3>2. JoinOf(h, <<o>>, <<c>>)
      BY <2>3, <3>1, JoinIs
    <3>3. IsSeq(h) /\ Len(h) = 2 /\ h[1] = o /\ h[2] = c
      <4>1. 1 \in 1..1 /\ 1 + 1 = 2
        OBVIOUS
      <4> QED
        BY <3>1, <3>2, <4>1 DEF JoinOf
    <3>4. PICK y : y = h \o b
      OBVIOUS
    <3>5. JoinOf(y, h, b)
      BY <1>3, <3>3, <3>4, JoinIs
    <3>6. JoinOf(d, <<c>>, b) /\ JoinOf(e, <<o>>, d)
      BY <1>2, <1>3, <1>4, <3>1, JoinIs
    <3>7. IsSeq(y) /\ Len(y) = Len(e)
      BY <1>4, <3>3, <3>5 DEF JoinOf
    <3>8. ASSUME NEW i \in 1..Len(e) PROVE y[i] = e[i]
      <4>1. CASE i = 1
        <5>1. 1 \in 1..1 /\ 1 \in 1..2
          OBVIOUS
        <5> QED
          BY <3>1, <3>3, <3>5, <3>6, <4>1, <5>1 DEF JoinOf
      <4>2. CASE i = 2
        <5>1. 1 \in 1..1 /\ 2 \in 1..2 /\ 1 + 1 = 2 /\ 1 \in 1..Len(d)
          BY <1>3, <1>4
        <5> QED
          BY <3>1, <3>3, <3>5, <3>6, <4>2, <5>1 DEF JoinOf
      <4>3. CASE i # 1 /\ i # 2
        <5>1. PICK j, k : j = i - 2 /\ k = i - 1
          OBVIOUS
        <5>2. /\ j \in 1..Len(b) /\ 2 + j = i /\ k \in 1..Len(d) /\ 1 + k = i /\ 1 + j = k
          BY <1>3, <1>4, <4>3, <5>1
        <5>3. y[2 + j] = b[j] /\ d[1 + j] = b[j] /\ e[1 + k] = d[k]
          BY <3>1, <3>3, <3>5, <3>6, <5>2 DEF JoinOf
        <5> QED
          BY <5>2, <5>3
      <4> QED
        BY <4>1, <4>2, <4>3
    <3> QED
      BY <1>4, <3>4, <3>7, <3>8, SeqSame
  <2> QED
    BY <2>4, <2>5
<1>8. ASSUME NEW s, Starts(s, e)
      PROVE  /\ DerHeader(s) = Value(Bits(n), Drop(s, 2))
             /\ Starts(Drop(s, 2), b)
             /\ Drop(Drop(s, 2), Len(b)) = Drop(s, Len(e))
  <2>1. /\ s # <<>> /\ Head(s) = o /\ Starts(Tail(s), d) /\ Tail(s) = Drop(s, 1)
        /\ Drop(Tail(s), Len(d)) = Drop(s, Len(e))
    <3>1. IsSeq(d) /\ Starts(s, <<o>> \o d)
      BY <1>2, <1>4, <1>8
    <3>2. /\ s # <<>> /\ Head(s) = o /\ Tail(s) = Drop(s, 1) /\ Starts(Tail(s), d)
          /\ Drop(Tail(s), Len(d)) = Drop(s, Len(<<o>> \o d))
      BY ONLY <3>1, StartsFirst
    <3> QED
      BY <1>2, <3>2
  <2>2. PICK t1 : t1 = Tail(s)
    OBVIOUS
  <2>3. /\ t1 # <<>> /\ Head(t1) = c /\ Starts(Tail(t1), b) /\ Tail(t1) = Drop(t1, 1)
        /\ Drop(Tail(t1), Len(b)) = Drop(t1, Len(d))
    <3>1. IsSeq(b) /\ Starts(t1, <<c>> \o b)
      BY <1>2, <1>3, <2>1, <2>2
    <3>2. /\ t1 # <<>> /\ Head(t1) = c /\ Tail(t1) = Drop(t1, 1) /\ Starts(Tail(t1), b)
          /\ Drop(Tail(t1), Len(b)) = Drop(t1, Len(<<c>> \o b))
      BY ONLY <3>1, StartsFirst
    <3> QED
      BY <1>2, <3>2
  <2>4. Drop(t1, 1) = Drop(s, 2)
    <3>1. IsSeq(s) /\ Len(s) \in Nat /\ Len(e) <= Len(s)
      BY <1>8, SeqDomain DEF Starts
    <3>2. 1 \in 0..Len(s) /\ 1 \in 0..(Len(s) - 1) /\ 1 + 1 = 2
      BY <1>3, <1>4, <3>1
    <3>3. PICK j, k : j = 1 /\ k = 1
      OBVIOUS
    <3>4. IsSeq(s) /\ j \in 0..Len(s) /\ k \in 0..(Len(s) - j)
      BY <3>1, <3>2, <3>3
    <3>5. Drop(Drop(s, j), k) = Drop(s, j + k)
      BY ONLY <3>4, DropDrop
    <3> QED
      BY <2>1, <2>2, <3>2, <3>3, <3>5
  <2>5. PICK i : i = IdentRead(s)
    OBVIOUS
  <2>6. i.ok /\ i.rest = t1
    <3>1. i = Value(IdentOf(o, o), t1)
      BY <1>6, <2>1, <2>2, <2>5 DEF IdentRead, IdentOf
    <3> QED
      BY <3>1, ValueIs
  <2>7. LengthRead(t1) = Value(c, Tail(t1))
    <3>1. 7 \notin c
      BY <1>5
    <3> QED
      BY <2>3, <3>1 DEF LengthRead
  <2>8. DerHeader(s) = LengthRead(t1)
    BY <2>5, <2>6 DEF DerHeader
  <2> QED
    BY <1>1, <2>1, <2>2, <2>3, <2>4, <2>7, <2>8
<1> QED
  BY <1>7, <1>8 DEF Headed

(* The integers with a tag and a length.                                   *)
LEMMA DerReads ==
    ASSUME NEW v \in Word, NEW t \in Tags
    PROVE  Reads("derU64", v, DerU64Write(t, v)) /\ Reads("derS64", v, DerS64Write(t, v))
<1>1. v \subseteq 0..63 /\ v \subseteq Int
  BY DEF Word
<1>2. U64Length(v) \in 1..8 /\ S64Length(v) \in 1..8
  BY <1>1, Lengths
<1>3. ASSUME NEW n \in 1..8
      PROVE  \E e : /\ Spells(DerWrite(t, n, BerU64Write(n, v)), e)
                    /\ \A s : Starts(s, e) =>
                          /\ DerHeader(s) = Value(Bits(n), Drop(s, 2))
                          /\ Starts(Drop(s, 2), BigEndian(v, n))
                          /\ Drop(Drop(s, 2), n) = Drop(s, Len(e))
                    /\ Number(Bits(n)) = n
  <2>1. n \in 0..20
    OBVIOUS
  <2>2. PICK w, b : w = BerU64Write(n, v) /\ b = BigEndian(v, n)
    OBVIOUS
  <2>3. Spells(w, b) /\ Len(b) = n
    BY <2>2, BerSpells
  <2>4. \E e : Spells(DerWrite(t, n, w), e) /\ Headed(e, n, b)
    BY ONLY t \in Tags, <2>1, <2>3, HeaderRead
  <2>5. Number(Bits(n)) = n
    BY ONLY <2>1, NumbersAssumption
  <2> QED
    BY <2>2, <2>3, <2>4, <2>5 DEF Headed
<1>4. Reads("derU64", v, DerU64Write(t, v))
  <2>1. PICK n \in 1..8 : n = U64Length(v)
    BY <1>2
  <2>2. PICK e : /\ Spells(DerWrite(t, n, BerU64Write(n, v)), e)
                 /\ \A s : Starts(s, e) =>
                       /\ DerHeader(s) = Value(Bits(n), Drop(s, 2))
                       /\ Starts(Drop(s, 2), BigEndian(v, n))
                       /\ Drop(Drop(s, 2), n) = Drop(s, Len(e))
                 /\ Number(Bits(n)) = n
    BY <1>3
  <2>3. ASSUME NEW s, Starts(s, e) PROVE Got("derU64", v, s) = Value(Kept("derU64", v), Drop(s, Len(e)))
    <3>1. PICK h : h = DerHeader(s)
      OBVIOUS
    <3>2. h = Value(Bits(n), Drop(s, 2))
      BY <2>2, <2>3, <3>1
    <3>3. h.ok /\ h.value = Bits(n) /\ h.rest = Drop(s, 2)
      BY <3>2, ValueIs
    <3>4. Got("derU64", v, s) = BerU64Read(Drop(s, 2), n)
      BY <2>2, <3>1, <3>3 DEF Got, DerU64Read
    <3>5. n \in 0..8 /\ Starts(Drop(s, 2), BigEndian(v, n))
      BY <2>2, <2>3
    <3>6. BerU64Read(Drop(s, 2), n) = Value(v \intersect 0..(8 * n - 1), Drop(Drop(s, 2), n))
      BY <1>1, <3>5, IntegersRead
    <3>7. v \intersect 0..(8 * n - 1) = v
      <4>1. v \subseteq 0..(8 * n - 1)
        BY <1>1, <2>1, Extents
      <4> QED
        BY <4>1
    <3> QED
      BY <2>2, <2>3, <3>4, <3>6, <3>7, KeptIs
  <2> QED
    BY <2>1, <2>2, <2>3, SpellsReads DEF DerU64Write
<1>5. Reads("derS64", v, DerS64Write(t, v))
  <2>1. PICK n \in 1..8 : n = S64Length(v)
    BY <1>2
  <2>2. PICK e : /\ Spells(DerWrite(t, n, BerU64Write(n, v)), e)
                 /\ \A s : Starts(s, e) =>
                       /\ DerHeader(s) = Value(Bits(n), Drop(s, 2))
                       /\ Starts(Drop(s, 2), BigEndian(v, n))
                       /\ Drop(Drop(s, 2), n) = Drop(s, Len(e))
                 /\ Number(Bits(n)) = n
    BY <1>3
  <2>3. ASSUME NEW s, Starts(s, e) PROVE Got("derS64", v, s) = Value(Kept("derS64", v), Drop(s, Len(e)))
    <3>1. PICK h : h = DerHeader(s)
      OBVIOUS
    <3>2. h = Value(Bits(n), Drop(s, 2))
      BY <2>2, <2>3, <3>1
    <3>3. h.ok /\ h.value = Bits(n) /\ h.rest = Drop(s, 2)
      BY <3>2, ValueIs
    <3>4. Got("derS64", v, s) = BerS64Read(Drop(s, 2), n)
      BY <2>2, <3>1, <3>3 DEF Got, DerS64Read
    <3>5. Starts(Drop(s, 2), BigEndian(v, n))
      BY <2>2, <2>3
    <3>6. BerS64Read(Drop(s, 2), n) = Value(v, Drop(Drop(s, 2), n))
      BY <1>1, <2>1, <3>5, SignedRead
    <3> QED
      BY <2>2, <2>3, <3>4, <3>6, KeptIs
  <2> QED
    BY <2>1, <2>2, <2>3, SpellsReads DEF DerS64Write
<1> QED
  BY <1>4, <1>5

-----------------------------------------------------------------------------
(* Floating point numbers *)

(* The width of a float in octets is its width.                            *)
LEMMA Widths ==
    ASSUME NEW f \in {F32, F64}
    PROVE  f.width \div 8 \in {4, 8} /\ 8 * (f.width \div 8) = f.width
BY Fields, SMT

(* The octets of an IEEE number are read as the number.                    *)
LEMMA IeeeRestored ==
    ASSUME NEW f \in {F32, F64}, NEW v, v \subseteq 0..(f.width - 1)
    PROVE  \E e : /\ Spells(IeeeWrite(f, v), e)
                  /\ \A s : Starts(s, e) => IeeeRead(f, s) = Value(v, Drop(s, Len(e)))
<1>1. PICK z : z = f.width \div 8
  OBVIOUS
<1>2. z \in 0..8 /\ z \in Nat /\ v \subseteq 0..(8 * z - 1) /\ v \subseteq Int
  BY <1>1, Widths
<1>3. PICK e : e = LittleEndian(v, z)
  OBVIOUS
<1>4. IsSeq(e) /\ Len(e) = z
  BY <1>2, <1>3, EndianIs
<1>5. Spells(IeeeWrite(f, v), e)
  BY <1>1, <1>3, <1>4, SpellsOne DEF IeeeWrite
<1>6. ASSUME NEW s, Starts(s, e) PROVE IeeeRead(f, s) = Value(v, Drop(s, Len(e)))
  <2>1. PICK r : r = ReadBytes(s, z)
    OBVIOUS
  <2>2. r = Value(e, Drop(s, Len(e)))
    BY <1>4, <1>6, <2>1, BytesRead
  <2>3. r.ok /\ r.value = e /\ r.rest = Drop(s, Len(e))
    BY <2>2, ValueIs
  <2>4. FromLittleEndian(e) = v
    <3>1. FromLittleEndian(e) = v \intersect 0..(8 * z - 1)
      BY <1>2, <1>3, OctetsJoined
    <3> QED
      BY <1>2, <3>1
  <2> QED
    BY <1>1, <2>1, <2>3, <2>4 DEF IeeeRead
<1> QED
  BY <1>5, <1>6

(* IEEE numbers.                                                           *)
LEMMA IeeeReads ==
    ASSUME NEW v
    PROVE  /\ v \in Word32 => Reads("ieee32", v, Ieee32Write(v))
           /\ v \in Word => Reads("ieee64", v, Ieee64Write(v))
<1>1. ASSUME v \in Word32 PROVE Reads("ieee32", v, Ieee32Write(v))
  <2>1. F32 \in {F32, F64} /\ v \subseteq 0..(F32.width - 1)
    BY <1>1, Fields DEF Word32
  <2>2. PICK e : /\ Spells(IeeeWrite(F32, v), e)
                 /\ \A s : Starts(s, e) => IeeeRead(F32, s) = Value(v, Drop(s, Len(e)))
    BY ONLY <2>1, IeeeRestored
  <2>3. \A s : Got("ieee32", v, s) = IeeeRead(F32, s)
    BY DEF Got, Ieee32Read
  <2>4. Kept("ieee32", v) = v
    BY KeptIs
  <2> QED
    BY <2>2, <2>3, <2>4, SpellsReads DEF Ieee32Write
<1>2. ASSUME v \in Word PROVE Reads("ieee64", v, Ieee64Write(v))
  <2>1. F64 \in {F32, F64} /\ v \subseteq 0..(F64.width - 1)
    BY <1>2, Fields DEF Word
  <2>2. PICK e : /\ Spells(IeeeWrite(F64, v), e)
                 /\ \A s : Starts(s, e) => IeeeRead(F64, s) = Value(v, Drop(s, Len(e)))
    BY ONLY <2>1, IeeeRestored
  <2>3. \A s : Got("ieee64", v, s) = IeeeRead(F64, s)
    BY DEF Got, Ieee64Read
  <2>4. Kept("ieee64", v) = v
    BY KeptIs
  <2> QED
    BY <2>2, <2>3, <2>4, SpellsReads DEF Ieee64Write
<1> QED
  BY <1>1, <1>2

(* Vectors of words of a float's width.                                    *)
Vector(f, v) == IsSeq(v) /\ \A i \in 1..Len(v) : v[i] \subseteq 0..(f.width - 1)

(* The numbers of a vector are found in its octets.                        *)
LEMMA IeeeVecRestored ==
    ASSUME NEW f \in {F32, F64}, NEW v, Vector(f, v), v = <<>> \/ f = F32,
           NEW s, Starts(s, FlattenSeq(IeeeVecWrite(f, v).chunks))
    PROVE  IeeeVecRead(f, s, Len(v)).ok /\ IeeeVecRead(f, s, Len(v)).value = v
<1>1. PICK n, z : n = Len(v) /\ z = f.width \div 8
  OBVIOUS
<1>2. n \in Nat /\ DOMAIN v = 1..n /\ IsSeq(v)
  BY <1>1, SeqDomain DEF Vector
<1>3. z \in {4, 8} /\ z \in Nat /\ z \in 0..8 /\ 8 * z - 1 = f.width - 1
  BY <1>1, Widths
<1>4. PICK q : q = [i \in DOMAIN v |-> LittleEndian(v[i], z)]
  OBVIOUS
<1>5. IsSeq(q) /\ Len(q) = n /\ \A i \in 1..n : q[i] = LittleEndian(v[i], z)
  <2>1. q = [i \in 1..n |-> q[i]]
    BY <1>2, <1>4
  <2>2. IsSeq(q) /\ Len(q) = n
    BY <1>2, <2>1, SeqMade
  <2> QED
    BY <1>2, <1>4, <2>2
<1>6. Items(q) /\ \A i \in 1..Len(q) : Len(q[i]) = z
  <2>1. \A i \in 1..n : IsSeq(q[i]) /\ Len(q[i]) = z
    BY <1>3, <1>5, EndianIs
  <2> QED
    BY <1>5, <2>1 DEF Items
<1>7. PICK e : e = FlattenSeq(q)
  OBVIOUS
<1>8. IsSeq(e) /\ Len(e) = n * z /\ \A i \in 1..n : SubSeq(e, (i - 1) * z + 1, i * z) = q[i]
  BY <1>3, <1>5, <1>6, <1>7, FlattenSized DEF Parts
<1>9. Starts(s, e)
  <2>1. IeeeVecWrite(f, v).chunks = <<e>>
    BY <1>1, <1>4, <1>7 DEF IeeeVecWrite
  <2>2. FlattenSeq(<<e>>) = e
    BY <1>8, FlattenOne
  <2> QED
    BY <2>1, <2>2
<1>10. PICK r : r = ReadBytes(s, n * z)
  OBVIOUS
<1>11. r.ok /\ r.value = e
  <2>1. r = Value(e, Drop(s, Len(e)))
    BY <1>8, <1>9, <1>10, BytesRead
  <2> QED
    BY <2>1, ValueIs
<1>12. ~(f # F32 /\ n > 0)
  BY <1>1, EmptyIsSeq
<1>13. PICK g : g = [i \in 1..n |-> FromLittleEndian(SubSeq(r.value, (i - 1) * z + 1, i * z))]
  OBVIOUS
<1>14. IeeeVecRead(f, s, n) = Value(g, r.rest)
  BY <1>1, <1>10, <1>11, <1>12, <1>13 DEF IeeeVecRead
<1>15. \A i \in 1..n : g[i] = v[i]
  <2> TAKE i \in 1..n
  <2>1. g[i] = FromLittleEndian(LittleEndian(v[i], z))
    BY <1>5, <1>8, <1>11, <1>13
  <2>2. v[i] \subseteq 0..(8 * z - 1)
    BY <1>1, <1>3 DEF Vector
  <2>3. PICK x : x = v[i]
    OBVIOUS
  <2>4. FromLittleEndian(LittleEndian(x, z)) = x \intersect 0..(8 * z - 1)
    <3>1. \A j \in x : j \in Int
      BY <1>3, <2>2, <2>3
    <3>2. x \subseteq Int
      BY <3>1
    <3> QED
      BY <1>3, <3>2, OctetsJoined
  <2> QED
    BY <2>1, <2>2, <2>3, <2>4
<1>16. g = v
  <2>1. v = [i \in 1..n |-> v[i]]
    BY <1>1, <1>2, SeqDomain
  <2> QED
    BY <1>13, <1>15, <2>1
<1> QED
  BY <1>1, <1>14, <1>16, ValueIs

(* Vectors of IEEE numbers.                                                *)
LEMMA IeeeVecReads ==
    ASSUME NEW v
    PROVE  /\ Vector(F32, v) => Reads("ieee32vec", v, Ieee32VecWrite(v))
           /\ Vector(F64, v) => Reads("ieee64vec", v, Ieee64VecWrite(v))
<1>1. ASSUME Vector(F32, v) PROVE Reads("ieee32vec", v, Ieee32VecWrite(v))
  <2>1. F32 \in {F32, F64}
    OBVIOUS
  <2>2. \A s : Got("ieee32vec", v, s) = IeeeVecRead(F32, s, Len(v))
    BY DEF Got, Ieee32VecRead
  <2>3. ASSUME NEW s, Starts(s, FlattenSeq(IeeeVecWrite(F32, v).chunks))
        PROVE  IeeeVecRead(F32, s, Len(v)).ok /\ IeeeVecRead(F32, s, Len(v)).value = v
    BY ONLY <1>1, <2>1, <2>3, IeeeVecRestored
  <2>4. Kept("ieee32vec", v) = v
    BY KeptIs
  <2> QED
    BY <2>2, <2>3, <2>4 DEF Reads, Decodes, Ieee32VecWrite
<1>2. ASSUME Vector(F64, v) PROVE Reads("ieee64vec", v, Ieee64VecWrite(v))
  <2>1. F64 \in {F32, F64} /\ F64 # F32
    BY Fields
  <2>2. \A s : Got("ieee64vec", v, s) = IeeeVecRead(F64, s, Len(v))
    BY DEF Got, Ieee64VecRead
  <2>3. Kept("ieee64vec", v) = v
    BY KeptIs
  <2>4. CASE v = <<>>
    <3>1. v = <<>> \/ F64 = F32
      BY <2>4
    <3>2. ASSUME NEW s, Starts(s, FlattenSeq(IeeeVecWrite(F64, v).chunks))
          PROVE  IeeeVecRead(F64, s, Len(v)).ok /\ IeeeVecRead(F64, s, Len(v)).value = v
      BY ONLY <1>2, <2>1, <3>1, <3>2, IeeeVecRestored
    <3> QED
      BY <2>2, <2>3, <3>2 DEF Reads, Decodes, Ieee64VecWrite
  <2>5. CASE v # <<>>
    <3>1. ~IeeeVecWrite(F64, v).ok
      BY <2>1, <2>5 DEF IeeeVecWrite
    <3> QED
      BY <3>1 DEF Reads, Ieee64VecWrite
  <2> QED
    BY <2>4, <2>5
<1> QED
  BY <1>1, <1>2

(* The sizes of the fields of a float.                                     *)
LEMMA Shape ==
    ASSUME NEW f \in {F32, F64}
    PROVE  /\ f.width = f.mant + f.exp + 1 /\ f.width \in {32, 64}
           /\ f.exp \in {8, 11} /\ f.mant \in {23, 52} /\ Bias(f) \in {127, 1023}
           /\ f.exp \in Int /\ f.mant \in Int /\ f.width \in Int /\ Bias(f) \in Int
BY Fields

(* The bits of the exponent, at the low end.                               *)
ExpBits(f, v) == Low(Shr(v, f.mant), f.exp)

(* The bits of the fields of a float.                                      *)
LEMMA FieldsHave ==
    ASSUME NEW f \in {F32, F64}, NEW v, v \subseteq 0..(f.width - 1)
    PROVE  /\ \A i : i \in Mantissa(f, v) <=> i \in v /\ i \in 0..(f.mant - 1)
           /\ \A i : i \in ExpBits(f, v) <=> i \in 0..(f.exp - 1) /\ i + f.mant \in v
<1>1. PICK w, p, x : w = f.width /\ p = f.mant /\ x = f.exp
  OBVIOUS
<1>2. w = p + x + 1 /\ x \in {8, 11} /\ p \in {23, 52} /\ p \in Int /\ x \in Int
  BY <1>1, Shape
<1>3. v \subseteq Int
  BY <1>1, <1>2
<1>4. \A i : i \in Shr(v, p) <=> i \in Nat /\ i + p \in v
  BY ONLY <1>2, <1>3, ShrHas
<1>5. \A i : i \in Low(Shr(v, p), x) <=> i \in 0..(x - 1) /\ i + p \in v
  <2>1. \A i \in 0..(x - 1) : i \in Nat
    BY <1>2
  <2> QED
    BY <1>4, <2>1 DEF Low
<1> QED
  BY <1>1, <1>5 DEF Mantissa, Low, ExpBits

(* A float is made of its fields: the mantissa m, the exponent e, the sign.*)
MadeOf(f, v, m, e, sign) ==
    /\ \A i \in 0..(f.mant - 1) : i \in m <=> i \in v
    /\ \A i \in 0..(f.exp - 1) : i \in e <=> i + f.mant \in v
    /\ sign <=> f.width - 1 \in v

(* Packing puts each field in its place.                                   *)
LEMMA PackIs ==
    ASSUME NEW f \in {F32, F64}, NEW v, v \subseteq 0..(f.width - 1),
           NEW m, NEW e, NEW sign, MadeOf(f, v, m, e, sign)
    PROVE  Pack(f, m, e, sign) = v
<1>1. PICK w, p, x : w = f.width /\ p = f.mant /\ x = f.exp
  OBVIOUS
<1>2. /\ w = p + x + 1 /\ x \in {8, 11} /\ p \in {23, 52} /\ w \in {32, 64}
      /\ p \in Int /\ x \in Int /\ w \in Int
  BY <1>1, Shape
<1>3. PICK y : y = Low(e, x)
  OBVIOUS
<1>4. \A i : i \in y <=> i \in e /\ i \in 0..(x - 1)
  BY <1>3 DEF Low
<1>5. y \subseteq Int
  BY <1>2, <1>4
<1>6. \A i : i \in Shl(y, p, w) <=> i \in 0..(w - 1) /\ i - p \in y
  BY ONLY <1>2, <1>5, ShlHas, ZenonT(40)
<1>7. PICK z : z = Pack(f, m, e, sign)
  OBVIOUS
<1>8. z = Low(m, p) \union Shl(y, p, w) \union (IF sign THEN {w - 1} ELSE {})
  BY <1>1, <1>3, <1>7 DEF Pack
<1>9. /\ \A i \in 0..(p - 1) : i \in m <=> i \in v
      /\ \A i \in 0..(x - 1) : i \in e <=> i + p \in v
      /\ sign <=> w - 1 \in v
  BY <1>1 DEF MadeOf
<1>10. \A i : i \in z <=> \/ i \in m /\ i \in 0..(p - 1)
                          \/ i \in 0..(w - 1) /\ i - p \in e /\ i - p \in 0..(x - 1)
                          \/ sign /\ i = w - 1
  BY <1>4, <1>6, <1>8 DEF Low
<1>11. ASSUME NEW i \in 0..(w - 1) PROVE i \in z <=> i \in v
  <2>1. CASE i \in 0..(p - 1)
    <3>1. ~(i - p \in 0..(x - 1)) /\ i # w - 1
      BY <1>2, <2>1
    <3> QED
      BY <1>9, <1>10, <2>1, <3>1
  <2>2. CASE i = w - 1
    <3>1. ~(i - p \in 0..(x - 1)) /\ ~(i \in 0..(p - 1))
      BY <1>2, <2>2
    <3> QED
      BY <1>9, <1>10, <2>2, <3>1
  <2>3. CASE ~(i \in 0..(p - 1)) /\ i # w - 1
    <3>1. PICK j : j = i - p
      OBVIOUS
    <3>2. j \in 0..(x - 1) /\ j + p = i
      BY <1>2, <2>3, <3>1
    <3>3. j \in e <=> i \in v
      BY <1>9, <3>2
    <3> QED
      BY <1>10, <2>3, <3>1, <3>2, <3>3
  <2> QED
    BY <2>1, <2>2, <2>3
<1>12. ASSUME NEW i, i \in z PROVE i \in 0..(w - 1)
  <2>1. CASE i \in 0..(p - 1)
    BY <1>2, <2>1
  <2>2. CASE i = w - 1
    BY <1>2, <2>2
  <2> QED
    BY <1>10, <1>12, <2>1, <2>2
<1>13. z = v
  BY <1>1, <1>11, <1>12
<1> QED
  BY <1>7, <1>13

(* A mantissa with a leading one, which is dropped: what is left of it is  *)
(* moved to the top of its field.                                          *)
Leads(t, y) == t \in y /\ \A i \in y : i <= t

NormalOf(f, y, t) ==
    /\ Clz(y, f.width) = f.width - 1 - t
    /\ \A j : j \in Normal(f, y) <=> j \in 0..(f.mant - 1) /\ j - f.mant + t \in y

(* Normalising moves the leading one out of the fraction.                  *)
LEMMA NormalHas ==
    ASSUME NEW f \in {F32, F64}, NEW y, y \subseteq 0..(f.width - 1), NEW t, Leads(t, y)
    PROVE  NormalOf(f, y, t)
<1>1. PICK w, p, x : w = f.width /\ p = f.mant /\ x = f.exp
  OBVIOUS
<1>2. /\ w = p + x + 1 /\ x \in {8, 11} /\ p \in {23, 52} /\ w \in {32, 64}
      /\ p \in Int /\ x \in Int /\ w \in Int
  BY <1>1, Shape
<1>3. t \in y /\ t \in 0..(w - 1) /\ y \subseteq Int /\ \A i \in y : i <= t
  BY <1>1, <1>2 DEF Leads
<1>4. Max(y) = t
  <2>1. w - 1 \in Nat /\ y \subseteq 0..(w - 1) /\ y # {}
    BY <1>1, <1>2, <1>3
  <2>2. Max(y) \in y /\ \A i \in y : i <= Max(y)
    BY <2>1, MaxIs
  <2>3. Max(y) <= t /\ t <= Max(y) /\ Max(y) \in Int
    BY <1>3, <2>2
  <2> QED
    BY <1>3, <2>3
<1>5. Clz(y, w) = w - 1 - t
  BY <1>3, <1>4 DEF Clz
<1>6. PICK n, k : n = w - t /\ k = x + 1
  OBVIOUS
<1>7. n \in Int /\ k \in Int /\ Clz(y, w) + 1 = n
  BY <1>2, <1>3, <1>5, <1>6
<1>8. PICK u : u = Shl(y, n, w)
  OBVIOUS
<1>9. \A i : i \in u <=> i \in 0..(w - 1) /\ i - n \in y
  BY ONLY <1>2, <1>3, <1>7, <1>8, ShlHas, ZenonT(40)
<1>10. u \subseteq Int
  BY <1>9
<1>11. \A i : i \in Shr(u, k) <=> i \in Nat /\ i + k \in u
  BY ONLY <1>7, <1>10, ShrHas
<1>12. Normal(f, y) = Shr(u, k)
  BY <1>1, <1>6, <1>7, <1>8 DEF Normal
<1>13. ASSUME NEW j PROVE j \in Shr(u, k) <=> j \in 0..(p - 1) /\ j - p + t \in y
  <2>1. CASE j \in 0..(p - 1)
    <3>1. PICK i : i = j + k
      OBVIOUS
    <3>2. j \in Nat /\ i \in 0..(w - 1) /\ i - n = j - p + t
      BY <1>2, <1>3, <1>6, <2>1, <3>1
    <3>3. i \in u <=> j - p + t \in y
      BY <1>9, <3>2
    <3> QED
      BY <1>11, <2>1, <3>1, <3>2, <3>3
  <2>2. CASE ~(j \in 0..(p - 1))
    <3>1. ASSUME j \in Nat PROVE ~(j + k \in 0..(w - 1))
      BY <1>2, <1>6, <2>2, <3>1
    <3> QED
      BY <1>9, <1>11, <2>2, <3>1
  <2> QED
    BY <2>1, <2>2
<1> QED
  BY <1>1, <1>5, <1>12, <1>13 DEF NormalOf

(* The exponent and its bits.                                              *)
ExponentOf(f, e, x) ==
    /\ e \in 0..(2 * Bias(f) + 1) /\ Bits(e) = x
    /\ e = 0 <=> x = {}
    /\ e = 2 * Bias(f) + 1 <=> x = ExponentMask(f)

(* The exponent's bits are the bits of the exponent, and the borders of    *)
(* its range are those of the field.                                       *)
LEMMA ExponentRestored ==
    ASSUME NEW f \in {F32, F64}, NEW v PROVE ExponentOf(f, Exponent(f, v), ExpBits(f, v))
<1>1. PICK x, e : x = ExpBits(f, v) /\ e = Exponent(f, v)
  OBVIOUS
<1>2. e = Number(x)
  BY <1>1 DEF Exponent, ExpBits
<1>3. e \in 0..(2 * Bias(f) + 1)
  BY <1>1, ExponentIs
<1>4. x \in SUBSET (0..(f.exp - 1)) /\ {} \in SUBSET (0..(f.exp - 1))
      /\ ExponentMask(f) \in SUBSET (0..(f.exp - 1))
  BY <1>1 DEF ExpBits, Low, ExponentMask
<1>5. \A y \in SUBSET (0..(f.exp - 1)) : Bits(Number(y)) = y
  BY ONLY f \in {F32, F64}, ExponentsAssumption
<1>6. Number(ExponentMask(f)) = 2 * Bias(f) + 1
  BY ONLY f \in {F32, F64}, ExponentsAssumption
<1>7. Bits(0) = {} /\ Number(Bits(0)) = 0
  <2>1. 0 \in 0..20
    OBVIOUS
  <2> QED
    BY ONLY <2>1, NumbersAssumption
<1>8. Bits(e) = x
  BY <1>2, <1>4, <1>5
<1>9. e = 0 <=> x = {}
  BY <1>2, <1>7, <1>8
<1>10. e = 2 * Bias(f) + 1 <=> x = ExponentMask(f)
  <2>1. Bits(2 * Bias(f) + 1) = ExponentMask(f)
    BY <1>4, <1>5, <1>6
  <2> QED
    BY <1>2, <1>6, <1>8, <2>1
<1> QED
  BY <1>1, <1>3, <1>8, <1>9, <1>10 DEF ExponentOf

(* The exponents of floats, with their sign.                               *)
LEMMA SignedIs ==
    ASSUME NEW n, n \in -1200..1200
    PROVE  /\ Signed(n) \subseteq 0..63 /\ SignedNumber(Signed(n)) = n
           /\ S64Length(Signed(n)) \in 1..2
<1>1. n \in FloatExponents
  BY DEF FloatExponents
<1>2. SignedNumber(Signed(n)) = n
  BY ONLY <1>1, ExponentsAssumption
<1>3. S64Length(Signed(n)) \in 1..2
  BY ONLY <1>1, NumbersAssumption
<1>4. Signed(n) \subseteq 0..63
  BY DEF Signed, Bits, Complement
<1> QED
  BY <1>2, <1>3, <1>4

-----------------------------------------------------------------------------
(* The reals of ASN.1 *)

(* A mantissa with its leading one, without the zeros at its end: where    *)
(* its bits have been moved from, and the exponent of the last.            *)
ShiftedBy(x, tz, frac) ==
    /\ tz \in 0..52 /\ tz \in x
    /\ frac \subseteq 0..52 /\ 0 \in frac
    /\ \A i : i \in frac <=> i \in 0..52 /\ i + tz \in x

(* Zeros at the low end are dropped, and nothing else is.                  *)
LEMMA TrailingZeros ==
    ASSUME NEW x, x \subseteq 0..52, x # {}
    PROVE  ShiftedBy(x, Ctz(x, 64), Shr(x, Ctz(x, 64)))
<1>1. PICK tz : tz = Ctz(x, 64)
  OBVIOUS
<1>2. 52 \in Nat /\ 64 \in Nat
  OBVIOUS
<1>3. tz \in 0..52 /\ \A i \in x : tz <= i
  BY ONLY x \subseteq 0..52, x # {}, <1>1, <1>2, LowestBit
<1>4. tz \in x
  <2>1. x \in SUBSET Nat
    OBVIOUS
  <2>2. Min(x) \in x
    BY <2>1, MinIs
  <2> QED
    BY <1>1, <2>2 DEF Ctz
<1>5. x \subseteq Int /\ tz \in Int
  BY <1>3
<1>6. \A i : i \in Shr(x, tz) <=> i \in Nat /\ i + tz \in x
  BY ONLY <1>5, ShrHas
<1>7. \A i : i \in Shr(x, tz) <=> i \in 0..52 /\ i + tz \in x
  <2>1. \A i \in Nat : i + tz \in x => i \in 0..52
    BY <1>3
  <2> QED
    BY <1>6, <2>1
<1>8. 0 \in Shr(x, tz)
  <2>1. 0 \in 0..52 /\ 0 + tz = tz
    BY <1>3
  <2> QED
    BY <1>4, <1>7, <2>1
<1> QED
  BY <1>1, <1>3, <1>4, <1>7, <1>8 DEF ShiftedBy

(* The exponents that the field has room for.                              *)
LEMMA ExponentRange == ASSUME NEW n, n \in 0..2047 PROVE n \in 0..(2^F64.exp - 1)
<1>1. 0..(2^F64.exp - 1) = 0..2047
  BY ONLY ExponentsAssumption
<1>2. PICK p : p = 2^F64.exp - 1
  OBVIOUS
<1>3. n \in 0..p
  BY <1>1, <1>2
<1> QED
  BY <1>2, <1>3

(* The fraction and the exponent of a real, of which the real is made.     *)
Assembles(v, frac, sexp) ==
    /\ frac \subseteq 0..63 /\ sexp \in -1200..1200
    /\ RealInRange(frac, sexp)
    /\ ~IsDenorm(F64, v) => RealAssemble(Sign(F64, v), frac, sexp) = v

(* What a real's reader assembles is the double, unless it is denormal.    *)
LEMMA RealAssembled ==
    ASSUME NEW v \in Word PROVE Assembles(v, RealData(v).frac, RealData(v).sexp)
<1>1. PICK exp, man, all, tz, lz :
         /\ exp = Exponent(F64, v) /\ man = Mantissa(F64, v)
         /\ all = man \union (IF exp > 0 THEN {52} ELSE {})
         /\ tz = Ctz(all, 64) /\ lz = Clz(all, 64)
  OBVIOUS
<1>2. PICK frac, sexp : /\ frac = Shr(all, tz)
                        /\ sexp = IF exp > 0 THEN exp + lz + tz - 63 - 1023 ELSE 0
  OBVIOUS
<1>3. RealData(v).frac = frac /\ RealData(v).sexp = sexp
  BY <1>1, <1>2, Fields DEF RealData
<1>4. F64 \in {F32, F64} /\ v \subseteq 0..(F64.width - 1) /\ v \subseteq 0..63
  BY Fields DEF Word
<1>5. PICK x : x = ExpBits(F64, v)
  OBVIOUS
<1>6. exp \in 0..2047 /\ Bits(exp) = x /\ (exp = 0 <=> x = {})
  <2>1. ExponentOf(F64, exp, x)
    BY <1>1, <1>4, <1>5, ExponentRestored
  <2> QED
    BY <2>1, Fields DEF ExponentOf
<1>7. /\ \A i : i \in man <=> i \in v /\ i \in 0..51
      /\ \A i : i \in x <=> i \in 0..10 /\ i + 52 \in v
  <2>1. /\ \A i : i \in Mantissa(F64, v) <=> i \in v /\ i \in 0..(F64.mant - 1)
        /\ \A i : i \in ExpBits(F64, v) <=> i \in 0..(F64.exp - 1) /\ i + F64.mant \in v
    BY ONLY <1>4, FieldsHave
  <2>2. F64.mant - 1 = 51 /\ F64.exp - 1 = 10 /\ F64.mant = 52
    BY Fields
  <2> QED
    BY <1>1, <1>5, <2>1, <2>2
<1>8. IsDenorm(F64, v) <=> exp = 0 /\ man # {}
  BY <1>1 DEF IsDenorm
<1>9. PICK sign : sign = Sign(F64, v)
  OBVIOUS
<1>10. F64.mant - 1 = 51 /\ F64.exp - 1 = 10 /\ F64.mant = 52
  BY Fields
<1>11. all \subseteq 0..52
  BY <1>1, <1>7
<1>12. ASSUME NEW m, NEW e, \A i \in 0..51 : i \in m <=> i \in v, \A i \in 0..10 : i \in e <=> i \in x
       PROVE  Pack(F64, m, e, sign) = v
  <2>1. MadeOf(F64, v, m, e, Sign(F64, v))
    BY <1>7, <1>10, <1>12 DEF MadeOf, Sign
  <2>2. Pack(F64, m, e, Sign(F64, v)) = v
    BY ONLY <1>4, <2>1, PackIs
  <2> QED
    BY <1>9, <2>2
<1>13. CASE exp = 0 /\ man = {}
  <2>1. frac = {} /\ sexp = 0
    <3>1. all = {}
      BY <1>1, <1>13
    <3> QED
      BY <1>2, <1>13, <3>1 DEF Shr
  <2>2. Pack(F64, {}, {}, sign) = v
    BY <1>6, <1>7, <1>12, <1>13
  <2>3. RealAssemble(sign, frac, sexp) = v
    <3>1. frac # {0}
      BY <2>1
    <3> QED
      BY <2>1, <2>2, <3>1 DEF RealAssemble
  <2>4. RealInRange(frac, sexp)
    BY <2>1 DEF RealInRange
  <2> QED
    BY <1>3, <1>9, <2>1, <2>3, <2>4 DEF Assembles
<1>14. ASSUME all # {} PROVE ShiftedBy(all, tz, frac)
  BY <1>1, <1>2, <1>11, <1>14, TrailingZeros
<1>15. CASE exp = 0 /\ man # {}
  <2>1. sexp = 0 /\ all # {}
    BY <1>1, <1>2, <1>15
  <2>2. frac \subseteq 0..52 /\ frac # {}
    BY <1>14, <2>1 DEF ShiftedBy
  <2>3. Clz(frac, 64) \in 11..63
    <3>1. 52 \in Nat
      OBVIOUS
    <3>2. Max(frac) \in 0..52 /\ Clz(frac, 64) = 64 - 1 - Max(frac)
      BY ONLY <2>2, <3>1, HighestBit
    <3> QED
      BY <3>2
  <2>4. RealInRange(frac, sexp)
    <3>1. Bias(F64) + 63 + sexp - Clz(frac, 64) \in 0..2047
      BY <2>1, <2>3, Fields
    <3>2. Bias(F64) + 63 + sexp - Clz(frac, 64) \in 0..(2^F64.exp - 1)
      BY <3>1, ExponentRange
    <3> QED
      BY ONLY <3>2 DEF RealInRange
  <2> QED
    BY <1>3, <1>8, <1>15, <2>1, <2>2, <2>4 DEF Assembles
<1>16. CASE exp > 0
  <2>1. 52 \in all /\ all # {}
    BY <1>1, <1>16
  <2>2. ShiftedBy(all, tz, frac)
    BY <1>14, <2>1
  <2>3. /\ tz \in 0..52 /\ tz \in all /\ frac \subseteq 0..52 /\ 0 \in frac
        /\ \A i : i \in frac <=> i \in 0..52 /\ i + tz \in all
    BY <2>2 DEF ShiftedBy
  <2>4. lz = 11
    <3>1. 52 \in Nat
      OBVIOUS
    <3>2. Max(all) \in 0..52 /\ 52 <= Max(all) /\ Clz(all, 64) = 64 - 1 - Max(all)
      BY ONLY <1>11, <2>1, <3>1, HighestBit
    <3> QED
      BY <1>1, <3>2
  <2>5. sexp = exp + tz - 1075 /\ sexp \in -1200..1200
    BY <1>2, <1>6, <1>16, <2>3, <2>4
  <2>6. PICK t : t = 52 - tz
    OBVIOUS
  <2>7. t \in frac /\ t \in 0..52 /\ \A i \in frac : i <= t
    <3>1. t \in 0..52 /\ t + tz = 52
      BY <2>3, <2>6
    <3>2. \A i \in frac : i <= t
      <4> TAKE i \in frac
      <4>1. i \in 0..52 /\ i + tz \in 0..52
        BY <1>11, <2>3
      <4> QED
        BY <2>3, <2>6, <4>1
    <3> QED
      BY <2>1, <2>3, <3>1, <3>2
  <2>8. NormalOf(F64, frac, t)
    <3>1. frac \subseteq 0..(F64.width - 1)
      BY <2>3, Fields
    <3>2. Leads(t, frac)
      BY <2>7 DEF Leads
    <3> QED
      BY ONLY <1>4, <3>1, <3>2, NormalHas
  <2>9. /\ Clz(frac, 64) = 63 - t
        /\ \A j : j \in Normal(F64, frac) <=> j \in 0..51 /\ j - 52 + t \in frac
    BY <2>8, Fields DEF NormalOf
  <2>10. Bias(F64) + 63 + sexp - Clz(frac, 64) = exp
    BY <1>6, <2>3, <2>5, <2>6, <2>9, Fields
  <2>11. RealInRange(frac, sexp)
    <3>1. Bias(F64) + 63 + sexp - Clz(frac, 64) \in 0..2047
      BY <1>6, <2>10
    <3>2. Bias(F64) + 63 + sexp - Clz(frac, 64) \in 0..(2^F64.exp - 1)
      BY <3>1, ExponentRange
    <3> QED
      BY ONLY <3>2 DEF RealInRange
  <2>12. \A i \in 0..51 : i \in all <=> i \in v
    BY <1>1, <1>7, <1>16
  <2>13. RealAssemble(sign, frac, sexp) = v
    <3>1. CASE frac = {0} /\ sexp = 0
      <4>1. t = 0 /\ tz = 52 /\ exp = 1023
        BY <1>6, <2>3, <2>5, <2>6, <2>7, <3>1
      <4>2. \A i \in 0..51 : i \notin v
        <5> TAKE i \in 0..51
        <5>1. i \notin all
          <6> SUFFICES ASSUME i \in all PROVE FALSE
            OBVIOUS
          <6>1. \A j \in all : Ctz(all, 64) <= j
            <7>1. 52 \in Nat /\ 64 \in Nat
              OBVIOUS
            <7> QED
              BY ONLY <1>11, <2>1, <7>1, LowestBit
          <6> QED
            BY <1>1, <4>1, <6>1
        <5> QED
          BY <2>12, <5>1
      <4>3. Pack(F64, {}, Bits(exp), sign) = v
        BY <1>6, <1>12, <4>2
      <4> QED
        BY <3>1, <4>1, <4>3, Fields DEF RealAssemble
    <3>2. CASE ~(frac = {0} /\ sexp = 0)
      <4>1. frac # {}
        BY <2>3
      <4>2. Shr(Shl(frac, Clz(frac, 64) + 1, 64), 64 - F64.mant) = Normal(F64, frac)
        <5>1. F64.width = 64 /\ 64 - F64.mant = F64.exp + 1
          BY Fields
        <5> QED
          BY <5>1 DEF Normal
      <4>3. RealAssemble(sign, frac, sexp) = Pack(F64, Normal(F64, frac), Bits(exp), sign)
        BY <2>10, <3>2, <4>1, <4>2 DEF RealAssemble
      <4>4. ASSUME NEW i \in 0..51 PROVE i \in Normal(F64, frac) <=> i \in v
        <5>1. PICK j : j = i - 52 + t
          OBVIOUS
        <5>2. i \in Normal(F64, frac) <=> j \in frac
          BY <2>9, <5>1
        <5>3. j + tz = i /\ j \in Int /\ j <= 52
          BY <2>3, <2>6, <5>1
        <5>4. j \in frac <=> i \in all
          <6>1. ASSUME i \in all PROVE j \in 0..52
            <7>1. 52 \in Nat /\ 64 \in Nat
              OBVIOUS
            <7>2. \A k \in all : Ctz(all, 64) <= k
              BY ONLY <1>11, <2>1, <7>1, LowestBit
            <7>3. tz <= i
              BY <1>1, <6>1, <7>2
            <7> QED
              BY <2>3, <5>3, <7>3
          <6> QED
            BY <2>3, <5>3, <6>1
        <5> QED
          BY <2>12, <5>2, <5>4
      <4> QED
        BY <1>6, <1>12, <4>3, <4>4
    <3> QED
      BY <3>1, <3>2
  <2>14. frac \subseteq 0..63
    BY <2>3
  <2> QED
    BY <1>3, <1>9, <2>5, <2>11, <2>13, <2>14 DEF Assembles
<1> QED
  BY <1>6, <1>13, <1>15, <1>16

(* The reader of the octets b of a real makes of them what it should.      *)
RealGood(v, r) == r.ok /\ (Exact("derReal", v) => r.value = Kept("derReal", v))

RealDecodes(v, b) == \A s : Starts(s, b) => RealGood(v, RealRead(s, RealLength(v)))

(* What becomes of reals but denormal ones and NaNs.                       *)
LEMMA RealKept ==
    ASSUME NEW v
    PROVE  /\ Exact("derReal", v) <=> ~IsDenorm(F64, v)
           /\ ~IsNan(F64, v) => Kept("derReal", v) = v
           /\ IsNan(F64, v) => Kept("derReal", v) = QuietNan(F64)
BY DEF Exact, Kept

(* An octet that stands for a real by itself.                              *)
LEMMA SpecialDecodes ==
    ASSUME NEW v, NEW o, NEW x,
           \/ o = PlusInfinity /\ x = Infinity(F64)
           \/ o = MinusInfinity /\ x = Infinity(F64) \union {63}
           \/ o = MinusZero /\ x = {63}
           \/ o = NotANumber /\ x = QuietNan(F64),
           Kept("derReal", v) = x
    PROVE  Spells(Octets(<<o>>), <<o>>) /\ RealDecodes(v, <<o>>)
<1>1. IsSeq(<<o>>) /\ Len(<<o>>) = 1 /\ <<o>>[1] = o
  BY OneSeq
<1>2. Spells(Octets(<<o>>), <<o>>)
  BY <1>1, SpellsOctets
<1>3. ASSUME NEW s, Starts(s, <<o>>) PROVE RealGood(v, RealRead(s, RealLength(v)))
  <2>1. 1 \in 1..1
    OBVIOUS
  <2>2. IsSeq(s) /\ s[1] = o /\ 1 <= Len(s)
    BY <1>1, <1>3, <2>1 DEF Starts
  <2>3. s # <<>>
    BY <2>2, EmptyIsSeq
  <2>4. Head(s) = o
    BY <2>2, <2>3, DropTail
  <2>5. /\ MinusInfinity # PlusInfinity
        /\ MinusZero # PlusInfinity /\ MinusZero # MinusInfinity
        /\ NotANumber # PlusInfinity /\ NotANumber # MinusInfinity /\ NotANumber # MinusZero
    <3>1. 0 # 6 /\ 1 # 6 /\ 0 # 1
      OBVIOUS
    <3>2. 0 \notin PlusInfinity /\ 1 \notin PlusInfinity
      BY <3>1 DEF PlusInfinity
    <3>3. 0 \in MinusInfinity /\ 1 \notin MinusInfinity
      BY <3>1 DEF MinusInfinity
    <3>4. 0 \notin MinusZero /\ 1 \in MinusZero
      BY <3>1 DEF MinusZero
    <3>5. 0 \in NotANumber /\ 1 \in NotANumber
      BY DEF NotANumber
    <3> QED
      BY <3>2, <3>3, <3>4, <3>5
  <2>6. RealRead(s, RealLength(v)) = Value(x, Tail(s))
    BY <2>3, <2>4, <2>5 DEF RealRead
  <2> QED
    BY <2>6, ValueIs DEF RealGood
<1> QED
  BY <1>2, <1>3 DEF RealDecodes

(* Infinities are all ones in the exponent and none in the mantissa.       *)
LEMMA InfinityIs ==
    ASSUME NEW v \in Word, IsInf(F64, v)
    PROVE  v = IF Sign(F64, v) THEN Infinity(F64) \union {63} ELSE Infinity(F64)
<1>1. F64 \in {F32, F64} /\ v \subseteq 0..(F64.width - 1) /\ v \subseteq 0..63
  BY Fields DEF Word
<1>2. F64.mant - 1 = 51 /\ F64.exp - 1 = 10 /\ F64.mant = 52 /\ F64.width - 1 = 63
  BY Fields
<1>3. \A i \in 0..51 : i \notin v
  BY <1>2 DEF IsInf, Mantissa, Low
<1>4. \A i \in 0..10 : i + 52 \in v
  <2>1. ExpBits(F64, v) = 0..10
    BY <1>2 DEF IsInf, ExpBits, ExponentMask
  <2>2. \A i : i \in ExpBits(F64, v) <=> i \in 0..(F64.exp - 1) /\ i + F64.mant \in v
    BY ONLY <1>1, FieldsHave
  <2> QED
    BY <1>2, <2>1, <2>2
<1>5. PICK x : x = v \ {63}
  OBVIOUS
<1>6. x \subseteq 0..(F64.width - 1) /\ (\A i \in 0..62 : i \in x <=> i \in v) /\ 63 \notin x
  BY <1>1, <1>5
<1>7. MadeOf(F64, x, {}, ExponentMask(F64), FALSE)
  <2>1. \A i \in 0..51 : i \in 0..62
    OBVIOUS
  <2>2. \A i \in 0..10 : i + 52 \in 0..62 /\ i \in ExponentMask(F64)
    BY <1>2 DEF ExponentMask
  <2> QED
    BY <1>2, <1>3, <1>4, <1>6, <2>1, <2>2 DEF MadeOf
<1>8. Infinity(F64) = x
  <2>1. Pack(F64, {}, ExponentMask(F64), FALSE) = x
    BY ONLY <1>1, <1>6, <1>7, PackIs
  <2> QED
    BY <2>1 DEF Infinity
<1> QED
  BY <1>2, <1>5, <1>8 DEF Sign

(* A real is read as what was written, but for denormal ones.              *)
LEMMA RealRestored ==
    ASSUME NEW v \in Word
    PROVE  \E b : Spells(RealWrite(v), b) /\ RealDecodes(v, b)
<1>1. F64 \in {F32, F64} /\ v \subseteq 0..(F64.width - 1) /\ v \subseteq 0..63
  BY Fields DEF Word
<1>2. IsInf(F64, v) \/ IsNan(F64, v) => ~IsZero(F64, v)
  <2> SUFFICES ASSUME v \subseteq {63} PROVE Low(Shr(v, 52), 11) # 0..10
    BY Fields DEF IsInf, IsNan, IsZero, ExponentMask
  <2>1. \A i \in v : i - 52 # 0
    OBVIOUS
  <2>2. 0 \notin Shr(v, 52)
    BY <2>1 DEF Shr
  <2> QED
    BY <2>2 DEF Low
<1>3. CASE IsZero(F64, v) /\ Sign(F64, v)
  <2>1. ~IsInf(F64, v) /\ ~IsNan(F64, v)
    BY <1>2, <1>3
  <2>2. RealWrite(v) = Octets(<<MinusZero>>)
    BY <1>3, <2>1 DEF RealWrite
  <2>3. v = {63}
    <3>1. F64.width - 1 = 63
      BY Fields
    <3>2. v \subseteq {63} /\ 63 \in v
      BY <1>3, <3>1 DEF IsZero, Sign
    <3> QED
      BY <3>2
  <2>4. Kept("derReal", v) = {63}
    BY <2>1, <2>3, RealKept
  <2> QED
    BY <2>2, <2>4, SpecialDecodes
<1>4. CASE IsInf(F64, v)
  <2>1. ~IsZero(F64, v) /\ ~IsNan(F64, v)
    BY <1>2, <1>4 DEF IsNan, IsInf
  <2>2. PICK o : o = IF Sign(F64, v) THEN MinusInfinity ELSE PlusInfinity
    OBVIOUS
  <2>3. RealWrite(v) = Octets(<<o>>)
    BY <1>4, <2>1, <2>2 DEF RealWrite
  <2>4. Kept("derReal", v) = IF Sign(F64, v) THEN Infinity(F64) \union {63} ELSE Infinity(F64)
    BY <1>4, <2>1, RealKept, InfinityIs
  <2>5. Spells(Octets(<<o>>), <<o>>) /\ RealDecodes(v, <<o>>)
    <3>1. CASE Sign(F64, v)
      BY <2>2, <2>4, <3>1, SpecialDecodes
    <3>2. CASE ~Sign(F64, v)
      BY <2>2, <2>4, <3>2, SpecialDecodes
    <3> QED
      BY <3>1, <3>2
  <2> QED
    BY <2>3, <2>5
<1>5. CASE IsNan(F64, v)
  <2>1. ~IsZero(F64, v) /\ ~IsInf(F64, v)
    BY <1>2, <1>5 DEF IsNan, IsInf
  <2>2. RealWrite(v) = Octets(<<NotANumber>>)
    BY <1>5, <2>1 DEF RealWrite
  <2>3. Kept("derReal", v) = QuietNan(F64)
    BY <1>5, RealKept
  <2> QED
    BY <2>2, <2>3, SpecialDecodes
<1>6. CASE ~(IsZero(F64, v) /\ Sign(F64, v)) /\ ~IsInf(F64, v) /\ ~IsNan(F64, v)
  <2>1. PICK j, k, x, m : /\ j = RealExpLength(v) /\ k = RealFracLength(v)
                          /\ x = RealData(v).sexp /\ m = RealData(v).frac
    OBVIOUS
  <2>2. j \in 1..2 /\ k \in 1..8 /\ (IsZero(F64, v) => j = 1 /\ k = 1)
    BY <2>1, RealDataIs
  <2>3. RealLength(v) = 1 + j + k
    <3>1. CASE IsZero(F64, v)
      BY <1>6, <2>2, <3>1 DEF RealLength
    <3>2. CASE ~IsZero(F64, v)
      BY <1>6, <2>1, <3>2 DEF RealLength
    <3> QED
      BY <3>1, <3>2
  <2>4. PICK sg : sg = IF Sign(F64, v) THEN {6} ELSE {}
    OBVIOUS
  <2>5. PICK o : o = {7} \union sg \union Bits(j - 1)
    OBVIOUS
  <2>6. PICK c, d : c = BigEndian(Signed(x), j) /\ d = BigEndian(m, k)
    OBVIOUS
  <2>7. RealWrite(v) = Then(Octets(<<o>>), Then(BerU64Write(j, Signed(x)), BerU64Write(k, m)))
    BY <1>6, <2>1, <2>2, <2>4, <2>5 DEF RealWrite
  <2>8. IsSeq(<<o>>)
    BY OneSeq
  <2>9. Spells(Octets(<<o>>), <<o>>)
    BY <2>8, SpellsOctets
  <2>10. /\ Spells(BerU64Write(j, Signed(x)), c) /\ Len(c) = j
         /\ Spells(BerU64Write(k, m), d) /\ Len(d) = k
    <3>1. j \in 1..8
      BY <2>2
    <3> QED
      BY <2>2, <2>6, <3>1, BerSpells
  <2>11. PICK r, b : r = c \o d /\ b = <<o>> \o r
    OBVIOUS
  <2>12. Spells(RealWrite(v), b)
    <3>1. Spells(Then(BerU64Write(j, Signed(x)), BerU64Write(k, m)), r)
      BY <2>10, <2>11, SpellsThen
    <3> QED
      BY <2>7, <2>9, <2>11, <3>1, SpellsThen
  <2>13. IsSeq(c) /\ IsSeq(d) /\ IsSeq(r)
    <3>1. IsSeq(c) /\ IsSeq(d)
      BY <2>10 DEF Spells
    <3>2. JoinOf(r, c, d)
      BY <2>11, <3>1, JoinIs
    <3> QED
      BY <3>1, <3>2 DEF JoinOf
  <2>14. Number(Low(o, 2)) + 1 = j /\ 7 \in o /\ (6 \in o <=> Sign(F64, v))
    <3>1. PICK i \in 0..1 : i = j - 1
      BY <2>2
    <3>2. Bits(i) \subseteq 0..1 /\ Number(Bits(i)) = i
      <4>1. i \in 0..3 /\ i \in 0..20
        OBVIOUS
      <4> QED
        BY ONLY <4>1, NumbersAssumption
    <3>3. o = {7} \union sg \union Bits(i) /\ sg \subseteq {6} /\ (6 \in sg <=> Sign(F64, v))
      BY <2>4, <2>5, <3>1
    <3>4. 7 \notin 0..1 /\ 6 \notin 0..1 /\ 6 # 7
      OBVIOUS
    <3>5. Low(o, 2) = Bits(i)
      <4>1. o \intersect 0..1 = Bits(i)
        BY <3>2, <3>3, <3>4
      <4> QED
        BY <4>1 DEF Low
    <3> QED
      BY <3>1, <3>2, <3>3, <3>4, <3>5
  <2>15. Assembles(v, m, x)
    BY <2>1, RealAssembled
  <2>16. /\ Signed(x) \subseteq 0..63 /\ SignedNumber(Signed(x)) = x /\ j = S64Length(Signed(x))
         /\ m \subseteq 0..63 /\ m \subseteq Int /\ m \intersect 0..(8 * k - 1) = m
    <3>1. x \in -1200..1200 /\ m \subseteq 0..63
      BY <2>15 DEF Assembles
    <3>2. Signed(x) \subseteq 0..63 /\ SignedNumber(Signed(x)) = x
      BY ONLY <3>1, SignedIs, SMTT(30)
    <3>3. j = S64Length(Signed(x)) /\ k = U64Length(m)
      BY <2>1 DEF RealExpLength, RealFracLength
    <3>4. m \subseteq 0..(8 * k - 1)
      <4>1. m \subseteq 0..63
        BY <3>1
      <4>2. m \subseteq 0..(8 * U64Length(m) - 1)
        BY ONLY <4>1, Extents
      <4> QED
        BY <3>3, <4>2
    <3>5. m \intersect 0..(8 * k - 1) = m
      BY <3>4
    <3>6. m \subseteq Int
      BY <3>1
    <3> QED
      BY ONLY <3>1, <3>2, <3>3, <3>5, <3>6
  <2>17. ASSUME NEW s, Starts(s, b) PROVE RealGood(v, RealRead(s, RealLength(v)))
    <3>1. s # <<>> /\ Head(s) = o /\ Starts(Tail(s), r)
      <4>1. IsSeq(r) /\ Starts(s, <<o>> \o r)
        BY <2>11, <2>13, <2>17
      <4> QED
        BY ONLY <4>1, StartsFirst
    <3>2. PICK t : t = Tail(s)
      OBVIOUS
    <3>3. Starts(t, c) /\ Starts(Drop(t, j), d)
      <4>1. IsSeq(c) /\ IsSeq(d) /\ Starts(t, c \o d)
        BY <2>11, <2>13, <3>1, <3>2
      <4>2. Starts(t, c) /\ Starts(Drop(t, Len(c)), d)
        BY ONLY <4>1, StartsJoined
      <4> QED
        BY <2>10, <4>2
    <3>4. PICK e : e = BerS64Read(t, j)
      OBVIOUS
    <3>5. e.ok /\ e.value = Signed(x) /\ e.rest = Drop(t, j)
      <4>1. e = Value(Signed(x), Drop(t, j))
        BY <2>6, <2>16, <3>3, <3>4, SignedRead
      <4> QED
        BY <4>1, ValueIs
    <3>6. PICK y : y = BerU64Read(e.rest, k)
      OBVIOUS
    <3>7. y.ok /\ y.value = m
      <4>1. k \in 0..8 /\ Starts(Drop(t, j), BigEndian(m, k))
        BY <2>2, <2>6, <3>3
      <4>2. y = Value(m \intersect 0..(8 * k - 1), Drop(Drop(t, j), k))
        BY <2>16, <3>5, <3>6, <4>1, IntegersRead, ZenonT(40)
      <4> QED
        BY <2>16, <4>2, ValueIs
    <3>8. o # PlusInfinity /\ o # MinusInfinity /\ o # MinusZero /\ o # NotANumber
      BY <2>14 DEF PlusInfinity, MinusInfinity, MinusZero, NotANumber
    <3>9. PICK n : n = RealLength(v)
      OBVIOUS
    <3>10. n - j - 1 = k /\ ~(j > 2) /\ ~(k < 0)
      BY <2>2, <2>3, <3>9
    <3>11. RealInRange(m, x)
      BY <2>15 DEF Assembles
    <3>12. RealRead(s, n) = Value(RealAssemble(6 \in o, m, x), y.rest)
      BY <2>14, <2>16, <3>1, <3>2, <3>4, <3>5, <3>6, <3>7, <3>8, <3>10, <3>11 DEF RealRead
    <3>13. ASSUME Exact("derReal", v) PROVE RealAssemble(6 \in o, m, x) = Kept("derReal", v)
      <4>1. Kept("derReal", v) = v /\ ~IsDenorm(F64, v)
        BY <1>6, <3>13, RealKept
      <4>2. RealAssemble(Sign(F64, v), m, x) = v
        BY <2>15, <4>1 DEF Assembles
      <4>3. (6 \in o) = Sign(F64, v)
        BY <2>14 DEF Sign
      <4> QED
        BY <4>1, <4>2, <4>3
    <3> QED
      BY <3>9, <3>12, <3>13, ValueIs DEF RealGood
  <2> QED
    BY <2>12, <2>17 DEF RealDecodes
<1> QED
  BY <1>3, <1>4, <1>5, <1>6

(* The reals.                                                              *)
LEMMA DerRealReads ==
    ASSUME NEW v \in Word, NEW t \in Tags PROVE Reads("derReal", v, DerRealWrite(t, v))
<1>1. PICK n : n = RealLength(v)
  OBVIOUS
<1>2. n \in 0..20 /\ Number(Bits(n)) = n
  <2>1. n \in 0..20
    <3>1. RealLength(v) \in 1..20
      BY RealSpells
    <3> QED
      BY <1>1, <3>1
  <2>2. Number(Bits(n)) = n
    BY ONLY <2>1, NumbersAssumption
  <2> QED
    BY <2>1, <2>2
<1>3. PICK b : Spells(RealWrite(v), b) /\ RealDecodes(v, b)
  BY RealRestored
<1>4. PICK w : w = RealWrite(v)
  OBVIOUS
<1>5. PICK e : Spells(DerWrite(t, n, w), e) /\ Headed(e, n, b)
  <2>1. Spells(w, b)
    BY <1>3, <1>4
  <2> QED
    BY ONLY t \in Tags, <1>2, <2>1, HeaderRead
<1>6. Spells(DerRealWrite(t, v), e)
  BY <1>1, <1>4, <1>5 DEF DerRealWrite
<1>7. ASSUME NEW s, Starts(s, e) PROVE RealGood(v, Got("derReal", v, s))
  <2>1. DerHeader(s) = Value(Bits(n), Drop(s, 2)) /\ Starts(Drop(s, 2), b)
    BY <1>5, <1>7 DEF Headed
  <2>2. PICK h : h = DerHeader(s)
    OBVIOUS
  <2>3. h.ok /\ h.value = Bits(n) /\ h.rest = Drop(s, 2)
    BY <2>1, <2>2, ValueIs
  <2>4. DerRealRead(s) = RealRead(Drop(s, 2), n)
    BY <1>2, <2>2, <2>3 DEF DerRealRead
  <2>5. RealGood(v, RealRead(Drop(s, 2), n))
    BY <1>1, <1>3, <2>1 DEF RealDecodes
  <2> QED
    BY <2>4, <2>5 DEF Got
<1> QED
  BY <1>6, <1>7 DEF RealGood, Reads, Decodes, Spells

-----------------------------------------------------------------------------
(* The compressed floats *)

(* The first octet of a vf128 number: whether there are lengths, the sign, *)
(* two bits and four.                                                      *)
PrefixIs(o, top, sg, hi, lo) ==
    /\ Low(Shr(o, 4), 2) = hi /\ Low(o, 4) = lo
    /\ 6 \in o <=> 6 \in sg
    /\ 7 \in o <=> 7 \in top

(* A prefix put together of its parts has these parts.                     *)
LEMMA PrefixHas ==
    ASSUME NEW top, top \subseteq {7}, NEW sg, sg \subseteq {6},
           NEW hi, hi \subseteq 0..1, NEW lo, lo \subseteq 0..3,
           NEW o, o = top \union sg \union Shl(hi, 4, 8) \union lo
    PROVE  PrefixIs(o, top, sg, hi, lo)
<1>1. PICK y : y = Shl(hi, 4, 8)
  OBVIOUS
<1>2. \A i : i \in y <=> i \in {4, 5} /\ i - 4 \in hi
  <2>1. hi \subseteq Int /\ 4 \in Int /\ 8 \in Int
    OBVIOUS
  <2>2. \A i : i \in Shl(hi, 4, 8) <=> i \in 0..(8 - 1) /\ i - 4 \in hi
    BY ONLY <2>1, ShlHas, Zenon
  <2>3. \A i \in 0..(8 - 1) : i - 4 \in hi => i \in {4, 5}
    <3> TAKE i \in 0..(8 - 1)
    <3> HAVE i - 4 \in hi
    <3>1. i - 4 \in 0..1
      OBVIOUS
    <3> QED
      BY <3>1
  <2>4. \A i \in {4, 5} : i \in 0..(8 - 1)
    OBVIOUS
  <2> QED
    BY <1>1, <2>2, <2>3, <2>4
<1>3. \A i : i \in o <=> i \in top \/ i \in sg \/ (i \in {4, 5} /\ i - 4 \in hi) \/ i \in lo
  BY <1>1, <1>2
<1>4. o \subseteq Int
  <2>1. \A i : i \in top => i \in Int
    OBVIOUS
  <2>2. \A i : i \in sg => i \in Int
    OBVIOUS
  <2>3. \A i : i \in lo => i \in Int
    OBVIOUS
  <2>4. \A i \in {4, 5} : i \in Int
    OBVIOUS
  <2>5. \A i : i \in o => i \in Int
    BY <1>3, <2>1, <2>2, <2>3, <2>4
  <2> QED
    BY <2>5
<1>5. \A i : i \in Shr(o, 4) <=> i \in Nat /\ i + 4 \in o
  <2>1. 4 \in Int
    OBVIOUS
  <2> QED
    BY ONLY <1>4, <2>1, ShrHas, Zenon
<1>6. Low(Shr(o, 4), 2) = hi
  <2>1. \A i : i \in Low(Shr(o, 4), 2) <=> i \in 0..1 /\ i + 4 \in o
    BY <1>5 DEF Low
  <2>2. \A i \in 0..1 : i + 4 \in o <=> i \in hi
    <3> TAKE i \in 0..1
    <3>1. i + 4 \in {4, 5} /\ i + 4 - 4 = i /\ i + 4 \notin top /\ i + 4 \notin sg /\ i + 4 \notin lo
      OBVIOUS
    <3> QED
      BY <1>3, <3>1
  <2> QED
    BY <2>1, <2>2
<1>7. Low(o, 4) = lo
  <2>1. \A i : i \in Low(o, 4) <=> i \in o /\ i \in 0..3
    BY DEF Low
  <2>2. \A i \in 0..3 : i \notin {4, 5} /\ i \notin top /\ i \notin sg
    OBVIOUS
  <2> QED
    BY <1>3, <2>1, <2>2
<1>8. (6 \in o <=> 6 \in sg) /\ (7 \in o <=> 7 \in top)
  <2>1. 6 \notin top /\ 6 \notin {4, 5} /\ 6 \notin lo /\ 7 \notin sg /\ 7 \notin {4, 5} /\ 7 \notin lo
    OBVIOUS
  <2> QED
    BY <1>3, <2>1
<1> QED
  BY <1>6, <1>7, <1>8 DEF PrefixIs

(* The reader of the octets e makes of them what it should.                *)
VfGood(f, v, e) ==
    \A s : Starts(s, e) => VfRead(f, s) = Value(QuietIn(f, v), Drop(s, Len(e)))

(* An octet by itself.                                                     *)
LEMMA VfInlineReads ==
    ASSUME NEW f, NEW v, NEW o, NEW sg, NEW hi, NEW lo, PrefixIs(o, {}, sg, hi, lo),
           VfInline(f, 6 \in sg, hi, lo) = QuietIn(f, v)
    PROVE  Spells(Chunks(<< <<o>> >>), <<o>>) /\ VfGood(f, v, <<o>>)
<1>1. IsSeq(<<o>>) /\ Len(<<o>>) = 1 /\ <<o>>[1] = o
  BY OneSeq
<1>2. Spells(Chunks(<< <<o>> >>), <<o>>)
  BY <1>1, SpellsOne
<1>3. ASSUME NEW s, Starts(s, <<o>>) PROVE VfRead(f, s) = Value(QuietIn(f, v), Drop(s, 1))
  <2>1. 1 \in 1..1
    OBVIOUS
  <2>2. IsSeq(s) /\ s[1] = o /\ 1 <= Len(s)
    BY <1>1, <1>3, <2>1 DEF Starts
  <2>3. s # <<>>
    BY <2>2, EmptyIsSeq
  <2>4. Head(s) = o /\ Tail(s) = Drop(s, 1)
    BY <2>2, <2>3, DropTail
  <2>5. Low(Shr(o, 4), 2) = hi /\ Low(o, 4) = lo /\ (6 \in o) = (6 \in sg) /\ 7 \notin o
    BY DEF PrefixIs
  <2>6. VfRead(f, s) = Value(VfInline(f, 6 \in o, hi, lo), Tail(s))
    BY <2>3, <2>4, <2>5 DEF VfRead
  <2> QED
    BY <2>4, <2>5, <2>6
<1> QED
  BY <1>1, <1>2, <1>3 DEF VfGood

(* What a writer takes of a number: sign, exponent and fraction.           *)
VfOf(f, v, sg, sexp, frac) ==
    /\ sg \subseteq {6} /\ (6 \in sg <=> f.width - 1 \in v)
    /\ sexp = Exponent(f, v) - Bias(f)
    /\ frac \subseteq (f.exp + 1)..(f.width - 1)
    /\ \A i \in 0..(f.mant - 1) : i \in v <=> i + f.exp + 1 \in frac

(* A number has such a sign, exponent and fraction.                        *)
LEMMA VfFields ==
    ASSUME NEW f \in {F32, F64}, NEW v, v \subseteq 0..(f.width - 1)
    PROVE  VfOf(f, v, IF Sign(f, v) THEN {6} ELSE {}, VfSexp(f, v), VfFrac(f, v))
<1>1. PICK w, p, x, k : w = f.width /\ p = f.mant /\ x = f.exp /\ k = f.exp + 1
  OBVIOUS
<1>2. /\ w = p + k /\ x \in {8, 11} /\ p \in {23, 52} /\ w \in {32, 64} /\ k = x + 1
      /\ p \in Int /\ x \in Int /\ w \in Int /\ k \in Int
  BY <1>1, Shape
<1>3. PICK m : m = Mantissa(f, v)
  OBVIOUS
<1>4. \A i : i \in m <=> i \in v /\ i \in 0..(p - 1)
  BY <1>1, <1>3 DEF Mantissa, Low
<1>5. m \subseteq Int
  BY <1>4
<1>6. PICK frac : frac = VfFrac(f, v)
  OBVIOUS
<1>7. \A i : i \in frac <=> i \in 0..(w - 1) /\ i - k \in m
  <2>1. frac = Shl(m, k, w)
    BY <1>1, <1>3, <1>6 DEF VfFrac
  <2> QED
    BY ONLY <1>2, <1>5, <2>1, ShlHas, ZenonT(40)
<1>8. frac \subseteq k..(w - 1)
  <2>1. ASSUME NEW i \in frac PROVE i \in k..(w - 1)
    <3>1. i \in 0..(w - 1) /\ i - k \in 0..(p - 1)
      BY <1>4, <1>7
    <3> QED
      BY <1>2, <3>1
  <2> QED
    BY <2>1
<1>9. ASSUME NEW i \in 0..(p - 1) PROVE i \in v <=> i + x + 1 \in frac
  <2>1. PICK j : j = i + x + 1
    OBVIOUS
  <2>2. j \in 0..(w - 1) /\ j - k = i
    BY <1>2, <2>1
  <2> QED
    BY <1>4, <1>7, <2>1, <2>2
<1>10. PICK sg : sg = IF Sign(f, v) THEN {6} ELSE {}
  OBVIOUS
<1>11. sg \subseteq {6} /\ (6 \in sg <=> f.width - 1 \in v)
  BY <1>10 DEF Sign
<1>12. VfSexp(f, v) = Exponent(f, v) - Bias(f)
  BY DEF VfSexp
<1> QED
  BY <1>1, <1>6, <1>8, <1>9, <1>10, <1>11, <1>12 DEF VfOf

(* The same bits of the mantissa and the same exponent make the same       *)
(* number.                                                                 *)
SameMantissa(f, m, frac) == \A i \in 0..(f.mant - 1) : i \in m <=> i + f.exp + 1 \in frac

(* A number packed of its own sign, exponent and mantissa is the number.   *)
LEMMA PackedAgain ==
    ASSUME NEW f \in {F32, F64}, NEW v, v \subseteq 0..(f.width - 1),
           NEW sg, NEW sexp, NEW frac, VfOf(f, v, sg, sexp, frac),
           NEW m, SameMantissa(f, m, frac)
    PROVE  Pack(f, m, Bits(Bias(f) + sexp), 6 \in sg) = v
<1>1. PICK e, x : e = Exponent(f, v) /\ x = ExpBits(f, v)
  OBVIOUS
<1>2. e \in 0..(2 * Bias(f) + 1) /\ Bits(e) = x
  BY <1>1, ExponentRestored DEF ExponentOf
<1>3. Bits(Bias(f) + sexp) = x
  <2>1. Bias(f) \in Int /\ e \in Int
    BY <1>2, Shape
  <2>2. Bias(f) + sexp = e
    BY <1>1, <2>1 DEF VfOf
  <2> QED
    BY <1>2, <2>2
<1>4. \A i : i \in x <=> i \in 0..(f.exp - 1) /\ i + f.mant \in v
  BY <1>1, FieldsHave
<1>5. MadeOf(f, v, m, x, 6 \in sg)
  BY <1>4 DEF MadeOf, VfOf, SameMantissa
<1>6. Pack(f, m, x, 6 \in sg) = v
  BY <1>5, PackIs
<1> QED
  BY <1>3, <1>6

(* A number whose exponent is not the greatest is not changed.             *)
LEMMA NotQuieted ==
    ASSUME NEW f \in {F32, F64}, NEW v, NEW sg, NEW sexp, NEW frac, VfOf(f, v, sg, sexp, frac),
           sexp # Bias(f) + 1
    PROVE  QuietIn(f, v) = v
<1>1. PICK e, x : e = Exponent(f, v) /\ x = ExpBits(f, v)
  OBVIOUS
<1>2. e \in 0..(2 * Bias(f) + 1) /\ (e = 2 * Bias(f) + 1 <=> x = ExponentMask(f))
  BY <1>1, ExponentRestored DEF ExponentOf
<1>3. e # 2 * Bias(f) + 1
  <2>1. Bias(f) \in Int /\ e \in Int /\ sexp = e - Bias(f)
    BY <1>1, <1>2, Shape DEF VfOf
  <2> QED
    BY <2>1
<1> QED
  BY <1>1, <1>2, <1>3 DEF QuietIn, IsNan, ExpBits

(* What the reader makes of the sign and the six bits of an octet.         *)
Inlined(f, v, sg, hi, lo) == VfInline(f, 6 \in sg, hi, lo) = QuietIn(f, v)

(* Infinities and NaNs: all the exponents' bits are set.                   *)
Endless(f, sexp, frac, lo) == sexp = Bias(f) + 1 /\ lo = IF frac = {} THEN {} ELSE {3}

(* Infinities and NaNs are restored from one octet.                        *)
LEMMA VfEndless ==
    ASSUME NEW f \in {F32, F64}, NEW v, v \subseteq 0..(f.width - 1),
           NEW sg, NEW sexp, NEW frac, VfOf(f, v, sg, sexp, frac),
           NEW lo, Endless(f, sexp, frac, lo)
    PROVE  Inlined(f, v, sg, {0, 1}, lo)
<1>1. sexp = Bias(f) + 1 /\ lo = IF frac = {} THEN {} ELSE {3}
  BY DEF Endless
<1>2. PICK w, p, x, b : w = f.width /\ p = f.mant /\ x = f.exp /\ b = Bias(f)
  OBVIOUS
<1>3. /\ w = p + x + 1 /\ x \in {8, 11} /\ p \in {23, 52} /\ w \in {32, 64}
      /\ p \in Int /\ x \in Int /\ w \in Int /\ b \in Int
  BY <1>2, Shape
<1>4. PICK e, y : e = Exponent(f, v) /\ y = ExpBits(f, v)
  OBVIOUS
<1>5. e \in 0..(2 * Bias(f) + 1) /\ Bits(e) = y /\ (e = 2 * Bias(f) + 1 <=> y = ExponentMask(f))
  BY <1>4, ExponentRestored DEF ExponentOf
<1>6. e \in Int /\ sexp = e - b /\ sexp = b + 1
  BY <1>2, <1>3, <1>4, <1>5, <1>1 DEF VfOf
<1>7. e = 2 * Bias(f) + 1 /\ Bias(f) + sexp = e
  BY <1>2, <1>3, <1>6
<1>8. y = ExponentMask(f) /\ Bits(Bias(f) + sexp) = ExponentMask(f)
  BY <1>5, <1>7
<1>9. VfInline(f, 6 \in sg, {0, 1}, lo)
        = Pack(f, Shl(lo, f.mant - 4, f.width), ExponentMask(f), 6 \in sg)
  <2>1. {0, 1} # {}
    OBVIOUS
  <2> QED
    BY <2>1 DEF VfInline
<1>10. \A i : i \in Mantissa(f, v) <=> i \in v /\ i \in 0..(p - 1)
  BY <1>2, FieldsHave
<1>11. CASE frac = {}
  <2>1. Mantissa(f, v) = {}
    BY <1>2, <1>10, <1>11 DEF VfOf
  <2>2. QuietIn(f, v) = v
    BY <2>1 DEF QuietIn, IsNan
  <2>3. Shl(lo, f.mant - 4, f.width) = {}
    BY <1>11, <1>1 DEF Shl
  <2>4. SameMantissa(f, {}, frac)
    BY <1>11 DEF SameMantissa
  <2>5. Pack(f, {}, Bits(Bias(f) + sexp), 6 \in sg) = v
    BY <2>4, PackedAgain
  <2> QED
    BY <1>8, <1>9, <2>2, <2>3, <2>5 DEF Inlined
<1>12. CASE frac # {}
  <2>1. PICK i : i \in frac
    BY <1>12
  <2>2. i \in (x + 1)..(w - 1)
    BY <1>2, <2>1 DEF VfOf
  <2>3. PICK j : j = i - x - 1
    OBVIOUS
  <2>4. j \in 0..(p - 1) /\ j + x + 1 = i
    BY <1>3, <2>2, <2>3
  <2>5. j \in v
    BY <1>2, <2>1, <2>4 DEF VfOf
  <2>6. Mantissa(f, v) # {}
    BY <1>10, <2>4, <2>5
  <2>7. QuietIn(f, v) = Pack(f, {f.mant - 1}, ExponentMask(f), Sign(f, v))
    BY <1>4, <1>8, <2>6 DEF QuietIn, IsNan, ExpBits
  <2>8. Sign(f, v) <=> 6 \in sg
    BY DEF VfOf, Sign
  <2>9. Shl(lo, f.mant - 4, f.width) = {f.mant - 1}
    <3>1. lo = {3}
      BY <1>12, <1>1
    <3>2. lo \subseteq Int /\ p - 4 \in Int
      BY <1>3, <3>1
    <3>3. PICK q : q = p - 4
      OBVIOUS
    <3>4. \A m : m \in Shl(lo, q, w) <=> m \in 0..(w - 1) /\ m - q \in lo
      BY ONLY <1>3, <3>2, <3>3, ShlHas, ZenonT(40)
    <3>5. \A m \in 0..(w - 1) : m - q = 3 <=> m = p - 1
      BY <1>3, <3>3
    <3>6. p - 1 \in 0..(w - 1)
      BY <1>3
    <3>7. \A m : m \in Shl(lo, q, w) <=> m = p - 1
      BY <3>1, <3>4, <3>5, <3>6
    <3> QED
      BY <1>2, <3>3, <3>7
  <2>10. PICK m, z : m = {f.mant - 1} /\ z = ExponentMask(f)
    OBVIOUS
  <2>11. Pack(f, m, z, Sign(f, v)) = Pack(f, m, z, 6 \in sg)
    BY <2>8 DEF Pack
  <2> QED
    BY <1>9, <2>7, <2>9, <2>10, <2>11 DEF Inlined
<1> QED
  BY <1>11, <1>12

(* Zeros.                                                                  *)
LEMMA VfZero ==
    ASSUME NEW f \in {F32, F64}, NEW v, v \subseteq 0..(f.width - 1),
           NEW sg, NEW sexp, VfOf(f, v, sg, sexp, {}), sexp = -Bias(f)
    PROVE  Inlined(f, v, sg, {}, {})
<1>1. Bias(f) \in {127, 1023}
  BY Shape
<1>2. Bias(f) + sexp = 0 /\ sexp # Bias(f) + 1
  BY <1>1
<1>3. Bits(0) = {}
  BY NumbersAssumption
<1>4. SameMantissa(f, {}, {})
  BY DEF SameMantissa
<1>5. Pack(f, {}, Bits(Bias(f) + sexp), 6 \in sg) = v
  BY <1>4, PackedAgain
<1>6. QuietIn(f, v) = v
  BY <1>2, NotQuieted
<1>7. VfInline(f, 6 \in sg, {}, {}) = Pack(f, {}, {}, 6 \in sg)
  BY DEF VfInline
<1> QED
  BY <1>2, <1>3, <1>5, <1>6, <1>7 DEF Inlined

(* Numbers from one to three with four digits.                             *)
Few(f, sexp, frac, hi, lo) ==
    /\ sexp \in 0..1 /\ frac \subseteq TopNibble(f)
    /\ hi = Bits(sexp + 1) /\ lo = Shr(frac, f.width - 4)

(* Numbers of few digits are restored from one octet.                      *)
LEMMA VfFew ==
    ASSUME NEW f \in {F32, F64}, NEW v, v \subseteq 0..(f.width - 1),
           NEW sg, NEW sexp, NEW frac, VfOf(f, v, sg, sexp, frac),
           NEW hi, NEW lo, Few(f, sexp, frac, hi, lo)
    PROVE  hi \subseteq 0..1 /\ lo \subseteq 0..3 /\ Inlined(f, v, sg, hi, lo)
<1>1. /\ sexp \in 0..1 /\ frac \subseteq TopNibble(f)
      /\ hi = Bits(sexp + 1) /\ lo = Shr(frac, f.width - 4)
  BY DEF Few
<1>2. PICK w, p, x, b : w = f.width /\ p = f.mant /\ x = f.exp /\ b = Bias(f)
  OBVIOUS
<1>3. /\ w = p + x + 1 /\ x \in {8, 11} /\ p \in {23, 52} /\ w \in {32, 64} /\ b \in {127, 1023}
      /\ p \in Int /\ x \in Int /\ w \in Int /\ b \in Int
  BY <1>2, Shape
<1>4. hi \in {{0}, {1}}
  <2>1. sexp + 1 \in {1, 2}
    BY <1>1
  <2>2. Bits(1) = {0} /\ Bits(2) = {1}
    BY ExponentsAssumption
  <2> QED
    BY <1>1, <2>1, <2>2
<1>5. Number(hi) = sexp + 1
  <2>1. PICK n : n = sexp + 1
    OBVIOUS
  <2>2. n \in 0..20
    BY <1>1, <2>1
  <2>3. Number(Bits(n)) = n
    BY ONLY <2>2, NumbersAssumption
  <2> QED
    BY <1>1, <2>1, <2>3
<1>6. \A i \in frac : i \in (w - 4)..(w - 1)
  BY <1>2, <1>1 DEF TopNibble
<1>7. frac \subseteq Int
  <2>1. \A i \in frac : i \in Int
    BY <1>3, <1>6
  <2> QED
    BY <2>1
<1>8. PICK q, u : q = w - 4 /\ u = p - 4
  OBVIOUS
<1>9. q \in Int /\ u \in Int
  BY <1>3, <1>8
<1>10. \A i : i \in lo <=> i \in Nat /\ i + q \in frac
  <2>1. lo = Shr(frac, q)
    BY <1>2, <1>8, <1>1
  <2> QED
    BY ONLY <1>7, <1>9, <2>1, ShrHas
<1>11. ASSUME NEW i \in lo PROVE i \in 0..3
  <2>1. i \in Nat /\ i + q \in (w - 4)..(w - 1)
    BY <1>6, <1>10
  <2> QED
    BY <1>3, <1>8, <2>1
<1>12. lo \subseteq Int
  <2>1. \A i \in lo : i \in Int
    BY <1>11
  <2> QED
    BY <2>1
<1>13. PICK m : m = Shl(lo, u, w)
  OBVIOUS
<1>14. \A i : i \in m <=> i \in 0..(w - 1) /\ i - u \in lo
  <2>1. w \in Int /\ u \in Int
    BY <1>3, <1>9
  <2> QED
    BY ONLY <2>1, <1>12, <1>13, ShlHas, Zenon
<1>15. SameMantissa(f, m, frac)
  <2>1. ASSUME NEW i \in 0..(p - 1) PROVE i \in m <=> i + x + 1 \in frac
    <3>1. PICK j : j = i - u
      OBVIOUS
    <3>2. i \in 0..(w - 1) /\ j + q = i + x + 1 /\ j \in Int
      BY <1>3, <1>8, <3>1
    <3>3. j + q \in frac => j \in Nat
      BY <1>3, <1>6, <1>8, <3>2
    <3> QED
      BY <1>10, <1>14, <3>1, <3>2, <3>3
  <2> QED
    BY <1>2, <2>1 DEF SameMantissa
<1>16. Pack(f, m, Bits(Bias(f) + sexp), 6 \in sg) = v
  BY <1>15, PackedAgain
<1>17. QuietIn(f, v) = v
  <2>1. sexp # Bias(f) + 1
    BY <1>2, <1>3, <1>1
  <2> QED
    BY <2>1, NotQuieted
<1>18. VfInline(f, 6 \in sg, hi, lo) = Pack(f, m, Bits(Bias(f) + Number(hi) - 1), 6 \in sg)
  <2>1. hi # {} /\ hi # {0, 1}
    <3>1. 0 \in hi <=> 1 \notin hi
      BY <1>4
    <3> QED
      BY <3>1
  <2>2. m = Shl(lo, f.mant - 4, f.width)
    BY <1>2, <1>8, <1>13
  <2> QED
    BY <2>1, <2>2 DEF VfInline
<1>19. Bias(f) + Number(hi) - 1 = Bias(f) + sexp
  BY <1>2, <1>3, <1>5, <1>1
<1>20. hi \subseteq 0..1
  BY <1>4
<1>21. lo \subseteq 0..3
  BY <1>11
<1> QED
  BY <1>16, <1>17, <1>18, <1>19, <1>20, <1>21 DEF Inlined

(* Numbers below one, with the leading one among the four digits.          *)
FewBelow(f, sexp, frac, lo) ==
    /\ sexp \in -4..-1 /\ Shr(frac, -sexp) \subseteq TopNibble(f)
    /\ lo = Shr({4} \union Shr(frac, f.width - 4), -sexp)

(* So are those of few digits below one.                                   *)
LEMMA VfFewBelow ==
    ASSUME NEW f \in {F32, F64}, NEW v, v \subseteq 0..(f.width - 1),
           NEW sg, NEW sexp, NEW frac, VfOf(f, v, sg, sexp, frac),
           NEW lo, FewBelow(f, sexp, frac, lo)
    PROVE  lo \subseteq 0..3 /\ Inlined(f, v, sg, {}, lo)
<1>1. /\ sexp \in -4..-1 /\ Shr(frac, -sexp) \subseteq TopNibble(f)
      /\ lo = Shr({4} \union Shr(frac, f.width - 4), -sexp)
  BY DEF FewBelow
<1>2. PICK w, p, x, b : w = f.width /\ p = f.mant /\ x = f.exp /\ b = Bias(f)
  OBVIOUS
<1>3. /\ w = p + x + 1 /\ x \in {8, 11} /\ p \in {23, 52} /\ w \in {32, 64} /\ b \in {127, 1023}
      /\ p \in Int /\ x \in Int /\ w \in Int /\ b \in Int
  BY <1>2, Shape
<1>4. PICK k, q, t : k = -sexp /\ q = w - 4 /\ t = 4 - k
  OBVIOUS
<1>5. k \in 1..4 /\ k \in Int /\ q \in Int /\ t \in 0..3 /\ t \in Int /\ t + k = 4
  BY <1>3, <1>4, <1>1
<1>6. \A i \in frac : i \in (x + 1)..(w - 1)
  BY <1>2 DEF VfOf
<1>7. frac \subseteq Int
  <2>1. \A i \in frac : i \in Int
    BY <1>3, <1>6
  <2> QED
    BY <2>1
<1>8. ASSUME NEW i \in frac PROVE i - k \in (w - 4)..(w - 1)
  <2>1. \A j : j \in Shr(frac, k) <=> j \in Nat /\ j + k \in frac
    BY ONLY <1>5, <1>7, ShrHas
  <2>2. PICK j : j = i - k
    OBVIOUS
  <2>3. i \in (x + 1)..(w - 1)
    BY <1>6
  <2>4. j \in Nat /\ j + k = i
    BY <1>3, <1>5, <2>2, <2>3
  <2>5. j \in Shr(frac, k)
    BY <2>1, <2>4
  <2>6. j \in TopNibble(f)
    BY <1>4, <1>1, <2>5
  <2> QED
    BY <1>2, <2>2, <2>6 DEF TopNibble
<1>9. PICK z : z = Shr(frac, q)
  OBVIOUS
<1>10. \A i : i \in z <=> i \in Nat /\ i + q \in frac
  BY ONLY <1>5, <1>7, <1>9, ShrHas
<1>11. \A i \in z : i \in 0..3
  <2>1. ASSUME NEW i \in z PROVE i \in 0..3
    <3>1. i \in Nat /\ i + q \in (x + 1)..(w - 1)
      BY <1>6, <1>10
    <3> QED
      BY <1>3, <1>4, <3>1
  <2> QED
    BY <2>1
<1>12. PICK g : g = {4} \union z
  OBVIOUS
<1>13. 4 \in g /\ \A i \in g : i \in 0..4
  BY <1>11, <1>12
<1>14. g \subseteq Int
  <2>1. \A i \in g : i \in Int
    BY <1>13
  <2> QED
    BY <2>1
<1>15. \A i : i \in lo <=> i \in Nat /\ i + k \in g
  <2>1. lo = Shr(g, k)
    BY <1>2, <1>4, <1>9, <1>12, <1>1
  <2> QED
    BY ONLY <1>5, <1>14, <2>1, ShrHas
<1>16. \A i \in lo : i \in 0..t
  <2>1. ASSUME NEW i \in lo PROVE i \in 0..t
    <3>1. i \in Nat /\ i + k \in 0..4
      BY <1>15, <1>13
    <3> QED
      BY <1>5, <3>1
  <2> QED
    BY <2>1
<1>17. lo \subseteq 0..3
  <2>1. \A i \in lo : i \in 0..3
    BY <1>5, <1>16
  <2> QED
    BY <2>1
<1>18. Leads(t, lo)
  <2>1. t \in lo
    <3>1. t \in Nat /\ t + k \in g
      BY <1>5, <1>13
    <3> QED
      BY <1>15, <3>1
  <2>2. ASSUME NEW i \in lo PROVE i <= t
    <3>1. i \in 0..t
      BY <1>16
    <3> QED
      BY <1>5, <3>1
  <2> QED
    BY <2>1, <2>2 DEF Leads
<1>19. NormalOf(f, lo, t)
  <2>1. 0..3 \subseteq 0..(f.width - 1)
    BY <1>2, <1>3
  <2>2. lo \subseteq 0..(f.width - 1)
    BY <1>17, <2>1
  <2> QED
    BY <1>18, <2>2, NormalHas
<1>20. SameMantissa(f, Normal(f, lo), frac)
  <2>1. ASSUME NEW i \in 0..(p - 1) PROVE i \in Normal(f, lo) <=> i + x + 1 \in frac
    <3>1. i \in Normal(f, lo) <=> i - p + t \in lo
      BY <1>2, <1>19 DEF NormalOf
    <3>2. PICK j : j = i - p + t
      OBVIOUS
    <3>3. PICK h : h = j + k
      OBVIOUS
    <3>4. h \in Int /\ h < 4 /\ h + q = i + x + 1 /\ j \in Int /\ j + k = h
      <4>1. q = w - 4 /\ w = p + x + 1 /\ p \in Int /\ x \in Int /\ w \in Int /\ i < p /\ i \in Int
        BY <1>3, <1>4
      <4>2. t + k = 4 /\ t \in Int /\ k \in Int
        BY <1>5
      <4> QED
        BY ONLY <3>2, <3>3, <4>1, <4>2
    <3>5. j \in lo <=> j \in Nat /\ h \in z
      BY <1>12, <1>15, <3>4
    <3>6. h + q \in frac => j \in Nat /\ h \in Nat
      <4>1. HAVE h + q \in frac
      <4>2. PICK n : n = h + q
        OBVIOUS
      <4>3. n - k \in (w - 4)..(w - 1)
        BY <1>8, <4>1, <4>2
      <4> QED
        BY <1>3, <1>4, <1>5, <3>4, <4>2, <4>3
    <3> QED
      BY <1>10, <3>1, <3>2, <3>4, <3>5, <3>6
  <2> QED
    BY <1>2, <2>1 DEF SameMantissa
<1>21. Pack(f, Normal(f, lo), Bits(Bias(f) + sexp), 6 \in sg) = v
  BY <1>20, PackedAgain
<1>22. QuietIn(f, v) = v
  <2>1. sexp # Bias(f) + 1
    BY <1>2, <1>3, <1>1
  <2> QED
    BY <2>1, NotQuieted
<1>23. Bias(f) + f.width - 5 - Clz(lo, f.width) = Bias(f) + sexp
  <2>1. Clz(lo, f.width) = w - 1 - t
    BY <1>2, <1>19 DEF NormalOf
  <2> QED
    BY <1>2, <1>3, <1>4, <1>5, <1>1, <2>1
<1>24. lo # {}
  BY <1>18 DEF Leads
<1>25. VfInline(f, 6 \in sg, {}, lo)
         = Pack(f, Normal(f, lo), Bits(Bias(f) + f.width - 5 - Clz(lo, f.width)), 6 \in sg)
  BY <1>24 DEF VfInline
<1> QED
  BY <1>17, <1>21, <1>22, <1>23, <1>25 DEF Inlined

(* A mantissa that fits the word is not cut off.                           *)
LEMMA NotTruncated ==
    ASSUME NEW f \in {F32, F64}, NEW man, man \subseteq 0..(f.width - 1)
    PROVE  Truncated(f, man) = man
<1>1. PICK w : w = f.width
  OBVIOUS
<1>2. w \in {32, 64}
  BY <1>1, Shape
<1>3. PICK n : n = (64 - w) - Clz(man, 64)
  OBVIOUS
<1>4. n \in Int /\ n <= 0
  <2>1. CASE man = {}
    BY <1>2, <1>3, <2>1 DEF Clz
  <2>2. CASE man # {}
    <3>1. w - 1 \in Nat /\ man \subseteq 0..(w - 1)
      BY <1>1, <1>2
    <3>2. PICK m : m = Max(man)
      OBVIOUS
    <3>3. m \in 0..(w - 1) /\ \A k : Clz(man, k) = k - 1 - m
      BY <2>2, <3>1, <3>2, HighestBit
    <3>4. Clz(man, 64) = 63 - m
      <4>1. Clz(man, 64) = 64 - 1 - m
        BY <3>3
      <4> QED
        BY <3>3, <4>1
    <3> QED
      BY <1>2, <1>3, <3>3, <3>4
  <2> QED
    BY <2>1, <2>2
<1>5. Max({0, n}) = 0
  <2>1. \A m \in {0, n} : (\A k \in {0, n} : m >= k) <=> m = 0
    BY <1>4
  <2>2. PICK z : z = Max({0, n})
    OBVIOUS
  <2>3. z \in {0, n} /\ \A k \in {0, n} : z >= k
    BY <2>1, <2>2 DEF Max
  <2> QED
    BY <2>1, <2>2, <2>3
<1>6. man \subseteq Int /\ man \subseteq Nat
  <2>1. \A i \in man : i \in Int /\ i \in Nat
    BY <1>1, <1>2
  <2> QED
    BY <2>1
<1>7. Shr(man, 0) = man
  <2>1. 0 \in Int
    OBVIOUS
  <2>2. \A i : i \in Shr(man, 0) <=> i \in Nat /\ i + 0 \in man
    BY ONLY <1>6, <2>1, ShrHas, Zenon
  <2>3. \A i \in Nat : i + 0 = i
    OBVIOUS
  <2> QED
    BY <1>6, <2>2, <2>3
<1>8. Truncated(f, man) = Shr(man, Max({0, n}))
  BY <1>1, <1>3 DEF Truncated
<1> QED
  BY <1>5, <1>7, <1>8

(* What stands for the exponent x when j octets are left to it.            *)
Spelt(j, x) == x \in -1200..1200 /\ (j = S64Length(Signed(x)) \/ (j = 0 /\ x = 0))

(* What stands for the exponent is read as it.                             *)
LEMMA SpeltRead ==
    ASSUME NEW j, NEW x, Spelt(j, x)
    PROVE  /\ j \in 0..2
           /\ \A t : Starts(t, LittleEndian(Signed(x), j)) =>
                LET e == IF Bits(j) = {} THEN Value({}, t) ELSE LeS64Read(t, Number(Bits(j)))
                IN  e.ok /\ SignedNumber(e.value) = x /\ e.rest = Drop(t, j)
<1>1. x \in -1200..1200
  BY DEF Spelt
<1>2. Signed(x) \subseteq 0..63 /\ SignedNumber(Signed(x)) = x /\ S64Length(Signed(x)) \in 1..2
  BY ONLY <1>1, SignedIs, SMTT(30)
<1>3. j \in 0..2
  BY <1>2 DEF Spelt
<1>4. Bits(0) = {} /\ Number({}) = 0
  <2>1. 0 \in 0..20
    OBVIOUS
  <2>2. Bits(0) = {} /\ Number(Bits(0)) = 0
    BY ONLY <2>1, NumbersAssumption
  <2> QED
    BY <2>2
<1>5. Number(Bits(j)) = j
  <2>1. j \in 0..20
    BY <1>3
  <2> QED
    BY ONLY <2>1, NumbersAssumption
<1>6. ASSUME NEW t, Starts(t, LittleEndian(Signed(x), j)), NEW e,
             e = IF Bits(j) = {} THEN Value({}, t) ELSE LeS64Read(t, Number(Bits(j)))
      PROVE  e.ok /\ SignedNumber(e.value) = x /\ e.rest = Drop(t, j)
  <2>1. CASE j = 0
    <3>1. e = Value({}, t)
      BY <1>4, <1>6, <2>1
    <3>2. x = 0
      BY <1>2, <2>1 DEF Spelt
    <3>3. SignedNumber({}) = 0
      <4>1. ~(63 \in {})
        OBVIOUS
      <4> QED
        BY <1>4, <4>1 DEF SignedNumber
    <3>4. Drop(t, j) = t
      BY <1>6, <2>1, DropNone DEF Starts
    <3> QED
      BY <3>1, <3>2, <3>3, <3>4, ValueIs
  <2>2. CASE j # 0
    <3>1. Bits(j) # {}
      BY <1>4, <1>5, <2>2
    <3>2. e = LeS64Read(t, j)
      BY <1>5, <1>6, <3>1
    <3>3. j = S64Length(Signed(x))
      BY <2>2 DEF Spelt
    <3>4. LeS64Read(t, j) = Value(Signed(x), Drop(t, j))
      BY <1>2, <1>6, <3>3, SignedRead
    <3> QED
      BY <1>2, <3>2, <3>4, ValueIs
  <2> QED
    BY <2>1, <2>2
<1> QED
  BY <1>3, <1>6

(* So is what stands for the mantissa.                                     *)
LEMMA MantissaRead ==
    ASSUME NEW k \in 0..8, NEW man, man \subseteq Int, man \subseteq 0..(8 * k - 1),
           NEW t, Starts(t, LittleEndian(man, k)), NEW m,
           m = IF Bits(k) = {} THEN Value({}, t) ELSE LeU64Read(t, Number(Bits(k)))
    PROVE  m.ok /\ m.value = man /\ m.rest = Drop(t, k)
<1>1. Bits(0) = {} /\ Number({}) = 0
  <2>1. 0 \in 0..20
    OBVIOUS
  <2>2. Bits(0) = {} /\ Number(Bits(0)) = 0
    BY ONLY <2>1, NumbersAssumption
  <2> QED
    BY <2>2
<1>2. Number(Bits(k)) = k
  <2>1. k \in 0..20
    OBVIOUS
  <2> QED
    BY ONLY <2>1, NumbersAssumption
<1>3. CASE k = 0
  <2>1. man = {}
    BY <1>3
  <2>2. m = Value({}, t)
    BY <1>3, <1>1
  <2>3. Drop(t, k) = t
    BY <1>3, DropNone DEF Starts
  <2> QED
    BY <2>1, <2>2, <2>3, ValueIs
<1>4. CASE k # 0
  <2>1. Bits(k) # {}
    BY <1>4, <1>1, <1>2
  <2>2. m = LeU64Read(t, k)
    BY <1>2, <2>1
  <2>3. LeU64Read(t, k) = Value(man \intersect 0..(8 * k - 1), Drop(t, k))
    BY IntegersRead
  <2>4. man \intersect 0..(8 * k - 1) = man
    OBVIOUS
  <2>5. m = Value(man, Drop(t, k))
    BY <2>2, <2>3, <2>4
  <2> QED
    BY ONLY <2>5, ValueIs
<1> QED
  BY <1>3, <1>4

(* A number with its lengths, exponent and mantissa is read as what the    *)
(* reader assembles.                                                       *)
LEMMA OutOfLineReads ==
    ASSUME NEW f \in {F32, F64}, NEW v, NEW sg, sg \subseteq {6}, NEW j, NEW x, Spelt(j, x),
           NEW k \in 0..8, NEW man, man \subseteq 0..(8 * k - 1), man \subseteq 0..(f.width - 1),
           VfAssemble(f, 6 \in sg, j, x, man) = QuietIn(f, v)
    PROVE  \E e : Spells(OutOfLine(sg, j, x, k, man), e) /\ VfGood(f, v, e)
<1>1. PICK o : o = {7} \union sg \union Shl(Bits(j), 4, 8) \union Bits(k)
  OBVIOUS
<1>2. j \in 0..2
  BY SpeltRead
<1>3. Bits(j) \subseteq 0..1 /\ Number(Bits(j)) = j
  <2>1. j \in 0..3 /\ j \in 0..20
    BY <1>2
  <2> QED
    BY ONLY <2>1, NumbersAssumption
<1>4. Bits(k) \subseteq 0..3
  <2>1. k \in 0..15
    OBVIOUS
  <2> QED
    BY ONLY <2>1, NumbersAssumption
<1>5. PrefixIs(o, {7}, sg, Bits(j), Bits(k))
  <2>1. {7} \subseteq {7}
    OBVIOUS
  <2> QED
    BY ONLY <1>1, <1>3, <1>4, <2>1, sg \subseteq {6}, PrefixHas
<1>6. PICK a, b, c : a = <<o>> /\ b = LittleEndian(Signed(x), j) /\ c = LittleEndian(man, k)
  OBVIOUS
<1>7. /\ IsSeq(a) /\ Len(a) = 1 /\ a[1] = o
      /\ IsSeq(b) /\ Len(b) = j /\ IsSeq(c) /\ Len(c) = k
  <2>1. j \in Nat /\ k \in Nat
    BY <1>2
  <2>2. IsSeq(b) /\ Len(b) = j
    BY <1>6, <2>1, EndianIs
  <2>3. IsSeq(c) /\ Len(c) = k
    BY <1>6, <2>1, EndianIs
  <2> QED
    BY <1>6, <2>2, <2>3, OneSeq
<1>8. PICK d, e : d = b \o c /\ e = a \o d
  OBVIOUS
<1>9. Spells(OutOfLine(sg, j, x, k, man), e)
  <2>1. Spells(Chunks(<<a>>), a) /\ Spells(Chunks(<<b>>), b) /\ Spells(Chunks(<<c>>), c)
    BY <1>7, SpellsOne
  <2>2. Spells(Then(Chunks(<<a>>), Then(Chunks(<<b>>), Chunks(<<c>>))), e)
    BY <1>8, <2>1, SpellsThen
  <2>3. Then(Chunks(<<b>>), Chunks(<<c>>)) = Chunks(<<b, c>>)
    BY TuplesJoined DEF Then, Chunks
  <2>4. Then(Chunks(<<a>>), Chunks(<<b, c>>)) = Chunks(<<a, b, c>>)
    BY TuplesJoined DEF Then, Chunks
  <2>5. OutOfLine(sg, j, x, k, man) = Chunks(<<a, b, c>>)
    BY <1>1, <1>6 DEF OutOfLine
  <2> QED
    BY <2>2, <2>3, <2>4, <2>5
<1>10. IsSeq(d) /\ Len(d) = j + k
  <2>1. JoinOf(d, b, c)
    BY <1>7, <1>8, JoinIs
  <2> QED
    BY <1>7, <2>1 DEF JoinOf
<1>11. ASSUME NEW s, Starts(s, e)
       PROVE  VfRead(f, s) = Value(QuietIn(f, v), Drop(s, Len(e)))
  <2>1. /\ s # <<>> /\ Head(s) = o /\ Starts(Tail(s), d)
        /\ Drop(Tail(s), Len(d)) = Drop(s, Len(e))
    <3>1. IsSeq(d) /\ Starts(s, <<o>> \o d)
      BY <1>6, <1>8, <1>10, <1>11
    <3>2. /\ s # <<>> /\ Head(s) = o /\ Tail(s) = Drop(s, 1) /\ Starts(Tail(s), d)
          /\ Drop(Tail(s), Len(d)) = Drop(s, Len(<<o>> \o d))
      BY ONLY <3>1, StartsFirst
    <3> QED
      BY <1>6, <1>8, <3>2
  <2>2. PICK t : t = Tail(s)
    OBVIOUS
  <2>3. /\ Starts(t, b) /\ Starts(Drop(t, j), c)
        /\ Drop(Drop(t, j), k) = Drop(s, Len(e))
    <3>1. IsSeq(b) /\ IsSeq(c) /\ Starts(t, b \o c)
      BY <1>7, <1>8, <2>1, <2>2
    <3>2. /\ Starts(t, b) /\ Starts(Drop(t, Len(b)), c)
          /\ Drop(Drop(t, Len(b)), Len(c)) = Drop(t, Len(b \o c))
      BY ONLY <3>1, StartsJoined
    <3> QED
      BY <1>7, <1>8, <2>1, <2>2, <3>2
  <2>4. PICK ex : ex = IF Bits(j) = {} THEN Value({}, t) ELSE LeS64Read(t, Number(Bits(j)))
    OBVIOUS
  <2>5. ex.ok /\ SignedNumber(ex.value) = x /\ ex.rest = Drop(t, j)
    BY <1>6, <2>3, <2>4, SpeltRead
  <2>6. PICK m : m = IF Bits(k) = {} THEN Value({}, ex.rest) ELSE LeU64Read(ex.rest, Number(Bits(k)))
    OBVIOUS
  <2>7. m.ok /\ m.value = man /\ m.rest = Drop(ex.rest, k)
    <3>1. man \subseteq Int
      <4>1. \A i \in man : i \in Int
        OBVIOUS
      <4> QED
        BY <4>1
    <3>2. Starts(ex.rest, LittleEndian(man, k))
      BY <1>6, <2>3, <2>5
    <3>3. PICK y : y = ex.rest
      OBVIOUS
    <3>4. Starts(y, LittleEndian(man, k))
          /\ m = IF Bits(k) = {} THEN Value({}, y) ELSE LeU64Read(y, Number(Bits(k)))
      BY <2>6, <3>2, <3>3
    <3>5. m.ok /\ m.value = man /\ m.rest = Drop(y, k)
      BY <3>1, <3>4, MantissaRead
    <3> QED
      BY <3>3, <3>5
  <2>8. Truncated(f, man) = man
    BY NotTruncated
  <2>9. /\ Low(Shr(Head(s), 4), 2) = Bits(j) /\ Low(Head(s), 4) = Bits(k)
        /\ (6 \in Head(s)) = (6 \in sg) /\ 7 \in Head(s)
    BY <1>5, <2>1 DEF PrefixIs
  <2>10. VfRead(f, s)
           = Value(VfAssemble(f, 6 \in sg, Number(Bits(j)), SignedNumber(ex.value),
                              Truncated(f, m.value)), m.rest)
    BY <2>1, <2>2, <2>4, <2>5, <2>6, <2>7, <2>9 DEF VfRead
  <2> QED
    BY <1>3, <2>3, <2>5, <2>7, <2>8, <2>10
<1> QED
  BY <1>9, <1>11 DEF VfGood

(* The mantissa with its leading one, and zeros behind it, is the fraction.*)
ManOf(f, y, frac, d) ==
    /\ y \subseteq 0..(f.width - 1) /\ Ctz(y, f.width) = d
    /\ SameMantissa(f, Normal(f, y), frac)

(* Such a mantissa exists, and fits its word.                              *)
LEMMA ManHas ==
    ASSUME NEW f \in {F32, F64}, NEW frac, frac \subseteq (f.exp + 1)..(f.width - 1), frac # {},
           NEW d \in 0..7
    PROVE  /\ ManOf(f, Shl(VfMan(f, frac), d, f.width), frac, d)
           /\ d = 0 => Shl(VfMan(f, frac), d, f.width) = VfMan(f, frac)
<1>1. PICK w, p, x : w = f.width /\ p = f.mant /\ x = f.exp
  OBVIOUS
<1>2. /\ w = p + x + 1 /\ x \in {8, 11} /\ p \in {23, 52} /\ w \in {32, 64}
      /\ p \in Int /\ x \in Int /\ w \in Int /\ d \in Int
  BY <1>1, Shape
<1>3. \A i \in frac : i \in (x + 1)..(w - 1)
  BY <1>1
<1>4. frac \subseteq Int /\ frac \in SUBSET Nat
  <2>1. \A i \in frac : i \in Int /\ i \in Nat
    BY <1>2, <1>3
  <2> QED
    BY <2>1
<1>5. PICK tz : tz = Ctz(frac, w)
  OBVIOUS
<1>6. tz \in frac /\ \A i \in frac : tz <= i
  <2>1. Min(frac) \in frac /\ \A i \in frac : Min(frac) <= i
    BY <1>4, MinIs
  <2>2. tz = Min(frac)
    BY <1>5 DEF Ctz
  <2> QED
    BY <2>1, <2>2
<1>7. tz \in (x + 1)..(w - 1) /\ tz \in Int
  BY <1>2, <1>3, <1>6
<1>8. PICK z, m, n : z = Shr(frac, tz) /\ m = VfMan(f, frac) /\ n = w - tz
  OBVIOUS
<1>9. n \in Int /\ n \in 1..(w - 1) /\ n + tz = w /\ n + d \in 0..(w - 1)
  BY <1>2, <1>7, <1>8
<1>10. \A i : i \in z <=> i \in Nat /\ i + tz \in frac
  <2>1. tz \in Int
    BY <1>7
  <2> QED
    BY ONLY <1>4, <1>8, <2>1, ShrHas
<1>11. \A i : i \in m <=> i = n \/ i \in z
  BY <1>1, <1>5, <1>8 DEF VfMan
<1>12. ASSUME NEW i \in z PROVE i \in 0..(n - 1)
  <2>1. i \in Nat /\ i + tz \in (x + 1)..(w - 1)
    BY <1>3, <1>10
  <2> QED
    BY <1>2, <1>7, <1>9, <2>1
<1>13. ASSUME NEW i \in m PROVE i \in 0..n
  <2>1. CASE i = n
    BY <1>9, <2>1
  <2>2. CASE i \in z
    <3>1. i \in 0..(n - 1)
      BY <1>12, <2>2
    <3> QED
      BY <1>9, <3>1
  <2> QED
    BY <1>11, <2>1, <2>2
<1>14. m \subseteq Int
  <2>1. \A i \in m : i \in Int
    BY <1>13
  <2> QED
    BY <2>1
<1>15. PICK y : y = Shl(m, d, w)
  OBVIOUS
<1>16. \A i : i \in y <=> i \in 0..(w - 1) /\ i - d \in m
  <2>1. w \in Int /\ d \in Int
    BY <1>2
  <2> QED
    BY ONLY <1>14, <1>15, <2>1, ShlHas, Zenon
<1>17. PICK t : t = n + d
  OBVIOUS
<1>18. t \in Int /\ t \in 0..(w - 1) /\ t - d = n
  BY <1>2, <1>9, <1>17
<1>19. Leads(t, y)
  <2>1. t \in y
    BY <1>11, <1>16, <1>18
  <2>2. ASSUME NEW i \in y PROVE i <= t
    <3>1. PICK h : h = i - d
      OBVIOUS
    <3>2. i \in 0..(w - 1) /\ h \in m
      BY <1>16, <3>1
    <3>3. h \in 0..n
      BY <1>13, <3>2
    <3> QED
      BY <1>2, <1>9, <1>17, <3>1, <3>2, <3>3
  <2> QED
    BY <2>1, <2>2 DEF Leads
<1>20. y \subseteq 0..(w - 1) /\ y \in SUBSET Nat
  <2>1. \A i \in y : i \in 0..(w - 1)
    BY <1>16
  <2>2. \A i \in 0..(w - 1) : i \in Nat
    OBVIOUS
  <2> QED
    BY <2>1, <2>2
<1>21. Ctz(y, w) = d
  <2>1. y # {}
    BY <1>19 DEF Leads
  <2>2. PICK h : h = Min(y)
    OBVIOUS
  <2>3. h \in y /\ \A i \in y : h <= i
    BY <1>20, <2>1, <2>2, MinIs
  <2>4. d \in y
    <3>1. 0 + tz = tz /\ 0 \in Nat /\ d - d = 0 /\ d \in 0..(w - 1)
      BY <1>2, <1>7
    <3>2. 0 \in m
      BY <1>6, <1>10, <1>11, <3>1
    <3> QED
      BY <1>16, <3>1, <3>2
  <2>5. h >= d
    <3>1. h \in 0..(w - 1) /\ h - d \in 0..n
      BY <1>13, <1>16, <2>3
    <3> QED
      BY <1>2, <1>9, <3>1
  <2>6. h <= d /\ h \in 0..(w - 1)
    BY <1>16, <2>3, <2>4
  <2>7. h = d
    BY <1>2, <2>5, <2>6
  <2> QED
    BY <2>1, <2>2, <2>7 DEF Ctz
<1>22. NormalOf(f, y, t)
  BY <1>1, <1>19, <1>20, NormalHas
<1>23. SameMantissa(f, Normal(f, y), frac)
  <2>1. ASSUME NEW i \in 0..(p - 1) PROVE i \in Normal(f, y) <=> i + x + 1 \in frac
    <3>1. PICK h, g : h = i - p + t /\ g = i - p + n
      OBVIOUS
    <3>2. h - d = g /\ g + tz = i + x + 1 /\ g # n /\ g \in Int /\ h \in Int /\ g < n
      BY <1>2, <1>7, <1>9, <1>17, <3>1
    <3>3. i \in Normal(f, y) <=> h \in y
      BY <1>1, <1>22, <3>1 DEF NormalOf
    <3>4. g \in Nat => h \in 0..(w - 1)
      BY <1>2, <1>18, <3>2
    <3>5. h \in y <=> h \in 0..(w - 1) /\ g \in z
      BY <1>11, <1>16, <3>2
    <3>6. g + tz \in frac => g \in Nat
      <4>1. HAVE g + tz \in frac
      <4>2. PICK r : r = g + tz
        OBVIOUS
      <4>3. tz <= r
        BY <1>6, <4>1, <4>2
      <4> QED
        BY <1>7, <3>2, <4>2, <4>3
    <3>7. g \in z <=> g \in Nat /\ g + tz \in frac
      BY <1>10
    <3> QED
      BY <3>2, <3>3, <3>4, <3>5, <3>6, <3>7
  <2> QED
    BY <1>1, <2>1 DEF SameMantissa
<1>24. d = 0 => y = m
  <2>1. HAVE d = 0
  <2>2. \A i \in m : i \in 0..(w - 1) /\ i - d = i
    <3>1. ASSUME NEW i \in m PROVE i \in 0..(w - 1) /\ i - d = i
      <4>1. i \in 0..n
        BY <1>13
      <4> QED
        BY <1>2, <1>9, <2>1, <4>1
    <3> QED
      BY <3>1
  <2>3. \A i \in 0..(w - 1) : i - d = i
    BY <2>1
  <2> QED
    BY <1>16, <2>2, <2>3
<1> QED
  BY <1>1, <1>8, <1>15, <1>20, <1>21, <1>23, <1>24 DEF ManOf

(* A number that is not denormal is assembled from its mantissa and its    *)
(* exponent, or the zeros behind the mantissa.                             *)
SpeltAs(f, sexp, frac, j, z, y) ==
    /\ sexp > -Bias(f)
    /\ \/ j # 0 /\ z = sexp /\ SameMantissa(f, Normal(f, y), frac)
       \/ j = 0 /\ z = 0 /\ ManOf(f, y, frac, -sexp - 1)

Makes(f, v, sg, j, z, y) == VfAssemble(f, 6 \in sg, j, z, y) = v

(* What the reader makes of exponent and mantissa is the number.           *)
LEMMA Assembled ==
    ASSUME NEW f \in {F32, F64}, NEW v, v \subseteq 0..(f.width - 1),
           NEW sg, NEW sexp, NEW frac, VfOf(f, v, sg, sexp, frac),
           NEW y, NEW j, NEW z, SpeltAs(f, sexp, frac, j, z, y)
    PROVE  Makes(f, v, sg, j, z, y)
<1>1. Bias(f) \in {127, 1023} /\ Bias(f) \in Int
  BY Shape
<1>2. sexp \in Int
  <2>1. PICK e : e = Exponent(f, v)
    OBVIOUS
  <2>2. e \in Int
    BY <2>1, ExponentRestored DEF ExponentOf
  <2> QED
    BY <1>1, <2>1, <2>2 DEF VfOf
<1>3. SameMantissa(f, Normal(f, y), frac)
  BY DEF ManOf, SpeltAs
<1>4. Pack(f, Normal(f, y), Bits(Bias(f) + sexp), 6 \in sg) = v
  BY <1>3, PackedAgain
<1>5. ~(z <= -Bias(f))
  BY <1>1, <1>2 DEF SpeltAs
<1>6. PICK n : n = IF j = 0 THEN -Ctz(y, f.width) - 1 ELSE z
  OBVIOUS
<1>7. n = sexp
  <2>1. CASE j # 0
    BY <1>6, <2>1 DEF SpeltAs
  <2>2. CASE j = 0
    <3>1. Ctz(y, f.width) = -sexp - 1
      BY <2>2 DEF ManOf, SpeltAs
    <3> QED
      BY <1>2, <1>6, <2>2, <3>1
  <2> QED
    BY <2>1, <2>2
<1>8. VfAssemble(f, 6 \in sg, j, z, y) = Pack(f, Normal(f, y), Bits(Bias(f) + n), 6 \in sg)
  BY <1>5, <1>6 DEF VfAssemble
<1> QED
  BY <1>4, <1>7, <1>8 DEF Makes

(* So is a denormal number, from the distances of its ends to the ends of  *)
(* the word.                                                               *)
Denormal(f, sexp, frac, sub, z) ==
    /\ sexp = -Bias(f) /\ frac # {}
    /\ sub = Shr(frac, Ctz(frac, f.width)) /\ z = sexp - Clz(frac, f.width) - 1

DenormalMade(f, v, sg, sub, z, j) ==
    /\ sub \subseteq 0..(f.width - 1) /\ z \in -1200..1200
    /\ Makes(f, v, sg, j, z, sub)

(* The same, of a denormal number.                                         *)
LEMMA DenormalAssembled ==
    ASSUME NEW f \in {F32, F64}, NEW v, v \subseteq 0..(f.width - 1),
           NEW sg, NEW sexp, NEW frac, VfOf(f, v, sg, sexp, frac),
           NEW sub, NEW z, NEW j, Denormal(f, sexp, frac, sub, z)
    PROVE  DenormalMade(f, v, sg, sub, z, j)
<1>1. /\ sexp = -Bias(f) /\ frac # {}
      /\ sub = Shr(frac, Ctz(frac, f.width)) /\ z = sexp - Clz(frac, f.width) - 1
  BY DEF Denormal
<1>2. PICK w, p, x, b : w = f.width /\ p = f.mant /\ x = f.exp /\ b = Bias(f)
  OBVIOUS
<1>3. /\ w = p + x + 1 /\ x \in {8, 11} /\ p \in {23, 52} /\ w \in {32, 64} /\ b \in {127, 1023}
      /\ p \in Int /\ x \in Int /\ w \in Int /\ b \in Int
  BY <1>2, Shape
<1>4. \A i \in frac : i \in (x + 1)..(w - 1)
  BY <1>2 DEF VfOf
<1>5. frac \subseteq Int /\ frac \in SUBSET Nat /\ frac \subseteq 0..(w - 1)
  <2>1. \A i \in frac : i \in Int /\ i \in Nat /\ i \in 0..(w - 1)
    BY <1>3, <1>4
  <2> QED
    BY <2>1
<1>6. PICK tz, hi : tz = Ctz(frac, w) /\ hi = Max(frac)
  OBVIOUS
<1>7. tz \in frac /\ \A i \in frac : tz <= i
  <2>1. Min(frac) \in frac /\ \A i \in frac : Min(frac) <= i
    BY <1>5, <1>1, MinIs
  <2>2. tz = Min(frac)
    BY <1>6, <1>1 DEF Ctz
  <2> QED
    BY <2>1, <2>2
<1>8. /\ hi \in frac /\ Clz(frac, w) = w - 1 - hi /\ \A i \in frac : i <= hi
  <2>1. w - 1 \in Nat
    BY <1>3
  <2> QED
    BY <1>5, <1>6, <1>1, <2>1, HighestBit
<1>9. tz \in (x + 1)..(w - 1) /\ tz \in Int /\ hi \in (x + 1)..(w - 1) /\ hi \in Int /\ tz <= hi
  BY <1>3, <1>4, <1>7, <1>8
<1>10. \A i : i \in sub <=> i \in Nat /\ i + tz \in frac
  <2>1. tz \in Int /\ sub = Shr(frac, tz)
    BY <1>2, <1>6, <1>9, <1>1
  <2> QED
    BY ONLY <1>5, <2>1, ShrHas
<1>11. PICK g : g = hi - tz
  OBVIOUS
<1>12. g \in Nat /\ g + tz = hi /\ g \in 0..(w - 1)
  BY <1>3, <1>9, <1>11
<1>13. ASSUME NEW i \in sub PROVE i \in 0..g
  <2>1. i \in Nat /\ i + tz <= hi
    BY <1>8, <1>10
  <2> QED
    BY <1>9, <1>12, <2>1
<1>14. sub \subseteq 0..(w - 1)
  <2>1. ASSUME NEW i \in sub PROVE i \in 0..(w - 1)
    <3>1. i \in 0..g
      BY <1>13
    <3> QED
      BY <1>3, <1>12, <3>1
  <2> QED
    BY <2>1
<1>15. g \in sub
  BY <1>8, <1>10, <1>12
<1>16. Clz(sub, w) = w - 1 - g
  <2>1. w - 1 \in Nat /\ sub # {}
    BY <1>3, <1>15
  <2>2. PICK h : h = Max(sub)
    OBVIOUS
  <2>3. h \in sub /\ (\A i \in sub : i <= h) /\ Clz(sub, w) = w - 1 - h
    BY <1>14, <2>1, <2>2, HighestBit
  <2>4. g <= h /\ h \in 0..g
    BY <1>13, <1>15, <2>3
  <2>5. h = g
    BY <1>12, <2>4
  <2> QED
    BY <2>3, <2>5
<1>17. z = -b - (w - 1 - hi) - 1
  BY <1>2, <1>8, <1>1
<1>18. z \in -1200..1200 /\ z <= -b
  <2>1. hi \in 0..63 /\ w \in Int /\ b \in Int /\ w \in 32..64 /\ b \in 127..1023 /\ hi < w
    BY <1>3, <1>9
  <2> QED
    BY ONLY <1>17, <2>1
<1>19. PICK n : n = Bias(f) + z + Clz(sub, f.width) - f.exp
  OBVIOUS
<1>20. n = tz - 1 - x /\ n \in Int
  <2>1. n = b + z + (w - 1 - g) - x
    BY <1>2, <1>16, <1>19
  <2>2. z = -b - (w - 1 - hi) - 1 /\ g = hi - tz
    BY <1>11, <1>17
  <2>3. b \in Int /\ w \in Int /\ x \in Int /\ hi \in Int /\ tz \in Int
    BY <1>3, <1>9
  <2> QED
    BY ONLY <2>1, <2>2, <2>3
<1>21. sub \subseteq Int
  <2>1. \A i \in sub : i \in Int
    BY <1>10
  <2> QED
    BY <2>1
<1>22. PICK m : m = Shl(sub, n, w)
  OBVIOUS
<1>23. \A i : i \in m <=> i \in 0..(w - 1) /\ i - n \in sub
  <2>1. w \in Int /\ n \in Int
    BY <1>3, <1>20
  <2> QED
    BY ONLY <1>21, <1>22, <2>1, ShlHas, Zenon
<1>24. SameMantissa(f, m, frac)
  <2>1. ASSUME NEW i \in 0..(p - 1) PROVE i \in m <=> i + x + 1 \in frac
    <3>1. PICK h : h = i - n
      OBVIOUS
    <3>2. i \in 0..(w - 1) /\ h \in Int /\ h + tz = i + x + 1
      BY <1>3, <1>9, <1>20, <3>1
    <3>3. h + tz \in frac => h \in Nat
      <4>1. HAVE h + tz \in frac
      <4>2. PICK r : r = h + tz
        OBVIOUS
      <4>3. tz <= r
        BY <1>7, <4>1, <4>2
      <4> QED
        BY <1>9, <3>2, <4>2, <4>3
    <3>4. h \in sub <=> h \in Nat /\ h + tz \in frac
      BY <1>10
    <3> QED
      BY <1>23, <3>1, <3>2, <3>3, <3>4
  <2> QED
    BY <1>2, <2>1 DEF SameMantissa
<1>25. Pack(f, m, Bits(Bias(f) + sexp), 6 \in sg) = v
  BY <1>24, PackedAgain
<1>26. Bits(Bias(f) + sexp) = {}
  <2>1. Bias(f) + sexp = 0
    BY <1>2, <1>3, <1>1
  <2>2. Bits(0) = {}
    BY NumbersAssumption
  <2> QED
    BY <2>1, <2>2
<1>27. VfAssemble(f, 6 \in sg, j, z, sub) = Pack(f, m, {}, 6 \in sg)
  BY <1>2, <1>18, <1>19, <1>22 DEF VfAssemble
<1> QED
  BY <1>2, <1>14, <1>18, <1>25, <1>26, <1>27 DEF DenormalMade, Makes

(* The octets of a mantissa hold all of it.                                *)
LEMMA MantissaOctets ==
    ASSUME NEW f \in {F32, F64}, NEW man, man \subseteq 0..(f.width - 1)
    PROVE  U64Length(man) \in 0..8 /\ man \subseteq 0..(8 * U64Length(man) - 1)
<1>1. man \subseteq 0..63
  <2>1. f.width \in {32, 64}
    BY Shape
  <2>2. 0..(f.width - 1) \subseteq 0..63
    BY <2>1
  <2> QED
    BY <2>2
<1>2. U64Length(man) \in 1..8
  BY <1>1, Lengths
<1>3. man \subseteq 0..(8 * U64Length(man) - 1)
  BY ONLY <1>1, Extents
<1> QED
  BY <1>2, <1>3

(* A number with an exponent and a mantissa of their own is read as what   *)
(* it was.                                                                 *)
LEMMA VfOutOfLineReads ==
    ASSUME NEW f \in {F32, F64}, NEW v, v \subseteq 0..(f.width - 1),
           NEW sg, NEW sexp, NEW frac, VfOf(f, v, sg, sexp, frac),
           sexp # Bias(f) + 1, ~(sexp = -Bias(f) /\ frac = {})
    PROVE  \E e : Spells(VfOutOfLine(f, sg, sexp, frac), e) /\ VfGood(f, v, e)
<1>1. PICK w, b : w = f.width /\ b = Bias(f)
  OBVIOUS
<1>2. w \in {32, 64} /\ b \in {127, 1023} /\ b \in Int /\ f.exp \in {8, 11}
  BY <1>1, Shape
<1>3. sg \subseteq {6} /\ frac \subseteq (f.exp + 1)..(f.width - 1)
  BY DEF VfOf
<1>4. sexp \in (-b)..(b + 1)
  <2>1. PICK e : e = Exponent(f, v)
    OBVIOUS
  <2>2. e \in 0..(2 * b + 1)
    BY <1>1, <2>1, ExponentRestored DEF ExponentOf
  <2>3. sexp = e - b
    BY <1>1, <2>1 DEF VfOf
  <2> QED
    BY <1>2, <2>2, <2>3
<1>5. QuietIn(f, v) = v
  BY NotQuieted
<1>6. PICK man, sub : man = VfMan(f, frac) /\ sub = Shr(frac, Ctz(frac, f.width))
  OBVIOUS
<1>7. ASSUME NEW j, NEW x, Spelt(j, x), NEW m, m \subseteq 0..(f.width - 1),
             VfAssemble(f, 6 \in sg, j, x, m) = v
      PROVE  \E e : Spells(OutOfLine(sg, j, x, U64Length(m), m), e) /\ VfGood(f, v, e)
  <2>1. U64Length(m) \in 0..8 /\ m \subseteq 0..(8 * U64Length(m) - 1)
    BY <1>7, MantissaOctets
  <2>2. PICK k : k = U64Length(m)
    OBVIOUS
  <2>3. k \in 0..8 /\ m \subseteq 0..(8 * k - 1)
    BY <2>1, <2>2
  <2>4. VfAssemble(f, 6 \in sg, j, x, m) = QuietIn(f, v)
    BY <1>5, <1>7
  <2>5. \E e : Spells(OutOfLine(sg, j, x, k, m), e) /\ VfGood(f, v, e)
    BY <1>3, <1>7, <2>3, <2>4, OutOfLineReads
  <2> QED
    BY <2>2, <2>5
<1>8. CASE sexp = -Bias(f)
  <2>1. PICK x : x = sexp - Clz(frac, f.width) - 1
    OBVIOUS
  <2>2. PICK j : j = S64Length(Signed(x))
    OBVIOUS
  <2>3. frac # {}
    BY <1>8
  <2>4. /\ sub \subseteq 0..(f.width - 1) /\ x \in -1200..1200
        /\ VfAssemble(f, 6 \in sg, j, x, sub) = v
    <3>1. Denormal(f, sexp, frac, sub, x)
      BY <1>6, <1>8, <2>1, <2>3 DEF Denormal
    <3>2. DenormalMade(f, v, sg, sub, x, j)
      BY <3>1, DenormalAssembled
    <3> QED
      BY <3>2 DEF DenormalMade, Makes
  <2>5. Spelt(j, x)
    BY <2>2, <2>4 DEF Spelt
  <2>6. VfOutOfLine(f, sg, sexp, frac) = OutOfLine(sg, j, x, U64Length(sub), sub)
    BY <1>6, <1>8, <2>1, <2>2 DEF VfOutOfLine
  <2>7. sub \subseteq 0..(f.width - 1) /\ VfAssemble(f, 6 \in sg, j, x, sub) = v
    BY <2>4
  <2>8. \E e : Spells(OutOfLine(sg, j, x, U64Length(sub), sub), e) /\ VfGood(f, v, e)
    BY <1>7, <2>5, <2>7
  <2> QED
    BY <2>6, <2>8
<1>9. ASSUME sexp # -Bias(f) PROVE sexp > -Bias(f)
  BY <1>1, <1>2, <1>4, <1>9
<1>10. PICK j : j = S64Length(Signed(sexp))
  OBVIOUS
<1>11. Spelt(j, sexp) /\ j # 0
  <2>1. sexp \in -1200..1200
    BY <1>2, <1>4
  <2>2. S64Length(Signed(sexp)) \in 1..2
    BY ONLY <2>1, SignedIs
  <2> QED
    BY <1>10, <2>1, <2>2 DEF Spelt
<1>12. CASE sexp # -Bias(f) /\ frac = {}
  <2>1. VfOutOfLine(f, sg, sexp, frac) = OutOfLine(sg, j, sexp, 0, {})
    BY <1>10, <1>12 DEF VfOutOfLine
  <2>2. SameMantissa(f, Normal(f, {}), frac)
    <3>1. Normal(f, {}) = {}
      BY DEF Normal, Shl, Shr
    <3> QED
      BY <1>12, <3>1 DEF SameMantissa
  <2>3. VfAssemble(f, 6 \in sg, j, sexp, {}) = v
    <3>1. SpeltAs(f, sexp, frac, j, sexp, {})
      BY <1>9, <1>11, <1>12, <2>2 DEF SpeltAs
    <3>2. Makes(f, v, sg, j, sexp, {})
      BY <3>1, Assembled
    <3> QED
      BY <3>2 DEF Makes
  <2>4. VfAssemble(f, 6 \in sg, j, sexp, {}) = QuietIn(f, v)
    BY <1>5, <2>3
  <2>5. PICK k, m : k = 0 /\ m = {}
    OBVIOUS
  <2>6. k \in 0..8 /\ m \subseteq 0..(8 * k - 1) /\ m \subseteq 0..(f.width - 1)
    BY <2>5
  <2>7. VfAssemble(f, 6 \in sg, j, sexp, m) = QuietIn(f, v)
    BY <2>4, <2>5
  <2>8. \E e : Spells(OutOfLine(sg, j, sexp, k, m), e) /\ VfGood(f, v, e)
    BY <1>3, <1>11, <2>6, <2>7, OutOfLineReads
  <2> QED
    BY <2>1, <2>5, <2>8
<1>13. ASSUME sexp # -Bias(f), frac # {}
       PROVE  man \subseteq 0..(f.width - 1) /\ VfAssemble(f, 6 \in sg, j, sexp, man) = v
  <2>1. PICK d : d = 0
    OBVIOUS
  <2>2. d \in 0..7
    BY <2>1
  <2>3. /\ ManOf(f, Shl(VfMan(f, frac), d, f.width), frac, d)
        /\ d = 0 => Shl(VfMan(f, frac), d, f.width) = VfMan(f, frac)
    BY <1>3, <1>13, <2>2, ManHas
  <2>4. man \subseteq 0..(f.width - 1) /\ SameMantissa(f, Normal(f, man), frac)
    BY <1>6, <2>1, <2>3 DEF ManOf
  <2>5. SpeltAs(f, sexp, frac, j, sexp, man)
    BY <1>9, <1>11, <1>13, <2>4 DEF SpeltAs
  <2>6. Makes(f, v, sg, j, sexp, man)
    BY <2>5, Assembled
  <2>7. VfAssemble(f, 6 \in sg, j, sexp, man) = v
    BY <2>6 DEF Makes
  <2> QED
    BY <2>4, <2>7
<1>14. CASE sexp # -Bias(f) /\ frac # {} /\ sexp \in -8..-1
  <2>1. VfOutOfLine(f, sg, sexp, frac) = VfFraction(f, sg, sexp, frac)
    BY <1>14 DEF VfOutOfLine
  <2>2. PICK d : d = -sexp - 1
    OBVIOUS
  <2>3. d \in 0..7
    BY <1>14, <2>2
  <2>4. PICK y : y = Shl(man, -sexp - 1, f.width)
    OBVIOUS
  <2>5. \/ VfFraction(f, sg, sexp, frac) = OutOfLine(sg, j, sexp, U64Length(man), man)
        \/ VfFraction(f, sg, sexp, frac) = OutOfLine(sg, 0, 0, U64Length(y), y)
    BY <1>6, <1>10, <2>4 DEF VfFraction
  <2>6. ManOf(f, y, frac, d)
    <3>1. ManOf(f, Shl(VfMan(f, frac), d, f.width), frac, d)
      BY <1>3, <1>14, <2>3, ManHas
    <3> QED
      BY <1>6, <2>2, <2>4, <3>1
  <2>7. PICK i, z : i = 0 /\ z = 0
    OBVIOUS
  <2>8. VfAssemble(f, 6 \in sg, i, z, y) = v
    <3>1. SpeltAs(f, sexp, frac, i, z, y)
      BY <1>9, <1>14, <2>2, <2>6, <2>7 DEF SpeltAs
    <3>2. Makes(f, v, sg, i, z, y)
      BY <3>1, Assembled
    <3> QED
      BY <3>2 DEF Makes
  <2>9. Spelt(i, z) /\ y \subseteq 0..(f.width - 1)
    BY <2>6, <2>7 DEF Spelt, ManOf
  <2>10. \E e : Spells(OutOfLine(sg, i, z, U64Length(y), y), e) /\ VfGood(f, v, e)
    BY <1>7, <2>8, <2>9
  <2>11. \E e : Spells(OutOfLine(sg, j, sexp, U64Length(man), man), e) /\ VfGood(f, v, e)
    BY <1>7, <1>11, <1>13, <1>14
  <2> QED
    BY <2>1, <2>5, <2>7, <2>10, <2>11
<1>15. CASE sexp # -Bias(f) /\ frac # {} /\ ~(sexp \in -8..-1)
  <2>1. VfOutOfLine(f, sg, sexp, frac) = OutOfLine(sg, j, sexp, U64Length(man), man)
    BY <1>6, <1>10, <1>15 DEF VfOutOfLine
  <2> QED
    BY <1>7, <1>11, <1>13, <1>15, <2>1
<1> QED
  BY <1>8, <1>12, <1>14, <1>15

(* Every vf128 number is read as what was written.                         *)
LEMMA VfRestored ==
    ASSUME NEW f \in {F32, F64}, NEW v, v \subseteq 0..(f.width - 1)
    PROVE  \E e : Spells(VfWrite(f, v), e) /\ VfGood(f, v, e)
<1>1. PICK sg, sexp, frac : /\ sg = IF Sign(f, v) THEN {6} ELSE {}
                            /\ sexp = VfSexp(f, v)
                            /\ frac = VfFrac(f, v)
  OBVIOUS
<1>2. VfOf(f, v, sg, sexp, frac)
  BY <1>1, VfFields
<1>3. sg \subseteq {6}
  BY <1>2 DEF VfOf
<1>4. PICK w, q : w = f.width /\ q = Bias(f)
  OBVIOUS
<1>5. w \in {32, 64} /\ q \in {127, 1023}
  BY <1>4, Shape
<1>6. ASSUME NEW hi, hi \subseteq 0..1, NEW lo, lo \subseteq 0..3,
             NEW o, o = Shl(hi, 4, 8) \union lo,
             VfWrite(f, v) = Chunks(<< <<sg \union o>> >>),
             Inlined(f, v, sg, hi, lo)
      PROVE  \E e : Spells(VfWrite(f, v), e) /\ VfGood(f, v, e)
  <2>1. PICK u : u = sg \union o
    OBVIOUS
  <2>2. u = {} \union sg \union Shl(hi, 4, 8) \union lo /\ {} \subseteq {7}
    BY <1>6, <2>1
  <2>3. PrefixIs(u, {}, sg, hi, lo)
    BY <1>3, <1>6, <2>2, PrefixHas
  <2>4. Spells(Chunks(<< <<u>> >>), <<u>>) /\ VfGood(f, v, <<u>>)
    BY <1>6, <2>3, VfInlineReads DEF Inlined
  <2> QED
    BY <1>6, <2>1, <2>4
<1> DEFINE One == sexp = q + 1
           Two == sexp = -q /\ frac = {}
           Three == sexp \in 0..1 /\ frac \subseteq TopNibble(f)
           Four == sexp \in -4..-1 /\ Shr(frac, -sexp) \subseteq TopNibble(f)
<1>7. /\ One => ~Two /\ ~Three /\ ~Four
      /\ Two => ~Three /\ ~Four
      /\ Three => ~Four
  BY <1>5
<1>8. VfWrite(f, v) =
         CASE One -> Chunks(<< <<sg \union ({4, 5} \union (IF frac = {} THEN {} ELSE {3}))>> >>)
           [] Two -> Chunks(<< <<sg \union {}>> >>)
           [] Three -> Chunks(<< <<sg \union (Shl(Bits(sexp + 1), 4, 8) \union Shr(frac, f.width - 4))>> >>)
           [] Four -> Chunks(<< <<sg \union Shr({4} \union Shr(frac, f.width - 4), -sexp)>> >>)
           [] OTHER -> VfOutOfLine(f, sg, sexp, frac)
  BY <1>1, <1>4 DEF VfWrite
<1>9. Shl({}, 4, 8) = {}
  BY DEF Shl
<1>10. CASE One
  <2>1. PICK lo, hi : lo = (IF frac = {} THEN {} ELSE {3}) /\ hi = {0, 1}
    OBVIOUS
  <2>2. PICK o : o = {4, 5} \union lo
    OBVIOUS
  <2>3. Inlined(f, v, sg, {0, 1}, lo)
    <3>1. Endless(f, sexp, frac, lo)
      BY <1>4, <1>10, <2>1 DEF Endless
    <3> QED
      BY <1>2, <3>1, VfEndless
  <2>4. Shl({0, 1}, 4, 8) = {4, 5}
    <3>1. {0, 1} \subseteq Int /\ 4 \in Int /\ 8 \in Int
      OBVIOUS
    <3>2. \A i : i \in Shl({0, 1}, 4, 8) <=> i \in 0..(8 - 1) /\ i - 4 \in {0, 1}
      BY ONLY <3>1, ShlHas, Zenon
    <3>3. \A i \in 0..(8 - 1) : i - 4 \in {0, 1} <=> i \in {4, 5}
      OBVIOUS
    <3>4. 4 \in 0..(8 - 1) /\ 5 \in 0..(8 - 1)
      OBVIOUS
    <3> QED
      BY <3>2, <3>3, <3>4
  <2> HIDE DEF One, Two, Three, Four
  <2>5. VfWrite(f, v) = Chunks(<< <<sg \union o>> >>)
    BY <1>7, <1>8, <1>10, <2>1, <2>2
  <2>6. hi \subseteq 0..1 /\ lo \subseteq 0..3 /\ o = Shl(hi, 4, 8) \union lo
    BY <2>1, <2>2, <2>4
  <2>7. Inlined(f, v, sg, hi, lo)
    BY <2>1, <2>3
  <2> QED
    BY <1>6, <2>5, <2>6, <2>7
<1>11. CASE Two
  <2>1. Inlined(f, v, sg, {}, {})
    <3>1. VfOf(f, v, sg, sexp, {}) /\ sexp = -Bias(f)
      BY <1>2, <1>4, <1>11
    <3> QED
      BY <3>1, VfZero
  <2> HIDE DEF One, Two, Three, Four
  <2>2. VfWrite(f, v) = Chunks(<< <<sg \union {}>> >>)
    BY <1>7, <1>8, <1>11
  <2>3. PICK hi, lo, o : hi = {} /\ lo = {} /\ o = {}
    OBVIOUS
  <2>4. hi \subseteq 0..1 /\ lo \subseteq 0..3 /\ o = Shl(hi, 4, 8) \union lo
    BY <1>9, <2>3
  <2>5. Inlined(f, v, sg, hi, lo)
    BY <2>1, <2>3
  <2>6. VfWrite(f, v) = Chunks(<< <<sg \union o>> >>)
    BY <2>2, <2>3
  <2> QED
    BY <1>6, <2>4, <2>5, <2>6
<1>12. CASE Three
  <2>1. PICK hi, lo : hi = Bits(sexp + 1) /\ lo = Shr(frac, f.width - 4)
    OBVIOUS
  <2>2. hi \subseteq 0..1 /\ lo \subseteq 0..3 /\ Inlined(f, v, sg, hi, lo)
    <3>1. Few(f, sexp, frac, hi, lo)
      BY <1>12, <2>1 DEF Few
    <3> QED
      BY <1>2, <3>1, VfFew
  <2>3. PICK o : o = Shl(hi, 4, 8) \union lo
    OBVIOUS
  <2> HIDE DEF One, Two, Three, Four
  <2>4. VfWrite(f, v) = Chunks(<< <<sg \union o>> >>)
    BY <1>7, <1>8, <1>12, <2>1, <2>3
  <2> QED
    BY <1>6, <2>2, <2>3, <2>4
<1>13. CASE Four
  <2>1. PICK lo : lo = Shr({4} \union Shr(frac, f.width - 4), -sexp)
    OBVIOUS
  <2>2. lo \subseteq 0..3 /\ Inlined(f, v, sg, {}, lo)
    <3>1. FewBelow(f, sexp, frac, lo)
      BY <1>13, <2>1 DEF FewBelow
    <3> QED
      BY <1>2, <3>1, VfFewBelow
  <2> HIDE DEF One, Two, Three, Four
  <2>3. VfWrite(f, v) = Chunks(<< <<sg \union lo>> >>)
    BY <1>7, <1>8, <1>13, <2>1
  <2>4. PICK hi : hi = {}
    OBVIOUS
  <2>5. hi \subseteq 0..1 /\ lo = Shl(hi, 4, 8) \union lo
    BY <1>9, <2>4
  <2>6. Inlined(f, v, sg, hi, lo)
    BY <2>2, <2>4
  <2> QED
    BY <1>6, <2>2, <2>3, <2>5, <2>6
<1>14. CASE ~One /\ ~Two /\ ~Three /\ ~Four
  <2>1. VfWrite(f, v) = VfOutOfLine(f, sg, sexp, frac)
    <3> HIDE DEF One, Two, Three, Four
    <3> QED
      BY <1>8, <1>14
  <2>2. sexp # Bias(f) + 1 /\ ~(sexp = -Bias(f) /\ frac = {})
    BY <1>4, <1>14
  <2> QED
    BY <1>2, <2>1, <2>2, VfOutOfLineReads
<1> QED
  BY <1>10, <1>11, <1>12, <1>13, <1>14

(* The vf128 numbers.                                                      *)
LEMMA VfReads ==
    ASSUME NEW v
    PROVE  /\ v \in Word32 => Reads("vf32", v, Vf32Write(v))
           /\ v \in Word => Reads("vf64", v, Vf64Write(v))
<1>1. ASSUME v \in Word32 PROVE Reads("vf32", v, Vf32Write(v))
  <2>1. F32 \in {F32, F64} /\ v \subseteq 0..(F32.width - 1)
    <3>1. F32.width - 1 = 31
      BY Fields
    <3> QED
      BY <1>1, <3>1 DEF Word32
  <2>2. PICK e : Spells(VfWrite(F32, v), e) /\ VfGood(F32, v, e)
    BY <2>1, VfRestored
  <2>3. \A s : Starts(s, e) => Got("vf32", v, s) = Value(Kept("vf32", v), Drop(s, Len(e)))
    BY <2>2 DEF VfGood, Got, Vf32Read, Kept
  <2> QED
    BY <2>2, <2>3, SpellsReads DEF Vf32Write
<1>2. ASSUME v \in Word PROVE Reads("vf64", v, Vf64Write(v))
  <2>1. F64 \in {F32, F64} /\ v \subseteq 0..(F64.width - 1)
    <3>1. F64.width - 1 = 63
      BY Fields
    <3> QED
      BY <1>2, <3>1 DEF Word
  <2>2. PICK e : Spells(VfWrite(F64, v), e) /\ VfGood(F64, v, e)
    BY <2>1, VfRestored
  <2>3. \A s : Starts(s, e) => Got("vf64", v, s) = Value(Kept("vf64", v), Drop(s, Len(e)))
    BY <2>2 DEF VfGood, Got, Vf64Read, Kept
  <2> QED
    BY <2>2, <2>3, SpellsReads DEF Vf64Write
<1> QED
  BY <1>1, <1>2

(* The first n numbers of a vector, as they are read.                      *)
QuietFirst(f, v, n, u) == IsSeq(u) /\ Len(u) = n /\ \A k \in 1..n : u[k] = QuietIn(f, v[k])

(* One more.                                                               *)
LEMMA QuietNext ==
    ASSUME NEW f, NEW v, NEW n \in Nat, NEW u, QuietFirst(f, v, n, u),
           NEW x, x = QuietIn(f, v[n + 1])
    PROVE  QuietFirst(f, v, n + 1, Append(u, x))
<1>1. PICK t : t = Append(u, x)
  OBVIOUS
<1>2. IsSeq(u) /\ Len(u) = n
  BY DEF QuietFirst
<1>3. IsSeq(t) /\ Len(t) = n + 1 /\ (\A i \in 1..n : t[i] = u[i]) /\ t[n + 1] = x
  BY <1>1, <1>2, SeqAppended
<1>4. ASSUME NEW k \in 1..(n + 1) PROVE t[k] = QuietIn(f, v[k])
  <2>1. CASE k = n + 1
    BY <1>3, <2>1
  <2>2. CASE k # n + 1
    <3>1. k \in 1..n
      BY <2>2
    <3> QED
      BY <1>3, <3>1 DEF QuietFirst
  <2> QED
    BY <2>1, <2>2
<1> QED
  BY <1>1, <1>3, <1>4 DEF QuietFirst

(* The codes p of the numbers of a vector are read one after the other.    *)
LEMMA VfVecRestored ==
    ASSUME NEW f, NEW v, IsSeq(v), NEW n, n = Len(v),
           NEW p, IsSeq(p), Len(p) = n, \A i \in 1..n : IsSeq(p[i]) /\ VfGood(f, v[i], p[i]),
           NEW s, Starts(s, FlattenSeq(p))
    PROVE  VfVecRead(f, s, n).ok /\ QuietFirst(f, v, n, VfVecRead(f, s, n).value)
<1>1. n \in Nat /\ \A i \in 1..n : IsSeq(p[i])
  BY SeqDomain
<1>2. PICK j : Joins(j, p, n) /\ \A i \in 0..n : IsSeq(j[i])
  BY <1>1, JoinsExist
<1>3. Joined(j, p, n)
  BY <1>1, <1>2, JoinsHold
<1>4. FlattenSeq(p) = j[n]
  BY <1>1, <1>2, FlattenAll
<1>5. PICK g : VecReads(g, f, s, n) /\ VfVecRead(f, s, n) = g[n]
  BY <1>1, VfVecReadIs
<1>6. g[0] = Value(<<>>, s) /\ \A i \in 1..n : g[i] = VfVecStep(f, g[i - 1])
  BY <1>1, <1>5 DEF VecReads
<1>7. IsSeq(s) /\ Starts(s, j[n])
  BY <1>4 DEF Starts
<1> DEFINE Read(i) == g[i].ok /\ g[i].rest = Drop(s, Len(j[i])) /\ QuietFirst(f, v, i, g[i].value)
           T == {i \in 0..n : Read(i)}
<1>8. 0 \in T
  <2>1. j[0] = <<>> /\ Len(j[0]) = 0
    BY <1>2, EmptyIsSeq DEF Joins
  <2>2. Drop(s, 0) = s
    BY <1>7, DropNone
  <2>3. g[0].ok /\ g[0].value = <<>> /\ g[0].rest = s
    BY <1>6, ValueIs
  <2>4. QuietFirst(f, v, 0, <<>>)
    BY EmptyIsSeq DEF QuietFirst
  <2>5. Read(0)
    BY <2>1, <2>2, <2>3, <2>4
  <2>6. 0 \in 0..n
    BY <1>1
  <2> QED
    BY <2>5, <2>6
<1>9. ASSUME NEW i \in 1..n, i - 1 \in T PROVE i \in T
  <2>1. PICK r, x : r = g[i - 1] /\ x = VfRead(f, r.rest)
    OBVIOUS
  <2>2. PICK a, b, c : a = j[i - 1] /\ b = p[i] /\ c = j[i]
    OBVIOUS
  <2>3. g[i] = IF ~r.ok THEN r ELSE IF ~x.ok THEN x ELSE Value(Append(r.value, x.value), x.rest)
    BY <1>6, <2>1 DEF VfVecStep
  <2>4. r.ok /\ r.rest = Drop(s, Len(a)) /\ QuietFirst(f, v, i - 1, r.value)
    BY <1>9, <2>1, <2>2
  <2>5. IsSeq(a) /\ IsSeq(b) /\ c = a \o b /\ IsSeq(c)
    <3>1. i \in 0..n /\ i - 1 \in 0..n
      BY <1>1
    <3> QED
      BY <1>1, <1>2, <2>2, <3>1 DEF Joins
  <2>6. Starts(s, c)
    <3>1. i \in 0..n /\ n \in i..n /\ n \in 0..n
      BY <1>1
    <3>2. \A k \in 1..Len(c) : j[n][k] = c[k]
      BY <1>3, <2>2, <3>1 DEF Joined
    <3>3. Len(c) <= Len(j[n]) /\ Len(c) \in Nat /\ Len(j[n]) \in Nat
      BY <1>3, <2>2, <3>1 DEF Joined
    <3>4. Len(s) \in Nat /\ Len(j[n]) <= Len(s)
      BY <1>7, SeqDomain DEF Starts
    <3>5. \A k \in 1..Len(c) : k \in 1..Len(j[n])
      BY <3>3
    <3>6. \A k \in 1..Len(j[n]) : s[k] = j[n][k]
      BY <1>7 DEF Starts
    <3>7. Len(c) <= Len(s)
      BY <3>3, <3>4
    <3>8. \A k \in 1..Len(c) : s[k] = c[k]
      BY <3>2, <3>5, <3>6
    <3> QED
      BY <1>7, <2>5, <3>7, <3>8 DEF Starts
  <2>7. Starts(Drop(s, Len(a)), b) /\ Drop(Drop(s, Len(a)), Len(b)) = Drop(s, Len(c))
    <3>1. IsSeq(a) /\ IsSeq(b) /\ Starts(s, a \o b)
      BY <2>5, <2>6
    <3>2. /\ Starts(Drop(s, Len(a)), b)
          /\ Drop(Drop(s, Len(a)), Len(b)) = Drop(s, Len(a \o b))
      BY ONLY <3>1, StartsJoined
    <3> QED
      BY <2>5, <3>2
  <2>8. x = Value(QuietIn(f, v[i]), Drop(s, Len(c)))
    <3>1. VfGood(f, v[i], b)
      BY <2>2
    <3>2. Starts(r.rest, b) /\ Drop(r.rest, Len(b)) = Drop(s, Len(c))
      BY <2>4, <2>7
    <3> QED
      BY <2>1, <3>1, <3>2 DEF VfGood
  <2>9. x.ok /\ x.value = QuietIn(f, v[i]) /\ x.rest = Drop(s, Len(c))
    BY <2>8, ValueIs
  <2>10. g[i] = Value(Append(r.value, x.value), Drop(s, Len(c)))
    BY <2>3, <2>4, <2>9
  <2>11. QuietFirst(f, v, i, Append(r.value, x.value))
    <3>1. PICK k, u, y : k = i - 1 /\ u = r.value /\ y = x.value
      OBVIOUS
    <3>2. k \in Nat /\ k + 1 = i
      BY <3>1
    <3>3. QuietFirst(f, v, k, u) /\ y = QuietIn(f, v[k + 1])
      BY <2>4, <2>9, <3>1, <3>2
    <3>4. QuietFirst(f, v, k + 1, Append(u, y))
      BY <3>2, <3>3, QuietNext
    <3> QED
      BY <3>1, <3>2, <3>4
  <2>12. g[i].ok /\ g[i].value = Append(r.value, x.value) /\ g[i].rest = Drop(s, Len(c))
    <3>1. PICK u, d, h : u = Append(r.value, x.value) /\ d = Drop(s, Len(c)) /\ h = g[i]
      OBVIOUS
    <3>2. h = Value(u, d)
      BY <2>10, <3>1
    <3>3. h.ok /\ h.value = u /\ h.rest = d
      BY ONLY <3>2, ValueIs
    <3> QED
      BY <3>1, <3>3
  <2>13. Read(i)
    BY <2>2, <2>11, <2>12
  <2>14. i \in 0..n
    BY <1>1
  <2> QED
    BY <2>13, <2>14
<1>10. n \in T
  <2> HIDE DEF T
  <2>1. 0..n \subseteq T
    BY ONLY <1>1, <1>8, <1>9, Upwards
  <2> QED
    BY <1>1, <2>1
<1> QED
  BY <1>5, <1>10

(* A vector is read as what was written, number by number.                 *)
VecGood(f, v, e) ==
    \A s : Starts(s, e) => /\ VfVecRead(f, s, Len(v)).ok
                           /\ VfVecRead(f, s, Len(v)).value = [i \in DOMAIN v |-> QuietIn(f, v[i])]

(* Every vector of numbers is spelt so that it is read as that.            *)
LEMMA VfVecGood ==
    ASSUME NEW f \in {F32, F64}, NEW v, Vector(f, v)
    PROVE  \E e : Spells(VfVecWrite(f, v), e) /\ VecGood(f, v, e)
<1>1. PICK n : n = Len(v)
  OBVIOUS
<1>2. IsSeq(v) /\ n \in Nat /\ DOMAIN v = 1..n
  BY <1>1, SeqDomain DEF Vector
<1>3. ASSUME NEW i \in 1..n PROVE \E e : Spells(VfWrite(f, v[i]), e) /\ VfGood(f, v[i], e)
  <2>1. v[i] \subseteq 0..(f.width - 1)
    BY <1>1 DEF Vector
  <2> QED
    BY <2>1, VfRestored
<1>4. PICK p : p = [i \in 1..n |-> CHOOSE e : Spells(VfWrite(f, v[i]), e) /\ VfGood(f, v[i], e)]
  OBVIOUS
<1>5. \A i \in 1..n : Spells(VfWrite(f, v[i]), p[i]) /\ VfGood(f, v[i], p[i])
  BY <1>3, <1>4
<1>6. PICK q : q = [i \in DOMAIN v |-> VfWrite(f, v[i]).chunks]
  OBVIOUS
<1>7. IsSeq(p) /\ Len(p) = n
  <2>1. p = [i \in 1..n |-> p[i]]
    BY <1>4
  <2> QED
    BY <1>2, <2>1, SeqMade
<1>8. IsSeq(q) /\ Len(q) = n /\ \A i \in 1..n : q[i] = VfWrite(f, v[i]).chunks
  <2>1. q = [i \in 1..n |-> q[i]]
    BY <1>2, <1>6
  <2>2. IsSeq(q) /\ Len(q) = n
    BY <1>2, <2>1, SeqMade
  <2> QED
    BY <1>2, <1>6, <2>2
<1>9. \A i \in 1..n : Items(q[i]) /\ IsSeq(p[i]) /\ p[i] = FlattenSeq(q[i])
  BY <1>5, <1>8 DEF Spells, IsWrite, Items
<1>10. Items(q) /\ Items(p)
  BY <1>7, <1>8, <1>9 DEF Items
<1>11. PICK w, d, e : w = VfVecWrite(f, v) /\ d = FlattenSeq(q) /\ e = FlattenSeq(p)
  OBVIOUS
<1>12. Items(d) /\ FlattenSeq(d) = e
  BY <1>7, <1>8, <1>9, <1>10, <1>11, FlattenTwice
<1>13. IsSeq(e)
  <2>1. IsSeq(p) /\ \A i \in DOMAIN p : IsSeq(p[i])
    BY <1>7, <1>9, SeqDomain
  <2> QED
    BY <1>11, <2>1, FlattenIsSeq
<1>14. w.ok = TRUE /\ w.chunks = d
  <2>1. \A i \in DOMAIN v : VfWrite(f, v[i]).ok
    BY <1>2, <1>5 DEF Spells
  <2> QED
    BY <1>6, <1>11, <2>1 DEF VfVecWrite
<1>15. Spells(w, e)
  BY <1>12, <1>13, <1>14 DEF Spells, IsWrite, Items
<1>16. ASSUME NEW s, Starts(s, e)
       PROVE  VfVecRead(f, s, n).ok
              /\ VfVecRead(f, s, n).value = [i \in DOMAIN v |-> QuietIn(f, v[i])]
  <2>1. \A i \in 1..n : IsSeq(p[i]) /\ VfGood(f, v[i], p[i])
    BY <1>5, <1>9
  <2>2. VfVecRead(f, s, n).ok /\ QuietFirst(f, v, n, VfVecRead(f, s, n).value)
    BY <1>1, <1>2, <1>7, <1>11, <1>16, <2>1, VfVecRestored
  <2>3. PICK u, t : u = VfVecRead(f, s, n).value /\ t = [i \in DOMAIN v |-> QuietIn(f, v[i])]
    OBVIOUS
  <2>4. u = [i \in 1..n |-> u[i]]
    BY <2>2, <2>3, SeqDomain DEF QuietFirst
  <2>5. \A i \in 1..n : u[i] = QuietIn(f, v[i])
    BY <2>2, <2>3 DEF QuietFirst
  <2>6. t = [i \in 1..n |-> u[i]]
    BY <1>2, <2>3, <2>5
  <2> QED
    BY <2>2, <2>3, <2>4, <2>6
<1> QED
  BY <1>1, <1>11, <1>15, <1>16 DEF VecGood

(* Vectors of vf128 numbers.                                               *)
LEMMA VfVecReads ==
    ASSUME NEW v
    PROVE  /\ Vector(F32, v) => Reads("vf32vec", v, Vf32VecWrite(v))
           /\ Vector(F64, v) => Reads("vf64vec", v, Vf64VecWrite(v))
<1>1. ASSUME Vector(F32, v) PROVE Reads("vf32vec", v, Vf32VecWrite(v))
  <2>1. PICK e : Spells(VfVecWrite(F32, v), e) /\ VecGood(F32, v, e)
    BY <1>1, VfVecGood
  <2>2. \A s : Got("vf32vec", v, s) = VfVecRead(F32, s, Len(v))
    BY DEF Got, Vf32VecRead
  <2>3. Kept("vf32vec", v) = [i \in DOMAIN v |-> QuietIn(F32, v[i])]
    BY DEF Kept
  <2> QED
    BY <2>1, <2>2, <2>3 DEF VecGood, Reads, Decodes, Spells, Vf32VecWrite
<1>2. ASSUME Vector(F64, v) PROVE Reads("vf64vec", v, Vf64VecWrite(v))
  <2>1. PICK e : Spells(VfVecWrite(F64, v), e) /\ VecGood(F64, v, e)
    BY <1>2, VfVecGood
  <2>2. \A s : Got("vf64vec", v, s) = VfVecRead(F64, s, Len(v))
    BY DEF Got, Vf64VecRead
  <2>3. Kept("vf64vec", v) = [i \in DOMAIN v |-> QuietIn(F64, v[i])]
    BY DEF Kept
  <2> QED
    BY <2>1, <2>2, <2>3 DEF VecGood, Reads, Decodes, Spells, Vf64VecWrite
<1> QED
  BY <1>1, <1>2

-----------------------------------------------------------------------------
(* The stream *)

(* What is in the stream of a number: all of it, or a part.                *)
Piece(item, p) ==
    /\ IsSeq(p)
    /\ IF item.whole
       THEN Delimited(item.kind, item.value, p) /\ Decodes(item.kind, item.value, p)
       ELSE Refused(item.kind, item.value, p)

(* The stream is the numbers' pieces, of which only the last may be torn.  *)
Pieces(p) ==
    /\ IsSeq(sent) /\ Items(p) /\ Len(p) = Len(sent)
    /\ stream = FlattenSeq(p)
    /\ \A i \in 1..Len(sent) : Piece(sent[i], p[i])
    /\ \A i \in 1..(Len(sent) - 1) : sent[i].whole

StreamInv ==
    /\ room \in Nat
    /\ written \in Nat
    /\ TornRefused
    /\ RoundTrip
    /\ last.ok => \E p : Pieces(p)

(* The buffer has room for what it takes, which is the number or a part.   *)
LEMMA PutPiece ==
    ASSUME NEW kind, NEW v, NEW w, Leaves(kind, v, w), Reads(kind, v, w), room \in Nat,
           NEW n, n = Accepted(w.chunks), NEW p, p = FlattenSeq(SubSeq(w.chunks, 1, n)),
           NEW item, item = [kind |-> kind, value |-> v, whole |-> w.ok /\ n = Len(w.chunks)]
    PROVE  Piece(item, p) /\ room - Len(p) \in Nat
<1>1. PICK e : e = FlattenSeq(w.chunks)
  OBVIOUS
<1>2. /\ Begins(p, e) /\ Len(p) <= room
      /\ IF n = Len(w.chunks) THEN p = e ELSE Len(p) < Len(e)
  BY <1>1, Accepting DEF Leaves
<1>3. /\ w.ok \in BOOLEAN
      /\ IF w.ok THEN Delimited(kind, v, e) ELSE Refused(kind, v, e)
  BY <1>1 DEF Leaves
<1>4. IsSeq(p) /\ Len(p) \in Nat
  BY <1>2, SeqDomain DEF Begins
<1>5. item.kind = kind /\ item.value = v /\ item.whole = (w.ok /\ n = Len(w.chunks))
  OBVIOUS
<1>6. Piece(item, p)
  <2>1. CASE w.ok /\ n = Len(w.chunks)
    <3>1. Decodes(kind, v, p)
      BY <1>1, <1>2, <2>1 DEF Reads
    <3> QED
      BY <1>2, <1>3, <1>4, <1>5, <2>1, <3>1 DEF Piece
  <2>2. CASE ~(w.ok /\ n = Len(w.chunks))
    <3>1. Refused(kind, v, e) \/ (Delimited(kind, v, e) /\ Len(p) < Len(e))
      BY <1>2, <1>3, <2>2
    <3>2. Refused(kind, v, p)
      BY <1>2, <3>1, TornIsRefused
    <3> QED
      BY <1>4, <1>5, <2>2, <3>2 DEF Piece
  <2> QED
    BY <2>1, <2>2
<1> QED
  BY <1>2, <1>4, <1>6

(* A writer adds a piece.                                                  *)
LEMMA PutKeeps ==
    ASSUME StreamInv, NEW kind, NEW v, NEW w, Leaves(kind, v, w), Reads(kind, v, w),
           \A i \in DOMAIN sent : sent[i].whole, Put(kind, v, w)
    PROVE  StreamInv'
<1>1. PICK n, e : n = Accepted(w.chunks) /\ e = FlattenSeq(SubSeq(w.chunks, 1, n))
  OBVIOUS
<1>2. PICK item : item = [kind |-> kind, value |-> v, whole |-> w.ok /\ n = Len(w.chunks)]
  OBVIOUS
<1>3. /\ stream' = stream \o e /\ room' = room - Len(e)
      /\ sent' = Append(sent, item) /\ written' = written + 1 /\ last' = last
  BY <1>1, <1>2 DEF Put
<1>4. Piece(item, e) /\ room - Len(e) \in Nat
  BY <1>1, <1>2, PutPiece DEF StreamInv
<1>5. room' \in Nat /\ written' \in Nat /\ TornRefused' /\ RoundTrip'
  BY <1>3, <1>4 DEF StreamInv, TornRefused, RoundTrip
<1>6. ASSUME last.ok PROVE \E p : Pieces(p)'
  <2>1. PICK p : Pieces(p)
    BY <1>6 DEF StreamInv
  <2>2. PICK q, m, t : q = Append(p, e) /\ m = Len(p) /\ t = sent'
    OBVIOUS
  <2>3. IsSeq(p) /\ IsSeq(sent) /\ m \in Nat /\ Len(sent) = m /\ IsSeq(e)
    BY <1>4, <2>1, <2>2, SeqDomain DEF Pieces, Items, Piece
  <2>4. IsSeq(q) /\ Len(q) = m + 1 /\ q[m + 1] = e /\ \A i \in 1..m : q[i] = p[i]
    BY <2>2, <2>3, SeqAppended
  <2>5. IsSeq(t) /\ Len(t) = m + 1 /\ t[m + 1] = item /\ \A i \in 1..m : t[i] = sent[i]
    BY <1>3, <2>2, <2>3, SeqAppended
  <2>6. \A i \in 1..m : IsSeq(p[i]) /\ Piece(sent[i], p[i]) /\ sent[i].whole
    <3>1. \A i \in 1..m : i \in DOMAIN sent
      BY <2>3, SeqDomain
    <3> QED
      BY <2>1, <2>2, <2>3, <3>1 DEF Pieces, Items
  <2>7. \A i \in 1..(m + 1) : IsSeq(q[i]) /\ Piece(t[i], q[i])
    <3> SUFFICES ASSUME NEW i \in 1..(m + 1) PROVE IsSeq(q[i]) /\ Piece(t[i], q[i])
      OBVIOUS
    <3>1. CASE i \in 1..m
      BY <2>4, <2>5, <2>6, <3>1
    <3>2. CASE i = m + 1
      BY <1>4, <2>3, <2>4, <2>5, <3>2
    <3> QED
      BY <2>3, <3>1, <3>2
  <2>8. \A i \in 1..(m + 1 - 1) : t[i].whole
    <3>1. 1..(m + 1 - 1) = 1..m
      BY <2>3
    <3> QED
      BY <2>5, <2>6, <3>1
  <2>9. stream' = FlattenSeq(q)
    <3>1. IsSeq(<<e>>) /\ Len(<<e>>) = 1 /\ <<e>>[1] = e
      BY OneSeq
    <3>2. \A i \in 1..Len(<<e>>) : IsSeq(<<e>>[i])
      BY <2>3, <3>1
    <3>3. \A i \in 1..Len(p) : IsSeq(p[i])
      BY <2>2, <2>6
    <3>4. FlattenSeq(p \o <<e>>) = FlattenSeq(p) \o FlattenSeq(<<e>>)
      BY <2>3, <3>1, <3>2, <3>3, FlattenBoth
    <3>5. FlattenSeq(<<e>>) = e
      BY <2>3, FlattenOne
    <3>6. q = p \o <<e>>
      <4>1. JoinOf(p \o <<e>>, p, <<e>>)
        BY <2>3, <3>1, JoinIs
      <4>2. IsSeq(p \o <<e>>) /\ Len(p \o <<e>>) = m + 1
        BY <2>2, <3>1, <4>1 DEF JoinOf
      <4>3. \A i \in 1..m : (p \o <<e>>)[i] = q[i]
        BY <2>2, <2>4, <4>1 DEF JoinOf
      <4>4. (p \o <<e>>)[m + 1] = q[m + 1]
        BY <2>2, <2>4, <3>1, <4>1 DEF JoinOf
      <4>5. \A i \in 1..(m + 1) : i \in 1..m \/ i = m + 1
        BY <2>3
      <4>6. \A i \in 1..(m + 1) : (p \o <<e>>)[i] = q[i]
        BY <4>3, <4>4, <4>5
      <4> QED
        BY <2>4, <4>2, <4>6, SeqSame
    <3> QED
      BY <1>3, <2>1, <3>4, <3>5, <3>6 DEF Pieces
  <2>10. Pieces(q)'
    <3>1. Items(q)
      BY <2>4, <2>7 DEF Items
    <3> QED
      BY <2>2, <2>4, <2>5, <2>7, <2>8, <2>9, <3>1 DEF Pieces
  <2> QED
    BY <2>10
<1> QED
  BY <1>3, <1>5, <1>6 DEF StreamInv

(* A reader takes the first piece, fails if it is torn, and finds in it    *)
(* the number if it is whole.                                              *)
LEMMA GetKeeps ==
    ASSUME StreamInv, NEW kind, Expecting(kind),
           NEW r, r = Got(kind, Head(sent).value, stream), Get(r)
    PROVE  StreamInv'
<1>1. /\ stream' = r.rest /\ sent' = Tail(sent) /\ last'.ok = r.ok
      /\ last'.whole = Head(sent).whole /\ room' = room /\ written' = written
  BY DEF Get
<1>2. sent # <<>> /\ last.ok /\ Head(sent).kind = kind
  BY DEF Expecting
<1>3. PICK p : Pieces(p)
  BY <1>2 DEF StreamInv
<1>4. PICK q, m, t, e, item : /\ q = Tail(p) /\ m = Len(sent) /\ t = Tail(sent)
                              /\ e = p[1] /\ item = Head(sent)
  OBVIOUS
<1>5. IsSeq(sent) /\ IsSeq(p) /\ m \in Nat /\ Len(p) = m /\ m > 0
  BY <1>2, <1>3, <1>4, SeqDomain, SeqRest DEF Pieces, Items
<1>6. p # <<>>
  BY <1>5, EmptyIsSeq
<1>7. IsSeq(t) /\ Len(t) = m - 1 /\ item = sent[1] /\ \A i \in 1..(m - 1) : t[i] = sent[i + 1]
  BY <1>2, <1>4, <1>5, SeqRest
<1>8. IsSeq(q) /\ Len(q) = m - 1 /\ \A i \in 1..(m - 1) : q[i] = p[i + 1]
  BY <1>4, <1>5, <1>6, SeqRest
<1>9. \A i \in 1..m : IsSeq(p[i]) /\ Piece(sent[i], p[i])
  BY <1>3, <1>4, <1>5 DEF Pieces, Items
<1>10. IsSeq(e) /\ Piece(item, e)
  <2>1. 1 \in 1..m
    BY <1>5
  <2> QED
    BY <1>4, <1>7, <1>9, <2>1
<1>11. \A i \in 1..(m - 1) : IsSeq(q[i]) /\ Piece(t[i], q[i])
  <2>1. \A i \in 1..(m - 1) : i + 1 \in 1..m
    BY <1>5
  <2> QED
    BY <1>7, <1>8, <1>9, <2>1
<1>12. Items(q)
  BY <1>8, <1>11 DEF Items
<1>13. PICK d : d = FlattenSeq(q)
  OBVIOUS
<1>14. IsSeq(d)
  <2>1. \A i \in DOMAIN q : IsSeq(q[i])
    BY <1>8, <1>11, SeqDomain
  <2> QED
    BY <1>8, <1>13, <2>1, FlattenIsSeq
<1>15. stream = e \o d
  <2>1. IsSeq(<<e>>) /\ Len(<<e>>) = 1 /\ <<e>>[1] = e
    BY OneSeq
  <2>2. \A i \in 1..Len(<<e>>) : IsSeq(<<e>>[i])
    BY <1>10, <2>1
  <2>3. \A i \in 1..Len(q) : IsSeq(q[i])
    BY <1>12 DEF Items
  <2>4. FlattenSeq(<<e>> \o q) = FlattenSeq(<<e>>) \o FlattenSeq(q)
    BY <1>8, <2>1, <2>2, <2>3, FlattenBoth
  <2>5. FlattenSeq(<<e>>) = e
    BY <1>10, FlattenOne
  <2>6. p = <<e>> \o q
    <3>1. JoinOf(<<e>> \o q, <<e>>, q)
      BY <1>8, <2>1, JoinIs
    <3>2. IsSeq(<<e>> \o q) /\ Len(<<e>> \o q) = m
      BY <1>5, <1>8, <2>1, <3>1 DEF JoinOf
    <3>3. (<<e>> \o q)[1] = p[1]
      BY <1>4, <2>1, <3>1 DEF JoinOf
    <3>4. \A i \in 1..(m - 1) : (<<e>> \o q)[1 + i] = p[i + 1]
      BY <1>8, <2>1, <3>1 DEF JoinOf
    <3>5. ASSUME NEW i \in 1..m PROVE (<<e>> \o q)[i] = p[i]
      <4>1. CASE i = 1
        BY <3>3, <4>1
      <4>2. CASE i # 1
        <5>1. PICK j : j = i - 1
          OBVIOUS
        <5>2. j \in 1..(m - 1) /\ 1 + j = i /\ j + 1 = i
          BY <1>5, <4>2, <5>1
        <5> QED
          BY <3>4, <5>2
      <4> QED
        BY <4>1, <4>2
    <3> QED
      BY <1>5, <3>2, <3>5, SeqSame
  <2> QED
    BY <1>3, <1>13, <2>4, <2>5, <2>6 DEF Pieces
<1>16. IsSeq(stream) /\ Agrees(stream, e) /\ Len(stream) = Len(e) + Len(d)
  <2>1. JoinOf(stream, e, d)
    BY <1>10, <1>14, <1>15, JoinIs
  <2> QED
    BY <2>1 DEF JoinOf, Agrees
<1>17. r = Got(item.kind, item.value, stream)
  BY <1>2, <1>4
<1>18. ~item.whole => ~r.ok
  <2> SUFFICES ASSUME ~item.whole PROVE ~r.ok
    OBVIOUS
  <2>1. 1 \notin 1..(m - 1)
    BY <1>3, <1>4, <1>7 DEF Pieces
  <2>2. Len(q) = 0
    BY <1>5, <1>8, <2>1
  <2>3. q = <<>>
    BY <1>8, <2>2, EmptyIsSeq
  <2>4. d = <<>> /\ Len(d) = 0
    BY <1>13, <2>3, RejectedIs, EmptyIsSeq DEF Rejected
  <2>5. Len(stream) <= Len(e)
    BY <1>10, <1>16, <2>4, SeqDomain
  <2>6. Refused(item.kind, item.value, e)
    BY <1>10 DEF Piece
  <2> QED
    BY <1>16, <1>17, <2>5, <2>6 DEF Refused
<1>19. ASSUME r.ok PROVE Pieces(q)'
  <2>1. Delimited(item.kind, item.value, e)
    BY <1>10, <1>18, <1>19 DEF Piece
  <2>2. Takes(stream, r, Len(e))
    BY <1>16, <1>17, <2>1 DEF Delimited
  <2>3. r.rest = Drop(stream, Len(e)) /\ Len(e) \in 0..Len(stream)
    BY <1>19, <2>2 DEF Takes
  <2>4. r.rest = d
    <3>1. PICK k : k = Len(e)
      OBVIOUS
    <3>2. k \in Nat /\ Len(d) \in Nat /\ Len(stream) - k = Len(d) /\ k \in 0..Len(stream)
      BY <1>10, <1>14, <1>16, <2>3, <3>1, SeqDomain
    <3>3. /\ IsSeq(Drop(stream, k)) /\ Len(Drop(stream, k)) = Len(d)
          /\ \A i \in 1..Len(d) : Drop(stream, k)[i] = stream[k + i]
      BY <1>16, <3>2, DropIs
    <3>4. \A i \in 1..Len(d) : stream[k + i] = d[i]
      <4>1. JoinOf(stream, e, d)
        BY <1>10, <1>14, <1>15, JoinIs
      <4> QED
        BY <3>1, <4>1 DEF JoinOf
    <3>5. Drop(stream, k) = d
      BY <1>14, <3>3, <3>4, SeqSame
    <3> QED
      BY <2>3, <3>1, <3>5
  <2>5. \A i \in 1..(m - 1 - 1) : t[i].whole
    <3>1. \A i \in 1..(m - 1 - 1) : i + 1 \in 1..(m - 1) /\ i \in 1..(m - 1)
      BY <1>5
    <3>2. \A i \in 1..(m - 1) : sent[i].whole
      BY <1>3, <1>4 DEF Pieces
    <3> QED
      BY <1>7, <3>1, <3>2
  <2>6. stream' = FlattenSeq(q) /\ sent' = t
    BY <1>1, <1>4, <1>13, <2>4
  <2> QED
    BY <1>7, <1>8, <1>11, <1>12, <2>5, <2>6 DEF Pieces
<1>20. room' \in Nat /\ written' \in Nat
  BY <1>1 DEF StreamInv
<1>21. TornRefused'
  BY <1>1, <1>4, <1>18 DEF TornRefused
<1>22. RoundTrip'
  <2>1. PICK k, v : k = item.kind /\ v = item.value
    OBVIOUS
  <2>2. last' = [kind |-> k, value |-> v, whole |-> item.whole, ok |-> r.ok, got |-> r.value]
    BY <1>4, <2>1 DEF Get
  <2>3. /\ last'.kind = k /\ last'.value = v /\ last'.whole = item.whole
        /\ last'.ok = r.ok /\ last'.got = r.value
    BY ONLY <2>2
  <2>4. ASSUME item.whole PROVE r.ok /\ (Exact(k, v) => r.value = Kept(k, v))
    <3>1. Decodes(k, v, e)
      BY <1>10, <2>1, <2>4 DEF Piece
    <3>2. Starts(stream, e)
      <4>1. Len(e) \in Nat /\ Len(d) \in Nat
        BY <1>10, <1>14, SeqDomain
      <4>2. Len(e) <= Len(stream)
        BY <1>16, <4>1
      <4>3. JoinOf(stream, e, d)
        BY <1>10, <1>14, <1>15, JoinIs
      <4>4. \A i \in 1..Len(e) : stream[i] = e[i]
        BY <4>3 DEF JoinOf
      <4> QED
        BY <1>10, <1>16, <4>2, <4>4 DEF Starts
    <3>3. r = Got(k, v, stream)
      BY <1>17, <2>1
    <3> QED
      BY <3>1, <3>2, <3>3 DEF Decodes
  <2> QED
    BY <2>3, <2>4 DEF RoundTrip
<1>23. last'.ok => \E x : Pieces(x)'
  BY <1>1, <1>19
<1> QED
  BY <1>20, <1>21, <1>22, <1>23 DEF StreamInv

(* What is offered may be written, and nothing is after an error.          *)
LEMMA OfferedIs ==
    ASSUME StreamInv, NEW kind \in Kinds, NEW v \in Offered(kind)
    PROVE  v \in Domain(kind) /\ \A i \in DOMAIN sent : sent[i].whole
<1>1. PICK n : n = written + 1
  OBVIOUS
<1>2. /\ written < Len(Samples) /\ \A i \in DOMAIN sent : sent[i].whole
      /\ v \in Samples[n][kind]
  BY <1>1 DEF Offered
<1>3. IsSeq(Samples)
  BY SamplesAssumption DEF SamplesAssumption, IsSeq
<1>4. n \in DOMAIN Samples
  <2>1. Len(Samples) \in Nat /\ DOMAIN Samples = 1..Len(Samples)
    BY <1>3, SeqDomain
  <2> QED
    BY <1>1, <1>2, <2>1 DEF StreamInv
<1>5. Samples[n][kind] \subseteq Domain(kind)
  BY <1>4, SamplesAssumption DEF SamplesAssumption
<1> QED
  BY <1>2, <1>5

(* A vector is a sequence of words, and the other numbers are words.       *)
LEMMA DomainIs ==
    /\ \A kind \in {"leb", "vlu", "length", "derU64", "derS64", "derReal"} :
          kind \in Kinds /\ Domain(kind) = Word
    /\ "ident" \in Kinds /\ Domain("ident") = Ident
    /\ \A kind \in {"ieee32", "vf32"} : kind \in Kinds /\ Domain(kind) = Word32
    /\ \A kind \in {"ieee64", "vf64"} : kind \in Kinds /\ Domain(kind) = Word
    /\ \A kind \in {"ieee32vec", "vf32vec"} :
          kind \in Kinds /\ \A v \in Domain(kind) : IsSeq(v) /\ Vector(F32, v)
    /\ \A kind \in {"ieee64vec", "vf64vec"} :
          kind \in Kinds /\ \A v \in Domain(kind) : IsSeq(v) /\ Vector(F64, v)
<1>1. ASSUME NEW v \in Seq(Word32) PROVE IsSeq(v) /\ Vector(F32, v)
  <2>1. IsSeq(v) /\ \A i \in 1..Len(v) : v[i] \in Word32
    BY SeqOfAny
  <2>2. F32.width - 1 = 31
    BY Fields
  <2> QED
    BY <2>1, <2>2 DEF Vector, Word32
<1>2. ASSUME NEW v \in Seq(Word) PROVE IsSeq(v) /\ Vector(F64, v)
  <2>1. IsSeq(v) /\ \A i \in 1..Len(v) : v[i] \in Word
    BY SeqOfAny
  <2>2. F64.width - 1 = 63
    BY Fields
  <2> QED
    BY <2>1, <2>2 DEF Vector, Word
<1>3. /\ Domain("ieee32vec") = Seq(Word32) /\ Domain("vf32vec") = Seq(Word32)
      /\ Domain("ieee64vec") = Seq(Word) /\ Domain("vf64vec") = Seq(Word)
  BY DEF Domain
<1>4. /\ \A kind \in {"ieee32vec", "vf32vec"} :
            \A v \in Domain(kind) : IsSeq(v) /\ Vector(F32, v)
      /\ \A kind \in {"ieee64vec", "vf64vec"} :
            \A v \in Domain(kind) : IsSeq(v) /\ Vector(F64, v)
  BY <1>1, <1>2, <1>3
<1>5. /\ \A kind \in {"leb", "vlu", "length", "derU64", "derS64", "derReal"} : Domain(kind) = Word
      /\ Domain("ident") = Ident
      /\ Domain("ieee32") = Word32 /\ Domain("vf32") = Word32
      /\ Domain("ieee64") = Word /\ Domain("vf64") = Word
  BY DEF Domain
<1> QED
  BY <1>4, <1>5 DEF Kinds

(* Every write keeps the invariant.                                        *)
LEMMA WritingKeeps == ASSUME StreamInv, Writing PROVE StreamInv'
<1>1. CASE PutLeb
  <2>1. PICK v \in Offered("leb") : Put("leb", v, LebWrite(v))
    BY <1>1 DEF PutLeb, LebWriteByval
  <2>2. v \in Domain("leb") /\ \A i \in DOMAIN sent : sent[i].whole
    BY DomainIs, OfferedIs
  <2>3. Leaves("leb", v, LebWrite(v))
    BY <2>2, DomainIs, LebLeaves
  <2>4. Reads("leb", v, LebWrite(v))
    BY <2>2, DomainIs, LebReads
  <2> QED
    BY <2>1, <2>2, <2>3, <2>4, PutKeeps
<1>2. CASE PutVlu
  <2>1. PICK v \in Offered("vlu") : Put("vlu", v, VluWrite(v))
    BY <1>2 DEF PutVlu, VluWriteByval
  <2>2. v \in Domain("vlu") /\ \A i \in DOMAIN sent : sent[i].whole
    BY DomainIs, OfferedIs
  <2>3. Leaves("vlu", v, VluWrite(v))
    BY <2>2, DomainIs, VluLeaves
  <2>4. Reads("vlu", v, VluWrite(v))
    BY <2>2, DomainIs, VluReads
  <2> QED
    BY <2>1, <2>2, <2>3, <2>4, PutKeeps
<1>3. CASE PutIdent
  <2>1. PICK v \in Offered("ident") : Put("ident", v, IdentWrite(v))
    BY <1>3 DEF PutIdent
  <2>2. v \in Domain("ident") /\ \A i \in DOMAIN sent : sent[i].whole
    BY DomainIs, OfferedIs
  <2>3. Leaves("ident", v, IdentWrite(v))
    BY <2>2, DomainIs, IdentLeaves
  <2>4. Reads("ident", v, IdentWrite(v))
    BY <2>2, DomainIs, IdentReads
  <2> QED
    BY <2>1, <2>2, <2>3, <2>4, PutKeeps
<1>4. CASE PutLength
  <2>1. PICK v \in Offered("length") : Put("length", v, LengthWrite(v))
    BY <1>4 DEF PutLength
  <2>2. v \in Domain("length") /\ \A i \in DOMAIN sent : sent[i].whole
    BY DomainIs, OfferedIs
  <2>3. Leaves("length", v, LengthWrite(v))
    BY <2>2, DomainIs, LengthLeaves
  <2>4. Reads("length", v, LengthWrite(v))
    BY <2>2, DomainIs, LengthReads
  <2> QED
    BY <2>1, <2>2, <2>3, <2>4, PutKeeps
<1>5. CASE PutDerU64
  <2>1. PICK v \in Offered("derU64"), t \in Tags : Put("derU64", v, DerU64Write(t, v))
    BY <1>5 DEF PutDerU64, DerU64WriteByval
  <2>2. v \in Domain("derU64") /\ \A i \in DOMAIN sent : sent[i].whole
    BY DomainIs, OfferedIs
  <2>3. Leaves("derU64", v, DerU64Write(t, v))
    BY <2>2, DomainIs, DerLeaves
  <2>4. Reads("derU64", v, DerU64Write(t, v))
    BY <2>2, DomainIs, DerReads
  <2> QED
    BY <2>1, <2>2, <2>3, <2>4, PutKeeps
<1>6. CASE PutDerS64
  <2>1. PICK v \in Offered("derS64"), t \in Tags : Put("derS64", v, DerS64Write(t, v))
    BY <1>6 DEF PutDerS64, DerS64WriteByval
  <2>2. v \in Domain("derS64") /\ \A i \in DOMAIN sent : sent[i].whole
    BY DomainIs, OfferedIs
  <2>3. Leaves("derS64", v, DerS64Write(t, v))
    BY <2>2, DomainIs, DerLeaves
  <2>4. Reads("derS64", v, DerS64Write(t, v))
    BY <2>2, DomainIs, DerReads
  <2> QED
    BY <2>1, <2>2, <2>3, <2>4, PutKeeps
<1>7. CASE PutDerReal
  <2>1. PICK v \in Offered("derReal"), t \in Tags : Put("derReal", v, DerRealWrite(t, v))
    BY <1>7 DEF PutDerReal, DerRealWriteByval
  <2>2. v \in Domain("derReal") /\ \A i \in DOMAIN sent : sent[i].whole
    BY DomainIs, OfferedIs
  <2>3. Leaves("derReal", v, DerRealWrite(t, v))
    BY <2>2, DomainIs, DerRealLeaves
  <2>4. Reads("derReal", v, DerRealWrite(t, v))
    BY <2>2, DomainIs, DerRealReads
  <2> QED
    BY <2>1, <2>2, <2>3, <2>4, PutKeeps
<1>8. CASE PutIeee32
  <2>1. PICK v \in Offered("ieee32") : Put("ieee32", v, Ieee32Write(v))
    BY <1>8 DEF PutIeee32, Ieee32Write, Ieee32WriteByval
  <2>2. v \in Domain("ieee32") /\ \A i \in DOMAIN sent : sent[i].whole
    BY DomainIs, OfferedIs
  <2>3. Leaves("ieee32", v, Ieee32Write(v))
    BY <2>2, DomainIs, IeeeLeaves
  <2>4. Reads("ieee32", v, Ieee32Write(v))
    BY <2>2, DomainIs, IeeeReads
  <2> QED
    BY <2>1, <2>2, <2>3, <2>4, PutKeeps
<1>9. CASE PutIeee64
  <2>1. PICK v \in Offered("ieee64") : Put("ieee64", v, Ieee64Write(v))
    BY <1>9 DEF PutIeee64, Ieee64Write, Ieee64WriteByval
  <2>2. v \in Domain("ieee64") /\ \A i \in DOMAIN sent : sent[i].whole
    BY DomainIs, OfferedIs
  <2>3. Leaves("ieee64", v, Ieee64Write(v))
    BY <2>2, DomainIs, IeeeLeaves
  <2>4. Reads("ieee64", v, Ieee64Write(v))
    BY <2>2, DomainIs, IeeeReads
  <2> QED
    BY <2>1, <2>2, <2>3, <2>4, PutKeeps
<1>10. CASE PutVf32
  <2>1. PICK v \in Offered("vf32") : Put("vf32", v, Vf32Write(v))
    BY <1>10 DEF PutVf32, Vf32Write, Vf32WriteByval
  <2>2. v \in Domain("vf32") /\ \A i \in DOMAIN sent : sent[i].whole
    BY DomainIs, OfferedIs
  <2>3. Leaves("vf32", v, Vf32Write(v))
    BY <2>2, DomainIs, VfLeaves
  <2>4. Reads("vf32", v, Vf32Write(v))
    BY <2>2, DomainIs, VfReads
  <2> QED
    BY <2>1, <2>2, <2>3, <2>4, PutKeeps
<1>11. CASE PutVf64
  <2>1. PICK v \in Offered("vf64") : Put("vf64", v, Vf64Write(v))
    BY <1>11 DEF PutVf64, Vf64Write, Vf64WriteByval
  <2>2. v \in Domain("vf64") /\ \A i \in DOMAIN sent : sent[i].whole
    BY DomainIs, OfferedIs
  <2>3. Leaves("vf64", v, Vf64Write(v))
    BY <2>2, DomainIs, VfLeaves
  <2>4. Reads("vf64", v, Vf64Write(v))
    BY <2>2, DomainIs, VfReads
  <2> QED
    BY <2>1, <2>2, <2>3, <2>4, PutKeeps
<1>12. CASE PutIeee32Vec
  <2>1. PICK v \in Offered("ieee32vec") : Put("ieee32vec", v, Ieee32VecWrite(v))
    BY <1>12 DEF PutIeee32Vec
  <2>2. v \in Domain("ieee32vec") /\ \A i \in DOMAIN sent : sent[i].whole
    BY DomainIs, OfferedIs
  <2>3. Leaves("ieee32vec", v, Ieee32VecWrite(v))
    BY <2>2, DomainIs, IeeeVecLeaves
  <2>4. Reads("ieee32vec", v, Ieee32VecWrite(v))
    BY <2>2, DomainIs, IeeeVecReads
  <2> QED
    BY <2>1, <2>2, <2>3, <2>4, PutKeeps
<1>13. CASE PutIeee64Vec
  <2>1. PICK v \in Offered("ieee64vec") : Put("ieee64vec", v, Ieee64VecWrite(v))
    BY <1>13 DEF PutIeee64Vec
  <2>2. v \in Domain("ieee64vec") /\ \A i \in DOMAIN sent : sent[i].whole
    BY DomainIs, OfferedIs
  <2>3. Leaves("ieee64vec", v, Ieee64VecWrite(v))
    BY <2>2, DomainIs, IeeeVecLeaves
  <2>4. Reads("ieee64vec", v, Ieee64VecWrite(v))
    BY <2>2, DomainIs, IeeeVecReads
  <2> QED
    BY <2>1, <2>2, <2>3, <2>4, PutKeeps
<1>14. CASE PutVf32Vec
  <2>1. PICK v \in Offered("vf32vec") : Put("vf32vec", v, Vf32VecWrite(v))
    BY <1>14 DEF PutVf32Vec
  <2>2. v \in Domain("vf32vec") /\ \A i \in DOMAIN sent : sent[i].whole
    BY DomainIs, OfferedIs
  <2>3. Leaves("vf32vec", v, Vf32VecWrite(v))
    BY <2>2, DomainIs, VfVecLeaves
  <2>4. Reads("vf32vec", v, Vf32VecWrite(v))
    BY <2>2, DomainIs, VfVecReads
  <2> QED
    BY <2>1, <2>2, <2>3, <2>4, PutKeeps
<1>15. CASE PutVf64Vec
  <2>1. PICK v \in Offered("vf64vec") : Put("vf64vec", v, Vf64VecWrite(v))
    BY <1>15 DEF PutVf64Vec
  <2>2. v \in Domain("vf64vec") /\ \A i \in DOMAIN sent : sent[i].whole
    BY DomainIs, OfferedIs
  <2>3. Leaves("vf64vec", v, Vf64VecWrite(v))
    BY <2>2, DomainIs, VfVecLeaves
  <2>4. Reads("vf64vec", v, Vf64VecWrite(v))
    BY <2>2, DomainIs, VfVecReads
  <2> QED
    BY <2>1, <2>2, <2>3, <2>4, PutKeeps
<1> QED
  BY <1>1, <1>2, <1>3, <1>4, <1>5, <1>6, <1>7, <1>8, <1>9, <1>10, <1>11, <1>12, <1>13, <1>14, <1>15 DEF Writing

(* Every read keeps the invariant.                                         *)
LEMMA ReadingKeeps == ASSUME StreamInv, Reading PROVE StreamInv'
<1>1. CASE GetLeb
  <2>1. Expecting("leb") /\ Get(LebRead(stream))
    BY <1>1 DEF GetLeb, LebReadByval
  <2>2. LebRead(stream) = Got("leb", Head(sent).value, stream)
    BY DEF Got
  <2> QED
    BY <2>1, <2>2, GetKeeps
<1>2. CASE GetVlu
  <2>1. Expecting("vlu") /\ Get(VluRead(stream))
    BY <1>2 DEF GetVlu, VluReadByval
  <2>2. VluRead(stream) = Got("vlu", Head(sent).value, stream)
    BY DEF Got
  <2> QED
    BY <2>1, <2>2, GetKeeps
<1>3. CASE GetIdent
  <2>1. Expecting("ident") /\ Get(IdentRead(stream))
    BY <1>3 DEF GetIdent
  <2>2. IdentRead(stream) = Got("ident", Head(sent).value, stream)
    BY DEF Got
  <2> QED
    BY <2>1, <2>2, GetKeeps
<1>4. CASE GetLength
  <2>1. Expecting("length") /\ Get(LengthRead(stream))
    BY <1>4 DEF GetLength
  <2>2. LengthRead(stream) = Got("length", Head(sent).value, stream)
    BY DEF Got
  <2> QED
    BY <2>1, <2>2, GetKeeps
<1>5. CASE GetDerU64
  <2>1. Expecting("derU64") /\ Get(DerU64Read(stream))
    BY <1>5 DEF GetDerU64, DerU64ReadByval
  <2>2. DerU64Read(stream) = Got("derU64", Head(sent).value, stream)
    BY DEF Got
  <2> QED
    BY <2>1, <2>2, GetKeeps
<1>6. CASE GetDerS64
  <2>1. Expecting("derS64") /\ Get(DerS64Read(stream))
    BY <1>6 DEF GetDerS64, DerS64ReadByval
  <2>2. DerS64Read(stream) = Got("derS64", Head(sent).value, stream)
    BY DEF Got
  <2> QED
    BY <2>1, <2>2, GetKeeps
<1>7. CASE GetDerReal
  <2>1. Expecting("derReal") /\ Get(DerRealRead(stream))
    BY <1>7 DEF GetDerReal, DerRealReadByval
  <2>2. DerRealRead(stream) = Got("derReal", Head(sent).value, stream)
    BY DEF Got
  <2> QED
    BY <2>1, <2>2, GetKeeps
<1>8. CASE GetIeee32
  <2>1. Expecting("ieee32") /\ Get(Ieee32Read(stream))
    BY <1>8 DEF GetIeee32, Ieee32Read, Ieee32ReadByval
  <2>2. Ieee32Read(stream) = Got("ieee32", Head(sent).value, stream)
    BY DEF Got
  <2> QED
    BY <2>1, <2>2, GetKeeps
<1>9. CASE GetIeee64
  <2>1. Expecting("ieee64") /\ Get(Ieee64Read(stream))
    BY <1>9 DEF GetIeee64, Ieee64Read, Ieee64ReadByval
  <2>2. Ieee64Read(stream) = Got("ieee64", Head(sent).value, stream)
    BY DEF Got
  <2> QED
    BY <2>1, <2>2, GetKeeps
<1>10. CASE GetVf32
  <2>1. Expecting("vf32") /\ Get(Vf32Read(stream))
    BY <1>10 DEF GetVf32, Vf32Read, Vf32ReadByval
  <2>2. Vf32Read(stream) = Got("vf32", Head(sent).value, stream)
    BY DEF Got
  <2> QED
    BY <2>1, <2>2, GetKeeps
<1>11. CASE GetVf64
  <2>1. Expecting("vf64") /\ Get(Vf64Read(stream))
    BY <1>11 DEF GetVf64, Vf64Read, Vf64ReadByval
  <2>2. Vf64Read(stream) = Got("vf64", Head(sent).value, stream)
    BY DEF Got
  <2> QED
    BY <2>1, <2>2, GetKeeps
<1>12. CASE GetIeee32Vec
  <2>1. Expecting("ieee32vec") /\ Get(Ieee32VecRead(stream, Len(Head(sent).value)))
    BY <1>12 DEF GetIeee32Vec, Count
  <2>2. Ieee32VecRead(stream, Len(Head(sent).value)) = Got("ieee32vec", Head(sent).value, stream)
    BY DEF Got
  <2> QED
    BY <2>1, <2>2, GetKeeps
<1>13. CASE GetIeee64Vec
  <2>1. Expecting("ieee64vec") /\ Get(Ieee64VecRead(stream, Len(Head(sent).value)))
    BY <1>13 DEF GetIeee64Vec, Count
  <2>2. Ieee64VecRead(stream, Len(Head(sent).value)) = Got("ieee64vec", Head(sent).value, stream)
    BY DEF Got
  <2> QED
    BY <2>1, <2>2, GetKeeps
<1>14. CASE GetVf32Vec
  <2>1. Expecting("vf32vec") /\ Get(Vf32VecRead(stream, Len(Head(sent).value)))
    BY <1>14 DEF GetVf32Vec, Count
  <2>2. Vf32VecRead(stream, Len(Head(sent).value)) = Got("vf32vec", Head(sent).value, stream)
    BY DEF Got
  <2> QED
    BY <2>1, <2>2, GetKeeps
<1>15. CASE GetVf64Vec
  <2>1. Expecting("vf64vec") /\ Get(Vf64VecRead(stream, Len(Head(sent).value)))
    BY <1>15 DEF GetVf64Vec, Count
  <2>2. Vf64VecRead(stream, Len(Head(sent).value)) = Got("vf64vec", Head(sent).value, stream)
    BY DEF Got
  <2> QED
    BY <2>1, <2>2, GetKeeps
<1> QED
  BY <1>1, <1>2, <1>3, <1>4, <1>5, <1>6, <1>7, <1>8, <1>9, <1>10, <1>11, <1>12, <1>13, <1>14, <1>15 DEF Reading

(* The empty stream is no pieces.                                          *)
LEMMA InitStream == ASSUME Init PROVE StreamInv
<1>1. stream = <<>> /\ room \in Nat /\ sent = <<>> /\ written = 0
      /\ last.whole /\ last.ok /\ last.kind = "none"
  BY SamplesAssumption DEF Init, Nothing, SamplesAssumption
<1>2. Pieces(<<>>)
  <2>1. FlattenSeq(<<>>) = <<>>
    BY RejectedIs DEF Rejected
  <2>2. IsSeq(<<>>) /\ Len(<<>>) = 0
    BY EmptyIsSeq
  <2>3. 1..0 = {} /\ 1..(0 - 1) = {}
    OBVIOUS
  <2>4. Items(<<>>)
    BY <2>2, <2>3 DEF Items
  <2> QED
    BY <1>1, <2>1, <2>2, <2>3, <2>4 DEF Pieces
<1> QED
  BY <1>1, <1>2 DEF StreamInv, TornRefused, RoundTrip

(* The invariant is inductive.                                             *)
LEMMA NextKeepsStream == ASSUME StreamInv, [Next]_vars PROVE StreamInv'
<1>1. CASE Writing
  BY <1>1, WritingKeeps
<1>2. CASE Reading
  BY <1>2, ReadingKeeps
<1>3. CASE UNCHANGED vars
  BY <1>3 DEF vars, StreamInv, TornRefused, RoundTrip, Pieces
<1> QED
  BY <1>1, <1>2, <1>3 DEF Next

(* The stream is at any time the pieces of the numbers not yet read, as    *)
(* long as the reader has had no error.                                    *)
THEOREM StreamAlways == Spec => []StreamInv
  BY InitStream, NextKeepsStream, PTL DEF Spec

(* A number of which the buffer refused a part is never read as a number:  *)
(* readers fail when the octets they need are not there (mubuf.cc).        *)
THEOREM TornRefusedAlways == Spec => []TornRefused
<1>1. StreamInv => TornRefused
  BY DEF StreamInv
<1> QED
  BY StreamAlways, <1>1, PTL

(* A number whose write was acknowledged is read back, and is the number   *)
(* that was written, but for what its encoding does not keep: each of the  *)
(* readers of mubuf.cc undoes the writer of its kind, for every value.     *)
THEOREM RoundTripAlways == Spec => []RoundTrip
<1>1. StreamInv => RoundTrip
  BY DEF StreamInv
<1> QED
  BY StreamAlways, <1>1, PTL

(* Every reader takes exactly the octets that the writer of its number     *)
(* left, whichever of the encodings of mubuf.cc it has, so that after the  *)
(* last number nothing is left over.                                       *)
THEOREM AlignedAlways == Spec => []Aligned
<1>1. StreamInv => Aligned
  <2> SUFFICES ASSUME StreamInv, sent = <<>>, last.ok PROVE stream = <<>>
    BY DEF Aligned
  <2>1. PICK p : Pieces(p)
    BY DEF StreamInv
  <2>2. IsSeq(p) /\ Len(p) = 0
    BY <2>1, EmptyIsSeq DEF Pieces, Items
  <2>3. p = <<>>
    BY <2>2, EmptyIsSeq
  <2>4. FlattenSeq(<<>>) = <<>>
    BY RejectedIs DEF Rejected
  <2> QED
    BY <2>1, <2>3, <2>4 DEF Pieces
<1> QED
  BY StreamAlways, <1>1, PTL
=============================================================================
