---------------------------- MODULE DataInduction ----------------------------
(***************************************************************************)
(* Induction over data, for the proofs about recursive functions: a set of *)
(* numbers that is not empty has a least one.  Then what the proofs about  *)
(* parsers and codecs need of sequences, whatever their elements.          *)
(***************************************************************************)
EXTENDS Integers, SequencesExt, FiniteSetTheorems, SequenceTheorems, TLAPS

(* Every set of natural numbers but the empty one has a least element.     *)
LEMMA LeastNatural ==
    ASSUME NEW T \in SUBSET Nat, T # {}
    PROVE  \E m \in T : \A n \in T : m <= n
<1> DEFINE Below == {0..n : n \in T}
<1>1. ASSUME NEW n \in T PROVE 0..n \in FiniteSubsetsOf(Nat)
  <2>1. n \in Int /\ 0..n \subseteq Nat
    OBVIOUS
  <2>2. IsFiniteSet(0..n)
    BY <2>1, FS_Interval
  <2> QED
    BY <2>1, <2>2 DEF FiniteSubsetsOf
<1>2. Below \subseteq FiniteSubsetsOf(Nat) /\ Below # {}
  BY <1>1
<1>3. \E x \in Below : \A y \in Below : ~ (<<y, x>> \in StrictSubsetOrdering(Nat))
  <2>1. IsWellFoundedOn(StrictSubsetOrdering(Nat), FiniteSubsetsOf(Nat))
    BY FS_StrictSubsetOrderingWellFounded
  <2> HIDE DEF Below
  <2> QED
    BY <1>2, <2>1, WFMin
<1>4. PICK m \in T : \A n \in T : ~ (<<0..n, 0..m>> \in StrictSubsetOrdering(Nat))
  BY <1>3
<1>5. ASSUME NEW n \in T, n < m PROVE FALSE
  <2>1. 0..n \subseteq 0..m /\ m \in 0..m /\ m \notin 0..n /\ 0..m \subseteq Nat
    BY <1>5
  <2>2. <<0..n, 0..m>> \in StrictSubsetOrdering(Nat)
    BY <2>1 DEF StrictSubsetOrdering
  <2> QED
    BY <1>4, <2>2
<1> QED
  BY <1>5

(* A recursive function follows a chain down to 0: from s it goes on with  *)
(* left[s], which is smaller, and G makes the value at s of the one there. *)
IsChain(c, left, V, base, G) ==
    /\ c \in Nat
    /\ left \in [1..c -> Nat]
    /\ \A s \in 1..c : left[s] < s
    /\ base \in V
    /\ G \in [1..c -> [V -> V]]

Follows(f, c, left, V, base, G) ==
    /\ f \in [0..c -> V]
    /\ \A s \in 0..c : f[s] = IF s = 0 THEN base ELSE G[s][f[left[s]]]

(* There is such a function.                                               *)
LEMMA ChainRecursion ==
    ASSUME NEW c, NEW left, NEW V, NEW base, NEW G, IsChain(c, left, V, base, G)
    PROVE  \E f : Follows(f, c, left, V, base, G)
<1> USE DEF IsChain, Follows
<1> DEFINE Good(k) == \E f \in [0..k -> V] :
              \A s \in 0..k : f[s] = IF s = 0 THEN base ELSE G[s][f[left[s]]]
           Bad == {k \in 0..c : ~ Good(k)}
<1>1. Good(0)
  <2>1. [s \in 0..0 |-> base] \in [0..0 -> V]
    OBVIOUS
  <2>2. \A s \in 0..0 : [t \in 0..0 |-> base][s] = base /\ s = 0
    OBVIOUS
  <2> QED
    BY <2>1, <2>2
<1>2. ASSUME NEW k \in 1..c, Good(k - 1) PROVE Good(k)
  <2>1. PICK f \in [0..(k - 1) -> V] :
            \A s \in 0..(k - 1) : f[s] = IF s = 0 THEN base ELSE G[s][f[left[s]]]
    BY <1>2
  <2> DEFINE g == [s \in 0..k |-> IF s = k THEN G[k][f[left[k]]] ELSE f[s]]
  <2>2. \A s \in 1..k : left[s] \in 0..(k - 1) /\ s \in 1..c
    OBVIOUS
  <2>3. g \in [0..k -> V]
    BY <2>1, <2>2
  <2>4. \A s \in 0..(k - 1) : g[s] = f[s] /\ s \in 0..k /\ s # k
    OBVIOUS
  <2>5. g[k] = G[k][g[left[k]]]
    BY <2>2, <2>4
  <2>6. \A s \in 1..k : g[left[s]] = f[left[s]]
    BY <2>2, <2>4
  <2>7. \A s \in 0..k : s = k \/ s \in 0..(k - 1)
    OBVIOUS
  <2>8. \A s \in 0..k : g[s] = IF s = 0 THEN base ELSE G[s][g[left[s]]]
    <3> HIDE DEF g
    <3> QED
      BY <2>1, <2>2, <2>4, <2>5, <2>6, <2>7
  <2> HIDE DEF g
  <2> QED
    BY <2>3, <2>8
<1>3. Bad = {}
  <2> SUFFICES ASSUME Bad # {} PROVE FALSE
    OBVIOUS
  <2>1. PICK k \in Bad : \A j \in Bad : k <= j
    <3>1. Bad \in SUBSET Nat
      OBVIOUS
    <3> HIDE DEF Bad
    <3> QED
      BY <3>1, LeastNatural
  <2> HIDE DEF Good
  <2>2. k \in 1..c /\ k - 1 \in 0..c /\ k - 1 \notin Bad
    BY <1>1, <2>1
  <2> QED
    BY <1>2, <2>1, <2>2
<1>4. Good(c)
  <2> HIDE DEF Good
  <2>1. c \in 0..c
    OBVIOUS
  <2> QED
    BY ONLY <1>3, <2>1
<1> QED
  BY <1>4

(* What holds at 0, and from each number to the next, holds of all.        *)
LEMMA Upwards ==
    ASSUME NEW n \in Nat, NEW T, 0 \in T,
           \A k \in 1..n : k - 1 \in T => k \in T
    PROVE  0..n \subseteq T
<1> DEFINE Bad == {k \in 0..n : k \notin T}
<1>1. Bad \in SUBSET Nat
  OBVIOUS
<1>2. ASSUME Bad # {} PROVE FALSE
  <2>1. PICK m \in Bad : \A k \in Bad : m <= k
    <3> HIDE DEF Bad
    <3> QED
      BY <1>1, <1>2, LeastNatural
  <2>2. m \in 1..n /\ m - 1 \in 0..n /\ ~ (m <= m - 1)
    BY <2>1
  <2>3. m - 1 \in T
    BY <2>1, <2>2
  <2> QED
    BY <2>1, <2>2, <2>3
<1> QED
  BY <1>2

(* What holds of a number if it does of all that are greater.              *)
LEMMA Downwards ==
    ASSUME NEW n \in Nat, NEW T,
           \A i \in 1..n : (\A j \in (i + 1)..n : j \in T) => i \in T
    PROVE  1..n \subseteq T
<1> SUFFICES ASSUME NEW i \in 1..n, i \notin T PROVE FALSE
  OBVIOUS
<1> DEFINE U == {m \in 0..n : n - m \in 1..n /\ n - m \notin T}
<1>1. U \in SUBSET Nat
  OBVIOUS
<1>2. n - i \in U
  <2>1. n - (n - i) = i /\ n - i \in 0..n
    OBVIOUS
  <2> QED
    BY <2>1
<1>3. PICK m \in U : \A x \in U : m <= x
  <2> HIDE DEF U
  <2> QED
    BY <1>1, <1>2, LeastNatural
<1>4. PICK k : k = n - m
  OBVIOUS
<1>5. k \in 1..n /\ k \notin T /\ m \in 0..n
  BY <1>4
<1>6. \A j \in (k + 1)..n : j \in T
  <2> SUFFICES ASSUME NEW j \in (k + 1)..n, j \notin T PROVE FALSE
    OBVIOUS
  <2>1. n - j \in 0..n /\ n - (n - j) = j /\ j \in 1..n /\ n - j < m
    BY <1>4, <1>5
  <2>2. n - j \in U
    BY <2>1
  <2>3. m <= n - j
    BY <1>3, <2>2
  <2> QED
    BY <1>5, <2>1, <2>3
<1> QED
  BY <1>5, <1>6

(* A recursive function that goes from each number to the next, up to n.   *)
IsSteps(n, V, base, G) == n \in Nat /\ base \in V /\ G \in [1..n -> [V -> V]]

Steps(f, n, V, base, G) ==
    /\ f \in [0..n -> V]
    /\ f[0] = base
    /\ \A k \in 1..n : f[k - 1] \in V /\ f[k] = G[k][f[k - 1]]

(* There is such a function.                                               *)
LEMMA StepRecursion ==
    ASSUME NEW n, NEW V, NEW base, NEW G, IsSteps(n, V, base, G)
    PROVE  \E f : Steps(f, n, V, base, G)
<1> USE DEF IsSteps
<1> DEFINE left == [k \in 1..n |-> k - 1]
<1>1. \A k \in 1..n : left[k] = k - 1 /\ left[k] \in Nat /\ left[k] < k
  OBVIOUS
<1>2. left \in [1..n -> Nat]
  BY <1>1
<1> HIDE DEF left
<1>3. PICK f : Follows(f, n, left, V, base, G)
  <2>1. IsChain(n, left, V, base, G)
    BY <1>1, <1>2 DEF IsChain
  <2> QED
    BY <2>1, ChainRecursion
<1>4. f \in [0..n -> V] /\ 0 \in 0..n /\ f[0] = base
  BY <1>3 DEF Follows
<1>5. ASSUME NEW k \in 1..n
      PROVE  f[k - 1] \in V /\ f[k] = G[k][f[k - 1]]
  <2>1. k \in 0..n /\ k # 0 /\ k - 1 \in 0..n
    OBVIOUS
  <2>2. f[k] = G[k][f[left[k]]]
    BY <1>3, <2>1 DEF Follows
  <2> QED
    BY <1>1, <1>4, <2>1, <2>2
<1> QED
  BY <1>4, <1>5 DEF Steps

(* A least number exists, and a greatest one among those below a bound.    *)
LEMMA MinIs ==
    ASSUME NEW T \in SUBSET Nat, T # {}
    PROVE  Min(T) \in T /\ \A n \in T : Min(T) <= n
<1>1. \E m \in T : \A n \in T : m <= n
  BY LeastNatural
<1> QED
  BY <1>1 DEF Min

LEMMA MaxIs ==
    ASSUME NEW n \in Nat, NEW T, T \subseteq 0..n, T # {}
    PROVE  Max(T) \in T /\ \A m \in T : m <= Max(T)
<1> DEFINE U == {n - m : m \in T}
<1>1. U \in SUBSET Nat /\ U # {}
  <2>1. ASSUME NEW m \in T PROVE m \in 0..n /\ n - m \in Nat
    OBVIOUS
  <2>2. PICK m : m \in T
    OBVIOUS
  <2>3. n - m \in U
    BY <2>2
  <2> QED
    BY <2>1, <2>3
<1>2. PICK u \in U : \A v \in U : u <= v
  <2> HIDE DEF U
  <2> QED
    BY <1>1, LeastNatural
<1>3. PICK x \in T : u = n - x
  BY <1>2
<1>4. \A m \in T : x >= m
  <2> TAKE m \in T
  <2>1. n - m \in U /\ m \in 0..n /\ x \in 0..n
    OBVIOUS
  <2>2. u <= n - m
    BY <1>2, <2>1
  <2> QED
    BY <1>3, <2>1, <2>2
<1>5. Max(T) \in T /\ \A m \in T : Max(T) >= m
  BY <1>4 DEF Max
<1> QED
  BY <1>5

-----------------------------------------------------------------------------
(* Sequences, of whatever elements. *)
IsSeq(s) == s \in Seq(Range(s))

(* A sequence of whatever is one of its own elements.                      *)
LEMMA SeqOfAny ==
    ASSUME NEW S, NEW s \in Seq(S) PROVE IsSeq(s)
<1>1. \A i \in 1..Len(s) : s[i] \in Range(s)
  BY DEF Range
<1> QED
  BY <1>1 DEF IsSeq

(* A sequence is a function on the numbers up to its length.               *)
LEMMA SeqDomain ==
    ASSUME NEW s, IsSeq(s)
    PROVE  /\ Len(s) \in Nat
           /\ DOMAIN s = 1..Len(s)
           /\ s = [i \in 1..Len(s) |-> s[i]]
  BY DEF IsSeq

(* And such a function is a sequence.                                      *)
LEMMA SeqMade ==
    ASSUME NEW n \in Nat, NEW s, s = [i \in 1..n |-> s[i]]
    PROVE  IsSeq(s) /\ Len(s) = n /\ DOMAIN s = 1..n
<1>1. s \in Seq(Range(s))
  BY DEF Range
<1>2. Len(s) = n
  BY <1>1
<1> QED
  BY <1>1, <1>2 DEF IsSeq

(* A single element is a sequence.                                         *)
LEMMA OneSeq == ASSUME NEW x PROVE IsSeq(<<x>>) /\ Len(<<x>>) = 1 /\ <<x>>[1] = x
<1>1. <<x>> \in Seq({x})
  OBVIOUS
<1> QED
  BY <1>1, SeqOfAny

(* So is none.                                                             *)
LEMMA EmptyIsSeq == IsSeq(<<>>) /\ Len(<<>>) = 0 /\ \A s : IsSeq(s) /\ Len(s) = 0 => s = <<>>
<1>1. <<>> \in Seq({})
  OBVIOUS
<1>2. IsSeq(<<>>)
  BY <1>1, SeqOfAny
<1>3. \A s : IsSeq(s) /\ Len(s) = 0 => s = <<>>
  BY DEF IsSeq
<1> QED
  BY <1>2, <1>3

(* What a concatenation has, and where.                                    *)
LEMMA SeqJoined ==
    ASSUME NEW s, NEW t, IsSeq(s), IsSeq(t)
    PROVE  /\ IsSeq(s \o t)
           /\ Len(s \o t) = Len(s) + Len(t)
           /\ \A i \in 1..Len(s) : (s \o t)[i] = s[i]
           /\ \A i \in 1..Len(t) : (s \o t)[Len(s) + i] = t[i]
<1> DEFINE S == Range(s) \union Range(t)
<1>1. s \in Seq(S) /\ t \in Seq(S)
  BY DEF IsSeq, Range
<1> HIDE DEF S
<1>2. s \o t \in Seq(S)
  BY <1>1
<1>3. IsSeq(s \o t)
  BY <1>2, SeqOfAny
<1>4. /\ Len(s \o t) = Len(s) + Len(t)
      /\ Len(s) \in Nat /\ Len(t) \in Nat
      /\ \A i \in 1..Len(s) + Len(t) :
            (s \o t)[i] = IF i <= Len(s) THEN s[i] ELSE t[i - Len(s)]
  BY <1>1, ConcatProperties
<1>5. \A i \in 1..Len(t) : (s \o t)[Len(s) + i] = t[i]
  <2> TAKE i \in 1..Len(t)
  <2>1. /\ Len(s) + i \in 1..Len(s) + Len(t)
        /\ ~ (Len(s) + i <= Len(s))
        /\ Len(s) + i - Len(s) = i
    BY <1>4
  <2> QED
    BY <1>4, <2>1
<1>6. \A i \in 1..Len(s) : (s \o t)[i] = s[i]
  <2> TAKE i \in 1..Len(s)
  <2>1. i \in 1..Len(s) + Len(t) /\ i <= Len(s)
    BY <1>4
  <2> QED
    BY <1>4, <2>1
<1> QED
  BY <1>3, <1>4, <1>5, <1>6

JoinOf(u, s, t) ==
    /\ IsSeq(u)
    /\ Len(u) = Len(s) + Len(t)
    /\ \A i \in 1..Len(s) : u[i] = s[i]
    /\ \A i \in 1..Len(t) : u[Len(s) + i] = t[i]

LEMMA JoinIs ==
    ASSUME NEW s, NEW t, NEW u, IsSeq(s), IsSeq(t), u = s \o t
    PROVE  JoinOf(u, s, t)
  BY SeqJoined DEF JoinOf

(* The same of an element at the end,                                      *)
LEMMA SeqAppended ==
    ASSUME NEW s, NEW e, IsSeq(s)
    PROVE  /\ IsSeq(Append(s, e))
           /\ Len(Append(s, e)) = Len(s) + 1
           /\ \A i \in 1..Len(s) : Append(s, e)[i] = s[i]
           /\ Append(s, e)[Len(s) + 1] = e
<1> DEFINE S == Range(s) \union {e}
<1>1. s \in Seq(S) /\ e \in S
  BY DEF IsSeq, Range
<1> HIDE DEF S
<1>2. /\ Append(s, e) \in Seq(S)
      /\ Len(Append(s, e)) = Len(s) + 1
      /\ \A i \in 1..Len(s) : Append(s, e)[i] = s[i]
      /\ Append(s, e)[Len(s) + 1] = e
  BY <1>1, AppendProperties
<1> QED
  BY <1>2, SeqOfAny

(* and of what is left without the first element.                          *)
LEMMA SeqRest ==
    ASSUME NEW s, IsSeq(s), s # <<>>
    PROVE  /\ IsSeq(Tail(s))
           /\ Len(s) > 0
           /\ Len(Tail(s)) = Len(s) - 1
           /\ Head(s) = s[1]
           /\ \A i \in 1..Len(Tail(s)) : Tail(s)[i] = s[i + 1]
<1> DEFINE S == Range(s)
<1>1. s \in Seq(S)
  BY DEF IsSeq
<1> HIDE DEF S
<1>2. /\ Tail(s) \in Seq(S)
      /\ Len(Tail(s)) = Len(s) - 1
      /\ \A i \in 1..Len(Tail(s)) : Tail(s)[i] = s[i + 1]
  BY <1>1, HeadTailProperties
<1>3. Len(s) > 0 /\ Head(s) = s[1]
  BY <1>1, EmptySeq
<1> QED
  BY <1>2, <1>3, SeqOfAny

(* Sequences of the same elements are equal.                               *)
LEMMA SeqSame ==
    ASSUME NEW s, NEW t, IsSeq(s), IsSeq(t), Len(s) = Len(t),
           \A i \in 1..Len(s) : s[i] = t[i]
    PROVE  s = t
  BY SeqDomain

(* A part of a sequence. *)
LEMMA SeqPart ==
    ASSUME NEW s, NEW m \in Int, NEW n \in Int
    PROVE  /\ IsSeq(SubSeq(s, m, n))
           /\ Len(SubSeq(s, m, n)) = IF m <= n THEN n - m + 1 ELSE 0
           /\ \A i \in 1..(n - m + 1) : SubSeq(s, m, n)[i] = s[m + i - 1]
<1> DEFINE S == {s[i] : i \in m..n}
<1>1. \A i \in m..n : s[i] \in S
  OBVIOUS
<1> HIDE DEF S
<1>2. /\ SubSeq(s, m, n) \in Seq(S)
      /\ Len(SubSeq(s, m, n)) = IF m <= n THEN n - m + 1 ELSE 0
      /\ \A i \in 1..n - m + 1 : SubSeq(s, m, n)[i] = s[m + i - 1]
  BY <1>1, SubSeqProperties
<1> QED
  BY <1>2, SeqOfAny

(* Nothing is added by nothing.                                            *)
LEMMA NoneJoined ==
    ASSUME NEW s, IsSeq(s)
    PROVE  <<>> \o s = s /\ s \o <<>> = s
<1>1. PICK z, a, b, n : z = <<>> /\ a = z \o s /\ b = s \o z /\ n = Len(s)
  OBVIOUS
<1>2. IsSeq(z) /\ Len(z) = 0 /\ n \in Nat
  BY <1>1, EmptyIsSeq, SeqDomain
<1>3. JoinOf(a, z, s) /\ JoinOf(b, s, z)
  BY <1>1, <1>2, JoinIs
<1>4. IsSeq(a) /\ Len(a) = n /\ IsSeq(b) /\ Len(b) = n
  BY <1>1, <1>2, <1>3 DEF JoinOf
<1>5. \A i \in 1..n : a[i] = s[i] /\ b[i] = s[i]
  <2> TAKE i \in 1..n
  <2>1. a[Len(z) + i] = s[i]
    BY <1>1, <1>3 DEF JoinOf
  <2>2. Len(z) + i = i
    BY <1>2
  <2>3. b[i] = s[i]
    BY <1>1, <1>3 DEF JoinOf
  <2> QED
    BY <2>1, <2>2, <2>3
<1>6. a = s /\ b = s
  BY <1>1, <1>4, <1>5, SeqSame
<1> QED
  BY <1>1, <1>6

(* It does not matter what is joined first.                                *)
LEMMA JoinedAgain ==
    ASSUME NEW a, NEW b, NEW c, IsSeq(a), IsSeq(b), IsSeq(c)
    PROVE  (a \o b) \o c = a \o (b \o c)
<1>1. PICK ab, bc, l, r, x, y, z : /\ ab = a \o b /\ bc = b \o c /\ l = ab \o c /\ r = a \o bc
                                   /\ x = Len(a) /\ y = Len(b) /\ z = Len(c)
  OBVIOUS
<1>2. x \in Nat /\ y \in Nat /\ z \in Nat
  BY <1>1, SeqDomain
<1>3. JoinOf(ab, a, b) /\ JoinOf(bc, b, c)
  BY <1>1, JoinIs
<1>4. JoinOf(l, ab, c) /\ JoinOf(r, a, bc)
  <2>1. IsSeq(ab) /\ IsSeq(bc)
    BY <1>3 DEF JoinOf
  <2> QED
    BY <1>1, <2>1, JoinIs
<1>5. /\ IsSeq(l) /\ IsSeq(r) /\ Len(ab) = x + y /\ Len(bc) = y + z
      /\ Len(l) = x + y + z /\ Len(r) = x + y + z
  BY <1>1, <1>2, <1>3, <1>4 DEF JoinOf
<1>6. ASSUME NEW i \in 1..Len(l) PROVE l[i] = r[i]
  <2>1. CASE i \in 1..x
    <3>1. i \in 1..Len(ab)
      BY <1>2, <1>5, <2>1
    <3> QED
      BY <1>1, <1>3, <1>4, <2>1, <3>1 DEF JoinOf
  <2>2. CASE i \in (x + 1)..(x + y)
    <3>1. PICK j : j = i - x
      OBVIOUS
    <3>2. j \in 1..y /\ i = x + j /\ i \in 1..Len(ab) /\ j \in 1..Len(bc)
      BY <1>2, <1>5, <2>2, <3>1
    <3>3. l[i] = ab[x + j] /\ ab[x + j] = b[j]
      BY <1>1, <1>3, <1>4, <3>2 DEF JoinOf
    <3>4. r[i] = bc[j] /\ bc[j] = b[j]
      BY <1>1, <1>3, <1>4, <3>2 DEF JoinOf
    <3> QED
      BY <3>3, <3>4
  <2>3. CASE i \in (x + y + 1)..(x + y + z)
    <3>1. PICK j, k : j = i - (x + y) /\ k = i - x
      OBVIOUS
    <3>2. j \in 1..z /\ i = Len(ab) + j /\ k \in 1..Len(bc) /\ i = x + k /\ k = y + j
      BY <1>2, <1>5, <2>3, <3>1
    <3>3. l[i] = c[j]
      BY <1>1, <1>4, <3>2 DEF JoinOf
    <3>4. r[i] = bc[k] /\ bc[k] = c[j]
      BY <1>1, <1>3, <1>4, <3>2 DEF JoinOf
    <3> QED
      BY <3>3, <3>4
  <2> QED
    BY <1>2, <1>5, <2>1, <2>2, <2>3
<1>7. l = r
  BY <1>5, <1>6, SeqSame
<1> QED
  BY <1>1, <1>7

-----------------------------------------------------------------------------
(* FlattenSeq *)

(* The sequences of q, one after the other, up to each of them. *)
Joins(f, q, n) ==
    /\ f[0] = <<>>
    /\ \A k \in 1..n : f[k] = f[k - 1] \o q[k]

(* There are such sequences.                                               *)
LEMMA JoinsExist ==
    ASSUME NEW n \in Nat, NEW q, \A k \in 1..n : IsSeq(q[k])
    PROVE  \E f : Joins(f, q, n) /\ \A k \in 0..n : IsSeq(f[k])
<1> DEFINE S == UNION {Range(q[k]) : k \in 1..n}
           V == Seq(S)
           G == [k \in 1..n |-> [s \in V |-> s \o q[k]]]
           none == <<>>
<1>1. \A k \in 1..n : q[k] \in V
  <2> TAKE k \in 1..n
  <2>1. Range(q[k]) \subseteq S /\ q[k] \in Seq(Range(q[k]))
    BY DEF IsSeq
  <2> HIDE DEF S
  <2> QED
    BY <2>1, SeqMonotonic
<1> HIDE DEF S
<1>2. <<>> \in V /\ \A s, t \in V : s \o t \in V
  OBVIOUS
<1>3. G \in [1..n -> [V -> V]] /\ \A k \in 1..n : \A s \in V : G[k][s] = s \o q[k]
  <2> HIDE DEF V
  <2> QED
    BY <1>1, <1>2
<1>4. PICK f : Steps(f, n, V, none, G)
  <2>1. IsSteps(n, V, none, G)
    BY <1>2, <1>3 DEF IsSteps
  <2> HIDE DEF V, G, none
  <2> QED
    BY <2>1, StepRecursion
<1>5. f \in [0..n -> V] /\ f[0] = <<>>
  BY <1>4 DEF Steps
<1>6. ASSUME NEW k \in 1..n PROVE f[k] = f[k - 1] \o q[k]
  <2> HIDE DEF V, G
  <2> QED
    BY <1>3, <1>4 DEF Steps
<1>7. Joins(f, q, n)
  BY <1>5, <1>6 DEF Joins
<1>8. \A k \in 0..n : IsSeq(f[k])
  BY <1>5, SeqOfAny
<1> QED
  BY <1>7, <1>8

(* Arithmetic about lengths.                                               *)
LEMMA Longer ==
    ASSUME NEW a \in Nat, NEW b \in Nat, NEW c \in Nat, NEW d, d = b + c, a <= b PROVE a <= d
  OBVIOUS

LEMMA Behind ==
    ASSUME NEW a \in Nat, NEW b \in Nat, NEW c, c = a + b, NEW x \in 1..b PROVE a + x \in 1..c
  OBVIOUS

(* Each begins behind those before, and stays where it is.                 *)
Joined(f, q, n) ==
    /\ \A k \in 0..n : Len(f[k]) \in Nat
    /\ \A k \in 1..n : Len(f[k]) = Len(f[k - 1]) + Len(q[k])
    /\ \A k \in 0..n : \A m \in k..n : Len(f[k]) <= Len(f[m])
    /\ \A k \in 1..n : \A x \in 1..Len(q[k]) : f[n][Len(f[k - 1]) + x] = q[k][x]
    /\ \A k \in 0..n : \A x \in 1..Len(f[k]) : f[n][x] = f[k][x]

(* They do.                                                                *)
LEMMA JoinsHold ==
    ASSUME NEW n \in Nat, NEW q, NEW f, Joins(f, q, n),
           \A k \in 1..n : IsSeq(q[k]), \A k \in 0..n : IsSeq(f[k])
    PROVE  Joined(f, q, n)
<1>1. \A k \in 0..n : Len(f[k]) \in Nat
  BY SeqDomain
<1>2. \A k \in 1..n : JoinOf(f[k], f[k - 1], q[k])
  <2> TAKE k \in 1..n
  <2>1. f[k] = f[k - 1] \o q[k] /\ IsSeq(f[k - 1]) /\ IsSeq(q[k])
    <3>1. k - 1 \in 0..n
      OBVIOUS
    <3>2. f[k] = f[k - 1] \o q[k]
      BY DEF Joins
    <3> QED
      BY <3>1, <3>2
  <2> QED
    BY <2>1, JoinIs
<1>3. \A k \in 1..n : Len(f[k]) = Len(f[k - 1]) + Len(q[k])
  BY <1>2 DEF JoinOf
<1>4. ASSUME NEW k \in 0..n
      PROVE  \A m \in k..n : /\ Len(f[k]) <= Len(f[m])
                             /\ \A x \in 1..Len(f[k]) : f[m][x] = f[k][x]
  <2> DEFINE Same(m) == m \in k..n => /\ Len(f[k]) <= Len(f[m])
                                      /\ \A x \in 1..Len(f[k]) : f[m][x] = f[k][x]
             T == {m \in 0..n : Same(m)}
  <2>1. 0 \in T
    <3>1. 0 \in k..n => k = 0
      OBVIOUS
    <3>2. Len(f[0]) <= Len(f[0])
      BY <1>1
    <3> QED
      BY <3>1, <3>2
  <2>2. ASSUME NEW m \in 1..n, m - 1 \in T PROVE m \in T
    <3>1. CASE m \notin k..n
      BY <3>1
    <3>2. CASE m = k
      <4>1. Len(f[k]) <= Len(f[k])
        BY <1>1
      <4> QED
        BY <3>2, <4>1
    <3>3. CASE m \in k..n /\ m # k
      <4>1. m - 1 \in k..n /\ m - 1 \in 0..n /\ m \in 0..n
        BY <3>3
      <4>2. Len(f[k]) <= Len(f[m - 1]) /\ \A x \in 1..Len(f[k]) : f[m - 1][x] = f[k][x]
        BY <2>2, <4>1
      <4>3. /\ Len(f[m]) = Len(f[m - 1]) + Len(q[m])
            /\ \A x \in 1..Len(f[m - 1]) : f[m][x] = f[m - 1][x]
        BY <1>2 DEF JoinOf
      <4>4. Len(q[m]) \in Nat /\ Len(f[m - 1]) \in Nat /\ Len(f[k]) \in Nat
        BY <1>1, <4>1, SeqDomain
      <4>5. Len(f[k]) <= Len(f[m])
        BY <4>2, <4>3, <4>4, Longer
      <4>6. \A x \in 1..Len(f[k]) : f[m][x] = f[k][x]
        <5> TAKE x \in 1..Len(f[k])
        <5>1. x \in 1..Len(f[m - 1])
          BY <4>2, <4>4
        <5> QED
          BY <4>2, <4>3, <5>1
      <4>7. Same(m)
        BY <4>5, <4>6
      <4> QED
        BY <4>1, <4>7
    <3> QED
      BY <3>1, <3>2, <3>3
  <2> HIDE DEF T
  <2>3. 0..n \subseteq T
    BY <2>1, <2>2, Upwards
  <2> QED
    BY <2>3 DEF T
<1>5. \A k \in 0..n : \A m \in k..n : Len(f[k]) <= Len(f[m])
  BY <1>4
<1>6. \A k \in 1..n : \A x \in 1..Len(q[k]) : f[n][Len(f[k - 1]) + x] = q[k][x]
  <2> TAKE k \in 1..n
  <2> TAKE x \in 1..Len(q[k])
  <2>1. k \in 0..n /\ n \in k..n /\ k - 1 \in 0..n
    OBVIOUS
  <2>2. f[k][Len(f[k - 1]) + x] = q[k][x]
    BY <1>2 DEF JoinOf
  <2>3. Len(f[k - 1]) + x \in 1..Len(f[k])
    <3>1. Len(f[k - 1]) \in Nat /\ Len(q[k]) \in Nat /\ Len(f[k]) = Len(f[k - 1]) + Len(q[k])
      BY <1>1, <1>3, <2>1, SeqDomain
    <3> QED
      BY <3>1, Behind
  <2>4. \A y \in 1..Len(f[k]) : f[n][y] = f[k][y]
    BY <1>4, <2>1
  <2> QED
    BY <2>2, <2>3, <2>4
<1>7. \A k \in 0..n : \A x \in 1..Len(f[k]) : f[n][x] = f[k][x]
  <2>1. \A k \in 0..n : n \in k..n
    OBVIOUS
  <2> QED
    BY <1>4, <2>1
<1> QED
  BY <1>1, <1>3, <1>5, <1>6, <1>7 DEF Joined

(* Of the first k sequences of q, FlattenSeq makes the kth of them,        *)
LEMMA FlattenIs ==
    ASSUME NEW n \in Nat, NEW q, NEW f, NEW k \in 0..n, NEW p,
           Joins(f, q, n), \A i \in 1..n : IsSeq(q[i]),
           IsSeq(p), Len(p) = k, \A i \in 1..k : p[i] = q[i]
    PROVE  FlattenSeq(p) = f[k]
<1>1. CASE k = 0
  <2>1. p = <<>>
    BY <1>1 DEF IsSeq
  <2> QED
    BY <1>1, <2>1 DEF FlattenSeq, Joins
<1>2. CASE k # 0
  <2> DEFINE Flat(g) == g = [i \in 1..k |-> IF i = 1 THEN p[i] ELSE g[i - 1] \o p[i]]
             h == [i \in 1..k |-> f[i]]
             g == CHOOSE g : Flat(g)
  <2>1. FlattenSeq(p) = g[k]
    BY <1>2 DEF FlattenSeq
  <2>2. f[1] = p[1]
    <3>0. 1 \in 1..n /\ 1 - 1 = 0 /\ 1 \in 1..k
      BY <1>2
    <3>1. f[1] = <<>> \o q[1]
      <4>1. f[1] = f[1 - 1] \o q[1] /\ f[0] = <<>>
        BY <3>0 DEF Joins
      <4> QED
        BY <3>0, <4>1
    <3>2. IsSeq(q[1]) /\ p[1] = q[1]
      BY <3>0
    <3> QED
      BY <3>1, <3>2, ConcatEmptySeq DEF IsSeq
  <2>3. \A i \in 2..k : f[i] = f[i - 1] \o p[i]
    <3> TAKE i \in 2..k
    <3>1. i \in 1..n /\ i \in 1..k
      OBVIOUS
    <3> QED
      BY <3>1 DEF Joins
  <2>4. Flat(h)
    <3>1. \A i \in 1..k : h[i] = IF i = 1 THEN p[i] ELSE h[i - 1] \o p[i]
      <4> TAKE i \in 1..k
      <4>1. CASE i = 1
        BY <2>2, <4>1
      <4>2. CASE i # 1
        <5>1. i \in 2..k /\ i - 1 \in 1..k
          BY <4>2
        <5>2. h[i] = f[i] /\ h[i - 1] = f[i - 1]
          BY <5>1
        <5> QED
          BY <2>3, <4>2, <5>1, <5>2
      <4> QED
        BY <4>1, <4>2
    <3> QED
      BY <3>1
  <2>5. Flat(g)
    <3> HIDE DEF Flat, h
    <3> QED
      BY <2>4
  <2>6. \A i \in 1..k : g[i] = IF i = 1 THEN p[i] ELSE g[i - 1] \o p[i]
    <3> HIDE DEF g
    <3> QED
      BY <2>5
  <2> HIDE DEF g, Flat, h
  <2>7. 0..k \subseteq {i \in 0..k : i = 0 \/ g[i] = f[i]}
    <3> DEFINE T == {i \in 0..k : i = 0 \/ g[i] = f[i]}
    <3>1. 0 \in T
      OBVIOUS
    <3>2. ASSUME NEW i \in 1..k, i - 1 \in T PROVE i \in T
      <4>1. CASE i = 1
        BY <2>2, <2>6, <4>1
      <4>2. CASE i # 1
        <5>1. i \in 2..k /\ i - 1 # 0 /\ i \in 1..k
          BY <4>2
        <5>2. g[i - 1] = f[i - 1]
          BY <3>2, <5>1
        <5>3. g[i] = g[i - 1] \o p[i]
          BY <2>6, <4>2
        <5>4. f[i] = f[i - 1] \o p[i]
          BY <2>3, <5>1
        <5>5. g[i] = f[i] /\ i \in 0..k
          BY <5>2, <5>3, <5>4
        <5> QED
          BY <5>5
      <4> QED
        BY <4>1, <4>2
    <3> HIDE DEF T
    <3>3. k \in Nat
      OBVIOUS
    <3>4. 0..k \subseteq T
      BY <3>1, <3>2, <3>3, Upwards
    <3> QED
      BY <3>4 DEF T
  <2> QED
    BY <1>2, <2>1, <2>7
<1> QED
  BY <1>1, <1>2

(* The same of what is known to be the first k.                            *)
FirstOf(p, k, f, q, n) ==
    /\ n \in Nat /\ k \in 0..n
    /\ Joins(f, q, n) /\ \A i \in 1..n : IsSeq(q[i])
    /\ IsSeq(p) /\ Len(p) = k /\ \A i \in 1..k : p[i] = q[i]

LEMMA FlattenFirst ==
    ASSUME NEW p, NEW k, NEW f, NEW q, NEW n, FirstOf(p, k, f, q, n)
    PROVE  FlattenSeq(p) = f[k]
<1>1. /\ n \in Nat /\ k \in 0..n
      /\ Joins(f, q, n) /\ \A i \in 1..n : IsSeq(q[i])
      /\ IsSeq(p) /\ Len(p) = k /\ \A i \in 1..k : p[i] = q[i]
  BY DEF FirstOf
<1> QED
  BY ONLY <1>1, FlattenIs

(* and of all the last.                                                    *)
LEMMA FlattenAll ==
    ASSUME NEW q, NEW f, IsSeq(q), Joins(f, q, Len(q)), \A i \in 1..Len(q) : IsSeq(q[i])
    PROVE  FlattenSeq(q) = f[Len(q)]
<1>1. Len(q) \in Nat /\ Len(q) \in 0..Len(q)
  BY SeqDomain
<1> QED
  BY <1>1, FlattenIs

(* Sequences that are put together are a sequence. *)
LEMMA FlattenIsSeq ==
    ASSUME NEW q, IsSeq(q), \A i \in DOMAIN q : IsSeq(q[i])
    PROVE  IsSeq(FlattenSeq(q))
<1>1. Len(q) \in Nat /\ DOMAIN q = 1..Len(q) /\ Len(q) \in 0..Len(q)
  BY SeqDomain
<1>2. PICK f : Joins(f, q, Len(q)) /\ \A k \in 0..Len(q) : IsSeq(f[k])
  BY <1>1, JoinsExist
<1>3. FlattenSeq(q) = f[Len(q)]
  BY <1>1, <1>2, FlattenIs
<1> QED
  BY <1>1, <1>2, <1>3

(* One list is itself.                                                     *)
LEMMA FlattenOne ==
    ASSUME NEW x, IsSeq(x)
    PROVE  FlattenSeq(<<x>>) = x
<1>1. PICK q : q = <<x>>
  OBVIOUS
<1>2. IsSeq(q) /\ Len(q) = 1 /\ q[1] = x
  BY <1>1, OneSeq
<1>3. \A k \in 1..1 : IsSeq(q[k])
  BY <1>2
<1>4. PICK f : Joins(f, q, 1)
  <2>1. 1 \in Nat
    OBVIOUS
  <2> QED
    BY <1>3, <2>1, JoinsExist
<1>5. FlattenSeq(q) = f[1]
  BY <1>2, <1>3, <1>4, FlattenAll
<1>6. f[0] = <<>> /\ f[1] = f[0] \o q[1]
  <2>1. 1 \in 1..1 /\ 1 - 1 = 0
    OBVIOUS
  <2> QED
    BY <1>4, <2>1 DEF Joins
<1> QED
  BY <1>1, <1>2, <1>5, <1>6, NoneJoined

(* Lists of one item each are flattened to the items.                      *)
LEMMA FlattenSingles ==
    ASSUME NEW s, IsSeq(s), NEW q, IsSeq(q), Len(q) = Len(s),
           \A i \in 1..Len(s) : q[i] = <<s[i]>>
    PROVE  FlattenSeq(q) = s
<1>1. PICK n : n = Len(s)
  OBVIOUS
<1>2. n \in Nat /\ Len(q) = n
  BY <1>1, SeqDomain
<1>3. \A i \in 1..n : IsSeq(q[i]) /\ Len(q[i]) = 1 /\ q[i][1] = s[i]
  BY <1>1, OneSeq
<1>4. PICK f : Joins(f, q, n) /\ \A k \in 0..n : IsSeq(f[k])
  BY <1>2, <1>3, JoinsExist
<1>5. FlattenSeq(q) = f[n]
  BY <1>2, <1>3, <1>4, FlattenAll
<1>6. Joined(f, q, n)
  BY <1>2, <1>3, <1>4, JoinsHold
<1>7. PICK T : T = {k \in 0..n : Len(f[k]) = k}
  OBVIOUS
<1>8. 0 \in T
  <2>1. f[0] = <<>> /\ 0 \in 0..n
    BY <1>2, <1>4 DEF Joins
  <2> QED
    BY <1>7, <2>1, EmptyIsSeq
<1>9. ASSUME NEW k \in 1..n, k - 1 \in T
      PROVE  k \in T
  <2>1. Len(f[k]) = Len(f[k - 1]) + Len(q[k])
    BY <1>6 DEF Joined
  <2>2. Len(f[k - 1]) = k - 1 /\ Len(q[k]) = 1
    BY <1>3, <1>7, <1>9
  <2>3. (k - 1) + 1 = k /\ k \in 0..n
    BY <1>2
  <2> QED
    BY <1>7, <2>1, <2>2, <2>3
<1>10. 0..n \subseteq T
  BY <1>2, <1>8, <1>9, Upwards
<1>11. \A k \in 0..n : Len(f[k]) = k
  BY <1>7, <1>10
<1>12. \A k \in 1..n : f[n][k] = s[k]
  <2> TAKE k \in 1..n
  <2>1. k - 1 \in 0..n /\ (k - 1) + 1 = k /\ 1 \in 1..1
    BY <1>2
  <2>2. \A x \in 1..Len(q[k]) : f[n][Len(f[k - 1]) + x] = q[k][x]
    BY <1>6 DEF Joined
  <2>3. f[n][Len(f[k - 1]) + 1] = q[k][1]
    BY <1>3, <2>1, <2>2
  <2> QED
    BY <1>3, <1>11, <2>1, <2>3
<1>13. IsSeq(f[n]) /\ Len(f[n]) = n
  <2>1. n \in 0..n
    BY <1>2
  <2> QED
    BY <1>4, <1>11, <2>1
<1>14. f[n] = s
  BY <1>1, <1>12, <1>13, SeqSame
<1> QED
  BY <1>5, <1>14

(* Flattened one after another, they are joined.                           *)
LEMMA FlattenJoined ==
    ASSUME NEW p, NEW q, IsSeq(p), IsSeq(q), \A i \in DOMAIN p : IsSeq(p[i]),
           \A i \in DOMAIN q : IsSeq(q[i])
    PROVE  FlattenSeq(p \o q) = FlattenSeq(p) \o FlattenSeq(q)
<1>1. PICK w, l, n, m : w = p \o q /\ l = Len(p) /\ n = Len(q) /\ m = Len(w)
  OBVIOUS
<1>2. JoinOf(w, p, q) /\ IsSeq(w)
  <2>1. JoinOf(w, p, q)
    BY <1>1, JoinIs
  <2> QED
    BY <2>1 DEF JoinOf
<1>3. /\ l \in Nat /\ n \in Nat /\ m = l + n
      /\ \A i \in 1..l : w[i] = p[i]
      /\ \A i \in 1..n : w[l + i] = q[i]
      /\ DOMAIN p = 1..l /\ DOMAIN q = 1..n
  BY <1>1, <1>2, SeqDomain DEF JoinOf
<1>4. \A i \in 1..m : IsSeq(w[i])
  <2> TAKE i \in 1..m
  <2>1. CASE i \in 1..l
    BY <1>3, <2>1
  <2>2. CASE i \in (l + 1)..(l + n)
    <3>1. PICK j : j = i - l
      OBVIOUS
    <3>2. j \in 1..n /\ i = l + j
      BY <1>3, <2>2, <3>1
    <3> QED
      BY <1>3, <3>2
  <2> QED
    BY <1>3, <2>1, <2>2
<1>5. PICK f : Joins(f, w, m) /\ \A k \in 0..m : IsSeq(f[k])
  BY <1>3, <1>4, JoinsExist
<1>6. PICK h : Joins(h, q, n) /\ \A k \in 0..n : IsSeq(h[k])
  BY <1>3, JoinsExist
<1>7. FlattenSeq(p) = f[l]
  <2>1. m \in Nat /\ l \in 0..m
    BY <1>3
  <2>2. \A i \in 1..l : p[i] = w[i]
    BY <1>3
  <2>3. FirstOf(p, l, f, w, m)
    BY <1>1, <1>4, <1>5, <2>1, <2>2 DEF FirstOf
  <2> QED
    BY <2>3, FlattenFirst
<1>8. FlattenSeq(w) = f[m]
  BY <1>1, <1>2, <1>4, <1>5, FlattenAll
<1>9. FlattenSeq(q) = h[n]
  BY <1>1, <1>3, <1>6, FlattenAll
<1>10. PICK T : T = {k \in 0..n : f[l + k] = f[l] \o h[k]}
  OBVIOUS
<1>11. IsSeq(f[l])
  BY <1>3, <1>5
<1>12. 0 \in T
  <2>1. h[0] = <<>> /\ l + 0 = l /\ 0 \in 0..n
    BY <1>3, <1>6 DEF Joins
  <2>2. f[l] \o <<>> = f[l]
    BY <1>11, NoneJoined
  <2> QED
    BY <1>10, <2>1, <2>2
<1>13. ASSUME NEW k \in 1..n, k - 1 \in T
       PROVE  k \in T
  <2>1. PICK x, y, z : x = f[l] /\ y = h[k - 1] /\ z = q[k]
    OBVIOUS
  <2>2. /\ k \in 0..n /\ k - 1 \in 0..n /\ l + k \in 1..m
        /\ (l + k) - 1 = l + (k - 1)
    BY <1>3
  <2>3. IsSeq(x) /\ IsSeq(y) /\ IsSeq(z)
    BY <1>3, <1>6, <1>11, <2>1, <2>2
  <2>4. f[l + k] = f[(l + k) - 1] \o w[l + k]
    BY <1>5, <2>2 DEF Joins
  <2>5. f[l + (k - 1)] = x \o y
    BY <1>10, <1>13, <2>1
  <2>6. w[l + k] = z
    BY <1>3, <2>1
  <2>7. h[k] = y \o z
    BY <1>6, <2>1 DEF Joins
  <2>8. (x \o y) \o z = x \o (y \o z)
    BY ONLY <2>3, JoinedAgain
  <2>9. f[l + k] = x \o h[k]
    BY ONLY <2>2, <2>4, <2>5, <2>6, <2>7, <2>8
  <2> QED
    BY <1>10, <2>1, <2>2, <2>9
<1>14. 0..n \subseteq T
  BY <1>3, <1>12, <1>13, Upwards
<1>15. f[l + n] = f[l] \o h[n]
  <2>1. n \in 0..n
    BY <1>3
  <2> QED
    BY <1>10, <1>14, <2>1
<1> QED
  BY <1>1, <1>3, <1>7, <1>8, <1>9, <1>15

-----------------------------------------------------------------------------
(* Lists that are put together from the left *)

(* From i on, a list is a piece, and behind it, unless i is in stop, what  *)
(* there is from next[i] on.                                               *)
IsPieces(n, stop, piece, next, S) ==
    /\ n \in Nat
    /\ \A i \in 1..n : piece[i] \in Seq(S) /\ (i \in stop \/ next[i] \in (i + 1)..n)

Pieced(g, n, stop, piece, next) ==
    g = [i \in 1..n |-> IF i \in stop THEN piece[i] ELSE piece[i] \o g[next[i]]]

(* There is such a list.                                                   *)
LEMMA PiecesExist ==
    ASSUME NEW n, NEW stop, NEW piece, NEW next, NEW S, IsPieces(n, stop, piece, next, S)
    PROVE  \E g : Pieced(g, n, stop, piece, next)
<1> DEFINE V == Seq(S)
           left == [s \in 1..n |-> IF n + 1 - s \in stop THEN 0 ELSE n + 1 - next[n + 1 - s]]
           G == [s \in 1..n |-> [x \in V |-> IF n + 1 - s \in stop THEN piece[n + 1 - s]
                                             ELSE piece[n + 1 - s] \o x]]
<1>1. n \in Nat
  BY DEF IsPieces
<1>2. \A i \in 1..n : piece[i] \in V /\ (i \in stop \/ next[i] \in (i + 1)..n)
  BY DEF IsPieces
<1>3. \A s \in 1..n : n + 1 - s \in 1..n
  BY <1>1
<1>4. IsChain(n, left, V, <<>>, G)
  <2>1. \A s \in 1..n : left[s] \in Nat /\ left[s] < s
    <3> TAKE s \in 1..n
    <3>1. PICK i : i = n + 1 - s
      OBVIOUS
    <3>2. i \in 1..n /\ s = n + 1 - i
      BY <1>1, <3>1
    <3>3. left[s] = IF i \in stop THEN 0 ELSE n + 1 - next[i]
      BY <3>1
    <3>4. i \notin stop => next[i] \in (i + 1)..n
      BY <1>2, <3>2
    <3> HIDE DEF left
    <3> QED
      BY <1>1, <3>2, <3>3, <3>4
  <2>2. left \in [1..n -> Nat]
    BY <2>1
  <2>3. G \in [1..n -> [V -> V]]
    <3> SUFFICES ASSUME NEW s \in 1..n, NEW x \in V
                 PROVE  (IF n + 1 - s \in stop THEN piece[n + 1 - s] ELSE piece[n + 1 - s] \o x) \in V
      OBVIOUS
    <3>1. PICK y : y = piece[n + 1 - s]
      OBVIOUS
    <3>2. y \in V
      <4> HIDE DEF V
      <4> QED
        BY <1>2, <1>3, <3>1
    <3>3. y \o x \in V
      BY <3>2
    <3> QED
      BY <3>1, <3>2, <3>3
  <2>4. <<>> \in V
    OBVIOUS
  <2> QED
    BY <1>1, <2>1, <2>2, <2>3, <2>4 DEF IsChain
<1>5. PICK f : Follows(f, n, left, V, <<>>, G)
  <2> HIDE DEF V, left, G
  <2> QED
    BY <1>4, ChainRecursion
<1>6. /\ f \in [0..n -> V]
      /\ \A s \in 0..n : f[s] = IF s = 0 THEN <<>> ELSE G[s][f[left[s]]]
  BY <1>5 DEF Follows
<1>7. PICK g : g = [i \in 1..n |-> f[n + 1 - i]]
  OBVIOUS
<1>8. ASSUME NEW i \in 1..n
      PROVE  g[i] = IF i \in stop THEN piece[i] ELSE piece[i] \o g[next[i]]
  <2>1. PICK s : s = n + 1 - i
    OBVIOUS
  <2>2. s \in 1..n /\ s \in 0..n /\ s # 0 /\ n + 1 - s = i
    BY <1>1, <2>1
  <2>3. PICK l : l = left[s]
    OBVIOUS
  <2>4. l = IF i \in stop THEN 0 ELSE n + 1 - next[i]
    BY <2>2, <2>3
  <2>5. l \in 0..n
    <3>1. i \notin stop => next[i] \in (i + 1)..n
      BY <1>2
    <3> QED
      BY <1>1, <2>4, <3>1
  <2>6. PICK x : x = f[l]
    OBVIOUS
  <2>7. x \in V
    <3> HIDE DEF V
    <3> QED
      BY <1>6, <2>5, <2>6
  <2>8. f[s] = G[s][x]
    <3> HIDE DEF G, left
    <3> QED
      BY <1>6, <2>2, <2>3, <2>6
  <2>9. G[s][x] = IF i \in stop THEN piece[i] ELSE piece[i] \o x
    <3>1. G[s] = [y \in V |-> IF n + 1 - s \in stop THEN piece[n + 1 - s]
                              ELSE piece[n + 1 - s] \o y]
      BY <2>2
    <3>2. G[s][x] = IF n + 1 - s \in stop THEN piece[n + 1 - s] ELSE piece[n + 1 - s] \o x
      <4> HIDE DEF G, V
      <4> QED
        BY <2>7, <3>1
    <3> QED
      BY <2>2, <3>2
  <2>10. g[i] = f[s]
    BY <1>7, <2>1
  <2>11. ASSUME i \notin stop PROVE g[next[i]] = x
    <3>1. PICK k : k = next[i]
      OBVIOUS
    <3>2. k \in 1..n
      BY <1>1, <1>2, <2>11, <3>1
    <3>3. g[k] = f[n + 1 - k]
      BY <1>7, <3>2
    <3> QED
      BY <2>4, <2>6, <2>11, <3>1, <3>3
  <2> HIDE DEF G, left, V
  <2> QED
    BY <2>8, <2>9, <2>10, <2>11
<1>9. g = [i \in 1..n |-> g[i]]
  BY <1>7
<1>10. Pieced(g, n, stop, piece, next)
  BY ONLY <1>8, <1>9 DEF Pieced
<1> QED
  BY ONLY <1>10

(* It is a list of what its pieces are made of.                            *)
LEMMA PiecesType ==
    ASSUME NEW n, NEW stop, NEW piece, NEW next, NEW S, IsPieces(n, stop, piece, next, S),
           NEW g, Pieced(g, n, stop, piece, next)
    PROVE  \A i \in 1..n : g[i] \in Seq(S)
<1>1. PICK V : V = Seq(S)
  OBVIOUS
<1>2. n \in Nat
  BY DEF IsPieces
<1>3. PICK T : T = {i \in 1..n : g[i] \in V}
  OBVIOUS
<1>4. ASSUME NEW i \in 1..n, \A j \in (i + 1)..n : j \in T
      PROVE  i \in T
  <2>1. g[i] = IF i \in stop THEN piece[i] ELSE piece[i] \o g[next[i]]
    BY DEF Pieced
  <2>2. piece[i] \in Seq(S) /\ (i \in stop \/ next[i] \in (i + 1)..n)
    BY DEF IsPieces
  <2>3. CASE i \in stop
    BY <1>1, <1>3, <2>1, <2>2, <2>3
  <2>4. CASE i \notin stop
    <3>1. PICK x, y : x = g[next[i]] /\ y = piece[i]
      OBVIOUS
    <3>2. x \in Seq(S) /\ y \in Seq(S)
      BY <1>1, <1>3, <1>4, <2>2, <2>4, <3>1
    <3>3. y \o x \in Seq(S)
      BY <3>2
    <3> QED
      BY <1>1, <1>3, <2>1, <2>4, <3>1, <3>3
  <2> QED
    BY <2>3, <2>4
<1>5. 1..n \subseteq T
  BY <1>2, <1>4, Downwards
<1> QED
  BY <1>1, <1>3, <1>5
=============================================================================
