-------------------------- MODULE AttrStoreProofs --------------------------
(***************************************************************************)
(* Theorems about AttrStore for all texts that are known (TextKnown),      *)
(* every bound and every growth: that the blocks of attribute values never *)
(* overlap, that every attribute keeps the value it was given, that no two *)
(* share an element of the arrays, and that what a format can hold of the  *)
(* attributes arrives: what is written is read again, and is then written  *)
(* as it was.                                                              *)
(***************************************************************************)
EXTENDS AttrStore, DataInduction

-----------------------------------------------------------------------------
(* What the parsers make of a sequence *)

(* What is selected of a text is a sequence.                               *)
LEMMA SelectedIsSeq ==
    ASSUME NEW text, IsSeq(text), NEW places
    PROVE  IsSeq(Selected(text, places))
<1> DEFINE q == [i \in 1..Len(text) |-> IF i \in places THEN <<text[i]>> ELSE <<>>]
<1>1. Len(text) \in Nat /\ DOMAIN text = 1..Len(text)
  BY SeqDomain
<1>2. IsSeq(q) /\ DOMAIN q = 1..Len(text)
  <2>1. q = [i \in 1..Len(text) |-> q[i]]
    OBVIOUS
  <2> HIDE DEF q
  <2> QED
    BY <1>1, <2>1, SeqMade
<1>3. ASSUME NEW i \in DOMAIN q PROVE IsSeq(q[i])
  BY <1>2, OneSeq, EmptyIsSeq
<1>4. Selected(text, places) = FlattenSeq(q)
  BY <1>1 DEF Selected
<1> HIDE DEF q
<1> QED
  BY <1>2, <1>3, <1>4, FlattenIsSeq

(* So are the items of a path.                                             *)
LEMMA PathItemsIsSeq ==
    ASSUME NEW text, IsSeq(text) PROVE IsSeq(PathItems(text))
  BY SelectedIsSeq DEF PathItems

(* The operations of a path: each has a sequence of arguments.             *)
GoodPath(v) ==
    /\ IsSeq(v)
    /\ \A i \in DOMAIN v : v[i] = Op(v[i].code, v[i].args) /\ IsSeq(v[i].args)

Codes == Letters \union {"none"}

(* The states of the parser of paths, when the numbers are those of A.     *)
OpsOf(A) == [code : Codes, args : Seq(A)]
Scans(A) == [code : Codes, args : Seq(A), ops : Seq(OpsOf(A)), fault : BOOLEAN]

(* An item takes the parser of paths to another of its states.             *)
LEMMA PathItemScans ==
    ASSUME NEW A, NEW st \in Scans(A), NEW t, Atof(t) \in A
    PROVE  PathItem(st, t) \in Scans(A)
<1>1. /\ st.code \in Codes /\ st.args \in Seq(A) /\ st.ops \in Seq(OpsOf(A))
      /\ st.fault \in BOOLEAN
  BY DEF Scans
<1>2. PathCommand(st, t.kind) \in Scans(A)
  <2> DEFINE code == Opcode(t.kind)
             ops == IF code = "Z" THEN Append(st.ops, Op(code, <<>>)) ELSE st.ops
  <2>1. code \in Codes
    BY DEF Opcode, Codes, Letters
  <2> HIDE DEF code
  <2>2. ops \in Seq(OpsOf(A))
    <3>1. Op(code, <<>>) \in OpsOf(A)
      BY <2>1 DEF Op, OpsOf
    <3> QED
      BY <1>1, <3>1, AppendProperties
  <2>3. PathCommand(st, t.kind) = [st EXCEPT !.code = code, !.ops = ops]
    BY DEF PathCommand, code
  <2> HIDE DEF ops
  <2> QED
    BY <2>1, <2>2, <2>3 DEF Scans
<1>3. PathNumber(st, Atof(t)) \in Scans(A)
  <2> DEFINE args == Append(st.args, Atof(t))
             ops == Append(st.ops, Op(st.code, args))
  <2>1. args \in Seq(A)
    BY <1>1, AppendProperties
  <2> HIDE DEF args
  <2>2. ops \in Seq(OpsOf(A))
    <3>1. Op(st.code, args) \in OpsOf(A)
      BY <1>1, <2>1 DEF Op, OpsOf
    <3> QED
      BY <1>1, <3>1, AppendProperties
  <2>3. /\ [st EXCEPT !.fault = TRUE] \in Scans(A)
        /\ [st EXCEPT !.args = <<>>, !.ops = ops] \in Scans(A)
        /\ [st EXCEPT !.args = args] \in Scans(A)
    <3>1. <<>> \in Seq(A)
      OBVIOUS
    <3> HIDE DEF ops
    <3> QED
      BY <2>1, <2>2, <3>1 DEF Scans
  <2>4. PathNumber(st, Atof(t)) =
          CASE ArgCount(st.code) = 0 -> [st EXCEPT !.fault = TRUE]
            [] ArgCount(st.code) = Len(args) -> [st EXCEPT !.args = <<>>, !.ops = ops]
            [] OTHER -> [st EXCEPT !.args = args]
    BY DEF PathNumber, args
  <2> HIDE DEF ops
  <2> QED
    BY <2>3, <2>4
<1> QED
  BY <1>2, <1>3 DEF PathItem

(* What is parsed of a path is a sequence of operations.                   *)
LEMMA ScanPathGood ==
    ASSUME NEW text, IsSeq(text) PROVE GoodPath(ParsePath(text))
<1> DEFINE items == PathItems(text)
           n == Len(items)
           A == {Atof(items[k]) : k \in 1..n}
           V == Scans(A)
           G == [k \in 1..n |-> [st \in V |-> PathItem(st, items[k])]]
           first == [code |-> "none", args |-> <<>>, ops |-> <<>>, fault |-> FALSE]
           IsScan(g) ==
              g = [i \in 0..n |-> IF i = 0 THEN first ELSE PathItem(g[i - 1], items[i])]
           scan == CHOOSE g : IsScan(g)
<1>1. n \in Nat
  BY PathItemsIsSeq, SeqDomain
<1>2. ScanPath(text) = scan[n]
  BY DEF ScanPath
<1> HIDE DEF items
<1>3. first \in V
  BY DEF Scans, Codes
<1>4. ASSUME NEW k \in 1..n, NEW st \in V PROVE PathItem(st, items[k]) \in V
  <2>1. Atof(items[k]) \in A
    OBVIOUS
  <2> HIDE DEF A
  <2> QED
    BY <2>1, PathItemScans
<1> HIDE DEF V, first
<1>5. IsSteps(n, V, first, G)
  <2> HIDE DEF n
  <2> QED
    BY <1>1, <1>3, <1>4 DEF IsSteps
<1>6. PICK f : Steps(f, n, V, first, G)
  <2> HIDE DEF n, G
  <2> QED
    BY <1>5, StepRecursion
<1>7. /\ f \in [0..n -> V] /\ f[0] = first
      /\ \A k \in 1..n : f[k] = PathItem(f[k - 1], items[k])
  <2>1. \A k \in 1..n : \A st \in V : G[k][st] = PathItem(st, items[k])
    OBVIOUS
  <2> HIDE DEF G
  <2> QED
    BY <1>6, <2>1 DEF Steps
<1>8. \E g : IsScan(g)
  <2>1. \A i \in 0..n : f[i] = IF i = 0 THEN first ELSE PathItem(f[i - 1], items[i])
    BY <1>7
  <2>2. f = [i \in 0..n |-> f[i]]
    BY <1>7
  <2>3. IsScan(f)
    BY <2>1, <2>2
  <2> HIDE DEF IsScan
  <2> QED
    BY <2>3
<1>9. IsScan(scan)
  <2> HIDE DEF IsScan
  <2> QED
    BY <1>8
<1> HIDE DEF scan
<1>10. 0..n \subseteq {i \in 0..n : scan[i] \in V}
  <2> DEFINE T == {i \in 0..n : scan[i] \in V}
  <2>1. 0 \in T
    BY <1>1, <1>3, <1>9
  <2>2. ASSUME NEW i \in 1..n, i - 1 \in T PROVE i \in T
    <3>1. i \in 0..n /\ i # 0 /\ scan[i - 1] \in V
      BY <2>2
    <3>2. scan[i] = PathItem(scan[i - 1], items[i])
      BY <1>9, <3>1
    <3>3. scan[i] \in V
      BY <1>4, <3>1, <3>2
    <3> QED
      BY <3>1, <3>3
  <2> HIDE DEF T, n
  <2>3. 0..n \subseteq T
    BY <1>1, <2>1, <2>2, Upwards
  <2> QED
    BY <2>3 DEF T
<1>11. ScanPath(text) \in V
  BY <1>1, <1>2, <1>10
<1>12. ParsePath(text) \in Seq(OpsOf(A))
  BY <1>11 DEF ParsePath, V, Scans
<1> HIDE DEF A
<1>13. \A op \in OpsOf(A) : op = Op(op.code, op.args) /\ IsSeq(op.args)
  BY SeqOfAny DEF OpsOf, Op
<1>14. IsSeq(ParsePath(text)) /\ \A i \in DOMAIN ParsePath(text) : ParsePath(text)[i] \in OpsOf(A)
  BY <1>12, SeqOfAny
<1> QED
  BY <1>13, <1>14 DEF GoodPath

(* What is parsed of a list of points is a sequence.                       *)
LEMMA ParsePointsIsSeq ==
    ASSUME NEW text, IsSeq(text) PROVE IsSeq(ParsePoints(text))
<1> DEFINE items == PathItems(text)
           n == Len(items)
<1>1. n \in Nat /\ DOMAIN items = 1..n
  BY PathItemsIsSeq, SeqDomain
<1>2. ParsePoints(text) = [i \in 1..n |-> Atof(items[i])]
  BY <1>1 DEF ParsePoints
<1> HIDE DEF n, items
<1>3. ParsePoints(text) = [i \in 1..n |-> ParsePoints(text)[i]]
  BY <1>2
<1> QED
  BY <1>1, <1>3, SeqMade

-----------------------------------------------------------------------------
(* The declarations of a style attribute *)

(* Find and Skip go no further than one behind the text.                   *)
LEMMA FindWithin ==
    ASSUME NEW text, Len(text) \in Nat, NEW i \in 1..(Len(text) + 1), NEW kinds
    PROVE  /\ Find(text, i, kinds) \in i..(Len(text) + 1)
           /\ Skip(text, i, kinds) \in i..(Len(text) + 1)
<1> DEFINE n == Len(text)
           T == {j \in i..n : text[j].kind \in kinds} \union {n + 1}
           U == {j \in i..n : text[j].kind \notin kinds} \union {n + 1}
<1>1. /\ T \subseteq i..(n + 1) /\ T # {} /\ T \in SUBSET Nat
      /\ U \subseteq i..(n + 1) /\ U # {} /\ U \in SUBSET Nat
  OBVIOUS
<1>2. Find(text, i, kinds) = Min(T) /\ Skip(text, i, kinds) = Min(U)
  BY DEF Find, Skip
<1> HIDE DEF T, U
<1> QED
  BY <1>1, <1>2, MinIs

(* What is left of a text without the spaces at its end is a text.         *)
LEMMA TrimRightIsSeq ==
    ASSUME NEW text, IsSeq(text) PROVE IsSeq(TrimRight(text))
<1> DEFINE T == {i \in DOMAIN text : text[i].kind # " "} \union {0}
<1>1. Len(text) \in Nat /\ T \subseteq 0..Len(text) /\ T # {}
  <2>1. Len(text) \in Nat /\ DOMAIN text = 1..Len(text)
    BY SeqDomain
  <2>2. T \subseteq 0..Len(text)
    <3>1. \A i \in T : i \in 1..Len(text) \/ i = 0
      BY <2>1
    <3> HIDE DEF T
    <3> QED
      BY <2>1, <3>1
  <2>3. 0 \in T
    OBVIOUS
  <2> QED
    BY <2>1, <2>2, <2>3
<1>2. TrimRight(text) = SubSeq(text, 1, Max(T))
  BY DEF TrimRight
<1> HIDE DEF T
<1>3. Max(T) \in 0..Len(text)
  BY <1>1, MaxIs
<1> QED
  BY <1>2, <1>3, SeqPart

(* One declaration: a name and a text, if it is one.                       *)
IsPart(part) == part = <<part[1], part[2]>> /\ IsSeq(part[2])

(* A declaration of a style list is an attribute and its text, or nothing; *)
LEMMA DeclarationGood ==
    ASSUME NEW text, IsSeq(text)
    PROVE  Declaration(text) = <<>> \/ \E part : IsPart(part) /\ Declaration(text) = <<part>>
<1> DEFINE colon == Find(text, 1, {":"})
           name == TrimRight(SubSeq(text, 1, colon - 1))
           from == Skip(text, colon, {":", " "})
           rest == SubSeq(text, from, Len(text))
           part == <<name[1].kind, rest>>
<1>1. Len(text) \in Nat /\ 1 \in 1..(Len(text) + 1)
  BY SeqDomain
<1>2. colon \in 1..(Len(text) + 1)
  BY <1>1, FindWithin
<1> HIDE DEF colon
<1>3. from \in Int
  <2>1. from \in colon..(Len(text) + 1)
    BY <1>1, <1>2, FindWithin
  <2> HIDE DEF from
  <2> QED
    BY <2>1
<1> HIDE DEF from
<1>4. IsSeq(rest)
  <2>1. PICK a, b : a = from /\ b = Len(text)
    OBVIOUS
  <2>2. IsSeq(SubSeq(text, a, b))
    <3>1. a \in Int /\ b \in Int
      BY <2>1, <1>1, <1>3
    <3> QED
      BY ONLY <3>1, IsSeq(text), SeqPart
  <2> QED
    BY <2>1, <2>2
<1>5. Declaration(text) = IF Len(name) = 1 THEN <<part>> ELSE <<>>
  BY DEF Declaration, colon, from
<1> HIDE DEF name, rest
<1>6. IsPart(part)
  BY <1>4 DEF IsPart
<1> HIDE DEF part
<1> QED
  BY <1>5, <1>6

(* so the list is a sequence of these.                                     *)
LEMMA DeclarationsGood ==
    ASSUME NEW text, IsSeq(text)
    PROVE  /\ IsSeq(Declarations(text))
           /\ \A i \in DOMAIN Declarations(text) : IsPart(Declarations(text)[i])
<1> DEFINE n == Len(text)
           from(i) == Skip(text, i, Space)
           to(i) == Find(text, from(i), {";"})
           item(i) == TrimRight(SubSeq(text, from(i), to(i) - 1))
           bare(i) == /\ Find(item(i), 1, {":"}) > Len(item(i))
                      /\ to(i) <= Len(text)
                      /\ Len(item(i)) = to(i) - from(i)
           own(i) == IF bare(i) THEN <<>> ELSE Declaration(item(i))
           IsList(g) ==
              g = [i \in 1..(n + 2) |->
                      IF i > n THEN <<>> ELSE own(i) \o g[to(i) + 1]]
           list == CHOOSE g : IsList(g)
           S == UNION {Range(own(i)) : i \in 1..n}
           V == Seq(S)
           c == n + 1
           left == [s \in 1..c |-> IF s = 1 THEN 0 ELSE n + 1 - to(n + 2 - s)]
           G == [s \in 1..c |-> [v \in V |-> IF s = 1 THEN <<>> ELSE own(n + 2 - s) \o v]]
           none == <<>>
<1>1. Declarations(text) = list[1]
  BY DEF Declarations
<1>2. n \in Nat /\ c \in Nat
  BY SeqDomain
<1>3. ASSUME NEW i \in 1..n PROVE to(i) \in i..(n + 1) /\ from(i) \in i..(n + 1)
  <2>1. from(i) \in i..(n + 1)
    BY <1>2, FindWithin
  <2>2. from(i) \in 1..(n + 1)
    BY <1>2, <2>1
  <2> HIDE DEF from
  <2>3. to(i) \in from(i)..(n + 1)
    BY <1>2, <2>2, FindWithin
  <2> HIDE DEF to
  <2> QED
    BY <1>2, <2>1, <2>3
<1>4. ASSUME NEW i \in 1..n
      PROVE  own(i) = <<>> \/ \E part : IsPart(part) /\ own(i) = <<part>>
  <2>1. from(i) \in Int /\ to(i) - 1 \in Int
    <3> HIDE DEF from, to
    <3> QED
      BY <1>2, <1>3
  <2> HIDE DEF from, to
  <2>2. IsSeq(item(i))
    BY <2>1, SeqPart, TrimRightIsSeq
  <2> HIDE DEF item, bare
  <2> QED
    BY <2>2, DeclarationGood
<1> HIDE DEF from, to, item, bare, own
<1>5. \A i \in 1..n : Range(own(i)) \subseteq S /\ own(i) \in Seq(Range(own(i)))
  <2> TAKE i \in 1..n
  <2>1. IsSeq(own(i))
    <3>1. \A part : <<part>> \in Seq({part})
      OBVIOUS
    <3>2. <<>> \in Seq({})
      OBVIOUS
    <3>3. \A part : IsSeq(<<part>>)
      BY <3>1, SeqOfAny
    <3>4. IsSeq(<<>>)
      BY <3>2, SeqOfAny
    <3> QED
      BY <1>4, <3>3, <3>4
  <2>2. Range(own(i)) \subseteq S
    OBVIOUS
  <2> HIDE DEF S
  <2> QED
    BY <2>1, <2>2 DEF IsSeq
<1>6. \A p \in S : IsPart(p)
  <2> TAKE p \in S
  <2>1. PICK i \in 1..n : p \in Range(own(i))
    OBVIOUS
  <2>2. \E part : IsPart(part) /\ own(i) = <<part>>
    BY <1>4, <2>1 DEF Range
  <2> QED
    BY <2>1, <2>2 DEF Range
<1> HIDE DEF S
<1>7. none \in V /\ \A i \in 1..n : own(i) \in V
  BY <1>5, SeqMonotonic
<1>8. \A u, v \in V : u \o v \in V
  OBVIOUS
<1> HIDE DEF V
<1>9. IsChain(c, left, V, none, G)
  <2>1. ASSUME NEW s \in 1..c PROVE left[s] \in Nat /\ left[s] < s
    <3>1. CASE s = 1
      BY <3>1
    <3>2. CASE s # 1
      <4>1. n + 2 - s \in 1..n
        BY <1>2, <3>2
      <4>2. to(n + 2 - s) \in (n + 2 - s)..(n + 1)
        BY <1>3, <4>1
      <4>3. left[s] = n + 1 - to(n + 2 - s)
        BY <3>2
      <4> HIDE DEF left
      <4> QED
        BY <1>2, <4>2, <4>3
    <3> QED
      BY <3>1, <3>2
  <2>2. left \in [1..c -> Nat]
    BY <2>1
  <2>3. ASSUME NEW s \in 1..c, NEW v \in V
        PROVE  (IF s = 1 THEN <<>> ELSE own(n + 2 - s) \o v) \in V
    <3>1. s # 1 => n + 2 - s \in 1..n
      BY <1>2
    <3> HIDE DEF n
    <3> QED
      BY <1>7, <1>8, <3>1
  <2>4. G \in [1..c -> [V -> V]]
    <3> HIDE DEF c, n
    <3> QED
      BY <2>3
  <2> HIDE DEF left, G, c
  <2> QED
    BY <1>2, <1>7, <2>1, <2>2, <2>4 DEF IsChain
<1>10. PICK f : Follows(f, c, left, V, none, G)
  <2> HIDE DEF c, left, G, none
  <2> QED
    BY <1>9, ChainRecursion
<1>11. /\ f \in [0..c -> V]
       /\ f[0] = <<>>
       /\ \A s \in 1..c : f[s] = IF s = 1 THEN <<>>
              ELSE own(n + 2 - s) \o f[n + 1 - to(n + 2 - s)]
  <2>1. /\ f \in [0..c -> V]
        /\ \A s \in 0..c : f[s] = IF s = 0 THEN <<>> ELSE G[s][f[left[s]]]
    BY <1>10 DEF Follows
  <2>2. f[0] = <<>>
    <3>1. 0 \in 0..c
      BY <1>2
    <3> HIDE DEF G, left, c
    <3> QED
      BY <2>1, <3>1
  <2>3. ASSUME NEW s \in 1..c
        PROVE  f[s] = IF s = 1 THEN <<>> ELSE own(n + 2 - s) \o f[n + 1 - to(n + 2 - s)]
    <3>1. s \in 0..c /\ s # 0 /\ left[s] \in 0..c
      <4>1. left[s] \in Nat /\ left[s] < s
        BY <1>9 DEF IsChain
      <4> HIDE DEF left
      <4> QED
        BY <1>2, <4>1
    <3>2. f[s] = G[s][f[left[s]]] /\ f[left[s]] \in V
      <4> HIDE DEF G, left, c
      <4> QED
        BY <2>1, <3>1
    <3>3. \A v \in V : G[s][v] = IF s = 1 THEN <<>> ELSE own(n + 2 - s) \o v
      OBVIOUS
    <3>4. left[s] = IF s = 1 THEN 0 ELSE n + 1 - to(n + 2 - s)
      OBVIOUS
    <3> HIDE DEF G, left, c, n
    <3> QED
      BY <3>2, <3>3, <3>4
  <2> QED
    BY <2>1, <2>2, <2>3
<1>12. \E g : IsList(g)
  <2> DEFINE g == [i \in 1..(n + 2) |-> f[n + 2 - i]]
  <2>1. ASSUME NEW i \in 1..(n + 2)
        PROVE  g[i] = IF i > n THEN <<>> ELSE own(i) \o g[to(i) + 1]
    <3>1. CASE i > n
      <4>1. i = n + 1 \/ i = n + 2
        BY <1>2, <3>1
      <4>2. f[n + 2 - i] = <<>>
        BY <1>2, <1>11, <4>1
      <4> QED
        BY <3>1, <4>2
    <3>2. CASE i <= n
      <4> DEFINE s == n + 2 - i
      <4>1. s \in 1..c /\ s # 1 /\ n + 2 - s = i /\ i \in 1..n
        BY <1>2, <3>2
      <4>2. to(i) \in i..(n + 1)
        BY <1>3, <4>1
      <4>3. to(i) + 1 \in 1..(n + 2) /\ n + 2 - (to(i) + 1) = n + 1 - to(i)
        BY <1>2, <4>2
      <4>4. g[to(i) + 1] = f[n + 1 - to(i)]
        BY <4>3
      <4>5. g[i] = f[s]
        OBVIOUS
      <4>6. f[s] = own(i) \o f[n + 1 - to(i)]
        <5> HIDE DEF s, c
        <5> QED
          BY <1>11, <4>1
      <4>7. ~ (i > n)
        BY <1>2, <3>2
      <4> HIDE DEF g, s
      <4> QED
        BY <4>4, <4>5, <4>6, <4>7
    <3> QED
      BY <1>2, <3>1, <3>2
  <2>2. g = [i \in 1..(n + 2) |-> g[i]]
    OBVIOUS
  <2> HIDE DEF g
  <2>3. IsList(g)
    BY <2>1, <2>2
  <2> HIDE DEF IsList
  <2> QED
    BY <2>3
<1>13. IsList(list)
  <2> HIDE DEF IsList
  <2> QED
    BY <1>12
<1> HIDE DEF list
<1>14. 0..c \subseteq {s \in 0..c : \A j \in 0..s : list[n + 2 - j] \in V}
  <2> DEFINE T == {s \in 0..c : \A j \in 0..s : list[n + 2 - j] \in V}
  <2>1. 0 \in T
    <3>1. list[n + 2] = <<>>
      BY <1>2, <1>13
    <3>2. \A j \in 0..0 : n + 2 - j = n + 2
      BY <1>2
    <3> QED
      BY <1>2, <1>7, <3>1, <3>2
  <2>2. ASSUME NEW s \in 1..c, s - 1 \in T PROVE s \in T
    <3> DEFINE i == n + 2 - s
    <3>1. i \in 1..(n + 1) /\ i \in 1..(n + 2)
      BY <1>2
    <3>2. \A j \in 0..(s - 1) : list[n + 2 - j] \in V
      BY <2>2
    <3>3. list[i] \in V
      <4>1. CASE i > n
        <5> HIDE DEF i
        <5> QED
          BY <1>7, <1>13, <3>1, <4>1
      <4>2. CASE i <= n
        <5>1. i \in 1..n
          BY <1>2, <3>1, <4>2
        <5>2. to(i) \in i..(n + 1)
          BY <1>3, <5>1
        <5>3. n + 1 - to(i) \in 0..(s - 1) /\ n + 2 - (n + 1 - to(i)) = to(i) + 1
          BY <1>2, <5>2
        <5>4. list[to(i) + 1] \in V
          BY <3>2, <5>3
        <5>5. list[i] = own(i) \o list[to(i) + 1]
          <6>1. ~ (i > n)
            BY <1>2, <4>2
          <6> HIDE DEF i
          <6> QED
            BY <1>13, <3>1, <6>1
        <5> HIDE DEF i
        <5> QED
          BY <1>7, <1>8, <5>1, <5>4, <5>5
      <4> QED
        BY <1>2, <4>1, <4>2
    <3>4. \A j \in 0..s : j \in 0..(s - 1) \/ j = s
      OBVIOUS
    <3>5. s \in 0..c
      OBVIOUS
    <3> QED
      BY <3>2, <3>3, <3>4, <3>5
  <2> HIDE DEF T, c
  <2>3. 0..c \subseteq T
    BY <1>2, <2>1, <2>2, Upwards
  <2> QED
    BY <2>3 DEF T
<1>15. list[1] \in V
  <2>1. c \in 0..c /\ n + 2 - c = 1
    BY <1>2
  <2> QED
    BY <1>14, <2>1
<1>16. list[1] \in Seq(S)
  BY <1>15 DEF V
<1>17. \A i \in DOMAIN list[1] : list[1][i] \in S
  BY <1>16
<1> QED
  BY <1>1, <1>6, <1>16, <1>17, SeqOfAny

-----------------------------------------------------------------------------
(* Values whose records refer to the arrays *)

GoodColor(v) ==
    /\ v = [type |-> v.type, word |-> v.word, name |-> v.name]
    /\ v.type \in {"none", "rgba", "url"}
    /\ IsSeq(v.name)
    /\ NameLen(v.name) \in Nat
    /\ v.type # "url" => v.name = <<>>

GoodValue(a, v) ==
    /\ AttrType(a) = "id" => IsSeq(v) /\ NameLen(v) \in Nat
    /\ AttrType(a) = "color" => GoodColor(v)
    /\ AttrType(a) = "points" => IsSeq(v)
    /\ AttrType(a) = "path" => GoodPath(v)

(* What is needed of the text of an attribute.                             *)
GoodText(a, text) ==
    /\ AttrType(a) \in {"id", "points", "path"} => IsSeq(text)
    /\ AttrType(a) = "id" => NameLen(text) \in Nat
    /\ AttrType(a) = "color" => NameLen(ParseColor(text).name) \in Nat

(* A name has a length. *)
LEMMA NameHasLength == ASSUME NEW name, IsName(name) PROVE IsSeq(name) /\ NameLen(name) \in Nat
<1>1. CASE name = <<>>
  BY <1>1, EmptyIsSeq DEF NameLen
<1>2. CASE name = <<name[1]>> /\ name[1].number \in Nat
  <2>1. PICK x : x = name[1]
    OBVIOUS
  <2>2. name = <<x>> /\ x.number \in Nat
    BY <1>2, <2>1
  <2>3. IsSeq(<<x>>) /\ <<x>> # <<>> /\ <<x>>[1] = x
    BY OneSeq
  <2> QED
    BY <2>2, <2>3 DEF NameLen
<1> QED
  BY <1>1, <1>2 DEF IsName

(* An attribute of the source has such a text.                             *)
LEMMA SourceGood ==
    ASSUME NEW t \in Texts
    PROVE  /\ IsSeq(Parts(t[1], t[2]))
           /\ \A i \in DOMAIN Parts(t[1], t[2]) :
                /\ Parts(t[1], t[2])[i] = <<Parts(t[1], t[2])[i][1], Parts(t[1], t[2])[i][2]>>
                /\ Parts(t[1], t[2])[i][1] \in AttrNames =>
                      /\ IsSeq(Parts(t[1], t[2])[i][2])
                      /\ TextKnown(Parts(t[1], t[2])[i][1], Parts(t[1], t[2])[i][2])
                      /\ GoodText(Parts(t[1], t[2])[i][1], Parts(t[1], t[2])[i][2])
<1> DEFINE parts == Parts(t[1], t[2])
<1>1. IsSeq(t[2])
  BY TextsAssumption DEF IsSeq
<1>2. IsSeq(parts) /\ \A i \in DOMAIN parts : IsPart(parts[i])
  <2>1. CASE t[1] = "style"
    <3>1. parts = Declarations(t[2])
      BY <2>1 DEF Parts
    <3> QED
      BY <1>1, <3>1, DeclarationsGood
  <2>2. CASE t[1] # "style"
    <3>1. parts = <<<<t[1], t[2]>>>>
      BY <2>2 DEF Parts
    <3>2. IsSeq(parts) /\ DOMAIN parts = {1}
      <4> DEFINE part == <<t[1], t[2]>>
      <4> HIDE DEF part
      <4>1. <<part>> \in Seq({part}) /\ DOMAIN <<part>> = {1}
        OBVIOUS
      <4>2. parts = <<part>>
        BY <3>1 DEF part
      <4> QED
        BY <4>1, <4>2, SeqOfAny
    <3>3. IsPart(parts[1])
      BY <1>1, <3>1 DEF IsPart
    <3> QED
      BY <3>2, <3>3
  <2> QED
    BY <2>1, <2>2
<1>3. ASSUME NEW i \in DOMAIN parts
      PROVE  TextKnown(parts[i][1], parts[i][2])
  <2>1. parts[i] \in Range(parts)
    BY DEF Range
  <2> QED
    BY <2>1, TextsAssumption
<1> HIDE DEF parts
<1>4. ASSUME NEW i \in DOMAIN parts
      PROVE  /\ parts[i] = <<parts[i][1], parts[i][2]>>
             /\ parts[i][1] \in AttrNames =>
                   /\ IsSeq(parts[i][2])
                   /\ TextKnown(parts[i][1], parts[i][2])
                   /\ GoodText(parts[i][1], parts[i][2])
  BY <1>2, <1>3, NameHasLength DEF IsPart, GoodText, TextKnown
<1> QED
  BY <1>2, <1>4 DEF parts

(* The empty sequence is one.                                              *)
LEMMA NoSeq == IsSeq(<<>>) /\ Len(<<>>) = 0 /\ NameLen(<<>>) = 0
<1>1. <<>> \in Seq({})
  OBVIOUS
<1> QED
  BY <1>1, SeqOfAny DEF NameLen

(* The colours of the parser.                                              *)
PlainColor(v) == v = NoColor \/ \E word : v = Rgba(word)

(* Colours that are not names.                                             *)
LEMMA PlainColorGood == ASSUME NEW v, PlainColor(v) PROVE GoodColor(v)
<1>1. /\ v.name = <<>> /\ v.type \in {"none", "rgba"}
      /\ v = [type |-> v.type, word |-> v.word, name |-> v.name]
  BY DEF PlainColor, NoColor, Rgba
<1> QED
  BY <1>1, NoSeq DEF GoodColor

(* What the parser makes of a colour: the name of a url, in what it may be *)
(* given, or else a colour without a name.                                 *)
LEMMA ParseColorCases ==
    ASSUME NEW text
    PROVE  LET str == SubSeq(text, Skip(text, 1, Space), Len(text))
           IN  \/ PlainColor(ParseColor(text))
               \/ /\ At(str, 1).kind = "url(#"
                  /\ ParseColor(text) = ParseColorUrl(str)
<1> DEFINE str == SubSeq(text, Skip(text, 1, Space), Len(text))
<1> HIDE DEF str
<1>1. \A w : PlainColor(Rgba(w))
  BY DEF PlainColor
<1>2. PlainColor(NoColor)
  BY DEF PlainColor
<1>3. \A r, g, b : PlainColor(Rgb(r, g, b))
  BY <1>1 DEF Rgb
<1>4. \A k : PlainColor(NamedColor(k))
  BY <1>3 DEF NamedColor
<1>5. PlainColor(ParseColorHex(str[1]))
  <2>1. PICK t : t = str[1]
    OBVIOUS
  <2>2. CASE t.number = 6
    BY <1>1, <2>1, <2>2 DEF ParseColorHex
  <2>3. CASE t.number = 3
    BY <1>1, <2>1, <2>3 DEF ParseColorHex
  <2>4. CASE t.number # 6 /\ t.number # 3
    BY <1>3, <2>1, <2>4 DEF ParseColorHex
  <2> QED
    BY <2>2, <2>3, <2>4
<1>6. PlainColor(ParseColorRgb(str))
  BY <1>3 DEF ParseColorRgb
<1>7. \/ PlainColor(ParseColor(text))
      \/ At(str, 1).kind = "url(#" /\ ParseColor(text) = ParseColorUrl(str)
  <2>1. ParseColor(text) =
          CASE str = <<Mark("none")>> -> NoColor
            [] At(str, 1).kind = "url(#" -> ParseColorUrl(str)
            [] At(str, 1).kind = "#" -> ParseColorHex(str[1])
            [] At(str, 1).kind = "rgb(" -> ParseColorRgb(str)
            [] OTHER -> NamedColor(At(str, 1).kind)
    BY DEF ParseColor, str
  <2> QED
    BY <1>2, <1>4, <1>5, <1>6, <2>1
<1> QED
  BY <1>7 DEF str

(* The name of a url is a token, or there is none.                         *)
UrlName(text) ==
    IF At(text, 2).number = 0 THEN <<>>
    ELSE <<Name(At(text, 2).kind, Min({At(text, 2).number, 127}))>>

LEMMA UrlNameIs ==
    ASSUME NEW text
    PROVE  ParseColorUrl(text) = Url(UrlName(text)) /\ IsSeq(UrlName(text))
<1>1. ParseColorUrl(text) = Url(UrlName(text))
  BY DEF ParseColorUrl, UrlName
<1>2. IsSeq(UrlName(text))
  BY OneSeq, EmptyIsSeq DEF UrlName
<1> QED
  BY <1>1, <1>2

(* A parsed colour is one, if the length of its name is known.             *)
LEMMA ParsedColorGood ==
    ASSUME NEW text, NameLen(ParseColor(text).name) \in Nat
    PROVE  GoodColor(ParseColor(text))
<1> DEFINE v == ParseColor(text)
<1>1. CASE PlainColor(v)
  BY <1>1, PlainColorGood
<1>2. CASE \E x : v = Url(x) /\ IsSeq(x)
  <2>1. PICK x : v = Url(x) /\ IsSeq(x)
    BY <1>2
  <2>2. v.name = x /\ v.type = "url" /\ v = [type |-> v.type, word |-> v.word, name |-> v.name]
    BY <2>1 DEF Url
  <2> HIDE DEF v
  <2>3. NameLen(v.name) \in Nat
    BY DEF v
  <2>4. IsSeq(v.name)
    BY <2>1, <2>2
  <2>5. GoodColor(v)
    BY <2>2, <2>3, <2>4 DEF GoodColor
  <2> QED
    BY <2>5 DEF v
<1> QED
  BY <1>1, <1>2, ParseColorCases, UrlNameIs

(* What is read of an attribute as text is a value of its type.            *)
LEMMA ParsedGood ==
    ASSUME NEW a \in AttrNames, NEW text, GoodText(a, text)
    PROVE  GoodValue(a, ParseText(a, text))
<1>1. CASE AttrType(a) = "id"
  <2>1. ParseText(a, text) = text
    BY <1>1 DEF ParseText
  <2> QED
    BY <1>1, <2>1 DEF GoodText, GoodValue
<1>2. CASE AttrType(a) = "color"
  <2>1. ParseText(a, text) = ParseColor(text)
    BY <1>2 DEF ParseText
  <2> QED
    BY <1>2, <2>1, ParsedColorGood DEF GoodText, GoodValue
<1>3. CASE AttrType(a) = "points"
  <2>1. ParseText(a, text) = ParsePoints(text)
    BY <1>3 DEF ParseText
  <2> QED
    BY <1>3, <2>1, ParsePointsIsSeq DEF GoodText, GoodValue
<1>4. CASE AttrType(a) = "path"
  <2>1. ParseText(a, text) = ParsePath(text)
    BY <1>4 DEF ParseText
  <2> QED
    BY <1>4, <2>1, ScanPathGood DEF GoodText, GoodValue
<1> QED
  BY <1>1, <1>2, <1>3, <1>4 DEF GoodValue

-----------------------------------------------------------------------------
(* What is written is read again as a value of its type: in text *)

(* Numbers with marks between them are a sequence,                         *)
LEMMA ListedIsSeq ==
    ASSUME NEW v, IsSeq(v), NEW marks
    PROVE  IsSeq(FlattenSeq([i \in DOMAIN v |->
              (IF i = 1 THEN <<>> ELSE <<marks[i]>>) \o <<Num(Shown(v[i]))>>]))
<1> DEFINE q == [i \in DOMAIN v |->
              (IF i = 1 THEN <<>> ELSE <<marks[i]>>) \o <<Num(Shown(v[i]))>>]
<1>1. Len(v) \in Nat /\ DOMAIN v = 1..Len(v)
  BY SeqDomain
<1>2. IsSeq(q) /\ DOMAIN q = DOMAIN v
  BY <1>1, SeqMade
<1>3. ASSUME NEW i \in DOMAIN q PROVE IsSeq(q[i])
  <2> DEFINE mark == IF i = 1 THEN <<>> ELSE <<marks[i]>>
             number == <<Num(Shown(v[i]))>>
  <2>1. IsSeq(mark) /\ IsSeq(number)
    BY OneSeq, NoSeq
  <2>2. q[i] = mark \o number
    BY <1>2
  <2> HIDE DEF mark, number, q
  <2> QED
    BY <2>1, <2>2, SeqJoined
<1> HIDE DEF q
<1>4. IsSeq(FlattenSeq(q))
  BY <1>2, <1>3, FlattenIsSeq
<1> QED
  BY <1>4 DEF q

(* as are points that are written,                                         *)
LEMMA WritePointsIsSeq ==
    ASSUME NEW v, IsSeq(v) PROVE IsSeq(WritePoints(v))
<1> DEFINE marks == [i \in DOMAIN v |-> IF i % 2 = 0 THEN Mark(",") ELSE Mark(" ")]
           q == [i \in DOMAIN v |-> (IF i = 1 THEN <<>> ELSE <<marks[i]>>) \o <<Num(Shown(v[i]))>>]
<1>1. WritePoints(v) = FlattenSeq(q)
  BY DEF WritePoints, Listed
<1> HIDE DEF marks
<1> QED
  BY <1>1, ListedIsSeq

(* and paths.                                                              *)
LEMMA WritePathIsSeq ==
    ASSUME NEW v, GoodPath(v) PROVE IsSeq(WritePath(v))
<1> DEFINE letter(i) == IF i > 1 /\ v[i].code = v[i - 1].code THEN " " ELSE v[i].code
           q == [i \in DOMAIN v |-> <<Mark(letter(i))>> \o Listed(v[i].args, Comma)]
<1>1. WritePath(v) = FlattenSeq(q)
  BY DEF WritePath
<1>2. Len(v) \in Nat /\ DOMAIN v = 1..Len(v)
  BY SeqDomain DEF GoodPath
<1>3. IsSeq(q) /\ DOMAIN q = DOMAIN v
  BY <1>2, SeqMade
<1>4. ASSUME NEW i \in DOMAIN q PROVE IsSeq(q[i])
  <2> DEFINE args == v[i].args
             marks == [k \in DOMAIN args |-> Mark(",")]
             list == [k \in DOMAIN args |->
                        (IF k = 1 THEN <<>> ELSE <<marks[k]>>) \o <<Num(Shown(args[k]))>>]
             first == <<Mark(letter(i))>>
  <2>1. IsSeq(args)
    BY <1>3 DEF GoodPath
  <2>2. Listed(args, Comma) = FlattenSeq(list)
    BY DEF Listed, Comma
  <2>3. q[i] = first \o FlattenSeq(list)
    BY <1>3, <2>2
  <2>4. IsSeq(first)
    BY OneSeq
  <2> HIDE DEF first, args, marks, q
  <2>5. IsSeq(FlattenSeq(list))
    BY <2>1, ListedIsSeq
  <2> HIDE DEF list
  <2> QED
    BY <2>3, <2>4, <2>5, SeqJoined
<1> HIDE DEF q
<1>5. IsSeq(FlattenSeq(q))
  BY <1>3, <1>4, FlattenIsSeq
<1> QED
  BY <1>1, <1>5

(* The tokens of a colour that is a name, and of others. *)
Opening == Mark("url(#")
Closing == Mark(")")

(* The tokens for the marks are what they are called.                      *)
LEMMA OpeningIs == Opening.kind = "url(#" /\ Opening.kind \notin Space
  BY DEF Opening, Mark, Token, Space

(* The closing parenthesis.                                                *)
LEMMA ClosingIs == Closing.number \in Nat
  BY DEF Closing, Mark, Token

(* The number sign.                                                        *)
LEMMA HexIs ==
    ASSUME NEW digits, NEW word
    PROVE  Hex(digits, word).kind \notin Space /\ Hex(digits, word).kind # Opening.kind
  BY DEF Hex, Opening, Mark, Token, Space

(* The word for nothing.                                                   *)
LEMMA NoneIs == Mark("none").kind \notin Space /\ Mark("none").kind # Opening.kind
  BY DEF Opening, Mark, Token, Space

(* The text of a url begins with its mark, and a name or the end follows.  *)
LEMMA WrittenUrl ==
    ASSUME NEW name, IsSeq(name), NameLen(name) \in Nat,
           NEW text, text = <<Opening>> \o name \o <<Closing>>
    PROVE  /\ IsSeq(text) /\ Len(text) >= 2
           /\ text[1] = Opening
           /\ text[2].number \in Nat
<1> DEFINE open == <<Opening>>
           shut == <<Closing>>
           begin == open \o name
<1>1. /\ IsSeq(open) /\ Len(open) = 1 /\ open[1] = Opening
      /\ IsSeq(shut) /\ Len(shut) = 1 /\ shut[1] = Closing
  BY OneSeq
<1>2. JoinOf(begin, open, name) /\ JoinOf(text, begin, shut)
  <2>1. text = begin \o shut
    OBVIOUS
  <2> HIDE DEF open, shut
  <2>2. JoinOf(begin, open, name)
    BY <1>1, JoinIs
  <2>3. IsSeq(begin)
    BY <2>2 DEF JoinOf
  <2> HIDE DEF begin
  <2> QED
    BY <1>1, <2>1, <2>2, <2>3, JoinIs
<1> HIDE DEF open, shut, begin
<1>3. /\ Len(name) \in Nat
      /\ Len(begin) = 1 + Len(name)
      /\ begin[1] = Opening
      /\ Len(name) > 0 => begin[2] = name[1]
  <2>1. Len(name) \in Nat /\ 1 \in 1..1
    BY SeqDomain
  <2>2. /\ Len(begin) = Len(open) + Len(name)
        /\ \A i \in 1..Len(open) : begin[i] = open[i]
        /\ \A i \in 1..Len(name) : begin[Len(open) + i] = name[i]
    BY <1>2 DEF JoinOf
  <2>3. Len(begin) = 1 + Len(name) /\ begin[1] = Opening
    BY <1>1, <2>1, <2>2
  <2>4. ASSUME Len(name) > 0 PROVE begin[2] = name[1]
    <3>1. 1 \in 1..Len(name) /\ Len(open) + 1 = 2
      BY <1>1, <2>1, <2>4
    <3>2. begin[Len(open) + 1] = name[1]
      BY <2>2, <3>1
    <3> QED
      BY <3>1, <3>2
  <2> QED
    BY <2>1, <2>3, <2>4
<1>4. IsSeq(text) /\ Len(text) = Len(name) + 2
  <2>1. IsSeq(text) /\ Len(text) = Len(begin) + Len(shut)
    BY <1>2 DEF JoinOf
  <2>2. Len(text) = (1 + Len(name)) + 1
    BY <1>1, <1>3, <2>1
  <2>3. (1 + Len(name)) + 1 = Len(name) + 2
    BY <1>3
  <2> QED
    BY <2>1, <2>2, <2>3
<1>5. text[1] = Opening
  <2>1. 1 \in 1..Len(begin)
    BY <1>3
  <2> QED
    BY <1>2, <1>3, <2>1 DEF JoinOf
<1>6. text[2].number \in Nat
  <2>1. CASE Len(name) > 0
    <3>1. 2 \in 1..Len(begin)
      BY <1>3, <2>1
    <3>2. text[2] = name[1]
      BY <1>2, <1>3, <2>1, <3>1 DEF JoinOf
    <3>3. name # <<>>
      BY <2>1, NoSeq
    <3> QED
      BY <3>2, <3>3 DEF NameLen
  <2>2. CASE ~ (Len(name) > 0)
    <3>1. Len(begin) + 1 = 2 /\ 1 \in 1..Len(shut)
      BY <1>1, <1>3, <2>2
    <3>2. text[Len(begin) + 1] = shut[1]
      BY <1>2, <3>1 DEF JoinOf
    <3> QED
      BY <1>1, <3>1, <3>2, ClosingIs
  <2> QED
    BY <2>1, <2>2
<1>7. Len(text) >= 2
  BY <1>3, <1>4
<1> QED
  BY <1>4, <1>5, <1>6, <1>7

(* A text that does not begin with a space is all there is behind spaces.  *)
LEMMA SkipNothing ==
    ASSUME NEW text, IsSeq(text), Len(text) > 0, text[1].kind \notin Space
    PROVE  SubSeq(text, Skip(text, 1, Space), Len(text)) = text
<1> DEFINE T == {j \in 1..Len(text) : text[j].kind \notin Space} \union {Len(text) + 1}
<1>1. Len(text) \in Nat
  BY SeqDomain
<1>2. 1 \in T /\ T # {} /\ T \in SUBSET Nat /\ \A j \in T : 1 <= j
  <2>1. 1 \in T
    <3>1. 1 \in 1..Len(text)
      BY <1>1
    <3> QED
      BY <3>1
  <2>2. \A j \in T : j \in Nat /\ 1 <= j
    BY <1>1
  <2> HIDE DEF T
  <2> QED
    BY <2>1, <2>2
<1>3. Skip(text, 1, Space) = Min(T)
  BY DEF Skip
<1> HIDE DEF T
<1>4. Min(T) \in T /\ \A j \in T : Min(T) <= j
  BY <1>2, MinIs
<1>5. Skip(text, 1, Space) = 1
  <2>1. Min(T) \in Nat /\ Min(T) <= 1 /\ 1 <= Min(T)
    BY <1>2, <1>4
  <2> QED
    BY <1>3, <2>1
<1>6. SubSeq(text, 1, Len(text)) = text
  BY SubSeqFull DEF IsSeq
<1> QED
  BY <1>5, <1>6

(* What is written of a colour does not begin with a space.                *)
LEMMA WrittenColorText ==
    ASSUME NEW v, GoodColor(v), NEW text, text = WriteColor(v)
    PROVE  /\ IsSeq(text) /\ Len(text) > 0
           /\ text[1].kind \notin Space
           /\ text[1].kind = Opening.kind => text[2].number \in Nat
<1>1. CASE v.type = "url"
  <2>1. text = <<Opening>> \o v.name \o <<Closing>>
    BY <1>1 DEF WriteColor, Opening, Closing
  <2>2. IsSeq(v.name) /\ NameLen(v.name) \in Nat
    BY DEF GoodColor
  <2>3. /\ IsSeq(text) /\ Len(text) >= 2
        /\ text[1] = Opening
        /\ text[2].number \in Nat
    BY <2>1, <2>2, WrittenUrl
  <2>4. Len(text) > 0
    BY <2>3, SeqDomain
  <2> QED
    BY <2>3, <2>4, OpeningIs
<1>2. CASE v.type # "url"
  <2>1. PICK x : text = <<x>> /\ x.kind \notin Space /\ x.kind # Opening.kind
    <3>1. CASE v.type = "rgba"
      <4>1. text = <<Hex(Max({6} \union {i \div 4 + 1 : i \in v.word}), v.word)>>
        BY <3>1 DEF WriteColor
      <4>2. PICK x : x = Hex(Max({6} \union {i \div 4 + 1 : i \in v.word}), v.word)
        OBVIOUS
      <4>3. text = <<x>> /\ x.kind \notin Space /\ x.kind # Opening.kind
        BY <4>1, <4>2, HexIs
      <4> QED
        BY <4>3
    <3>2. CASE v.type = "none"
      <4>1. text = <<Mark("none")>>
        BY <3>2 DEF WriteColor
      <4> QED
        BY <4>1, NoneIs
    <3> QED
      BY <1>2, <3>1, <3>2 DEF GoodColor
  <2> QED
    BY <2>1, OneSeq
<1> QED
  BY <1>1, <1>2

(* So the length of the name is known that is parsed from it.              *)
LEMMA WrittenColorGood ==
    ASSUME NEW v, GoodColor(v) PROVE NameLen(ParseColor(WriteColor(v)).name) \in Nat
<1>1. PICK text : text = WriteColor(v)
  OBVIOUS
<1>2. CASE PlainColor(ParseColor(text))
  <2>1. ParseColor(text).name = <<>>
    BY <1>2 DEF PlainColor, NoColor, Rgba
  <2> QED
    BY <1>1, <2>1, NoSeq
<1>3. CASE ~ PlainColor(ParseColor(text))
  <2> DEFINE str == SubSeq(text, Skip(text, 1, Space), Len(text))
             second == At(str, 2)
             number == Min({second.number, 127})
  <2>1. /\ IsSeq(text) /\ Len(text) > 0
        /\ text[1].kind \notin Space
        /\ text[1].kind = Opening.kind => text[2].number \in Nat
    BY <1>1, WrittenColorText
  <2>2. str = text
    BY <2>1, SkipNothing
  <2>3. At(str, 1).kind = Opening.kind /\ ParseColor(text) = ParseColorUrl(str)
    BY <1>3, ParseColorCases, OpeningIs
  <2> HIDE DEF str
  <2>4. At(str, 1) = text[1]
    <3>1. 1 <= Len(text)
      BY <2>1, SeqDomain
    <3> QED
      BY <2>2, <3>1 DEF At
  <2>5. second.number \in Nat
    BY <2>1, <2>2, <2>3, <2>4 DEF At, Mark, Token
  <2>6. ParseColor(text).name =
            IF second.number = 0 THEN <<>> ELSE <<Name(second.kind, number)>>
    BY <2>3, UrlNameIs DEF Url, UrlName
  <2> HIDE DEF second
  <2>7. number \in Nat
    <3> DEFINE T == {second.number, 127}
    <3>1. T \in SUBSET Nat /\ T # {}
      BY <2>5
    <3> HIDE DEF T
    <3>2. Min(T) \in Nat
      BY <3>1, MinIs
    <3> QED
      BY <3>2 DEF T
  <2> HIDE DEF number
  <2>8. PICK x : x = Name(second.kind, number)
    OBVIOUS
  <2>9. x.number = number
    BY <2>8 DEF Name, Token
  <2>10. <<x>> # <<>> /\ <<x>>[1] = x
    OBVIOUS
  <2>11. NameLen(<<x>>) = number
    BY <2>9, <2>10 DEF NameLen
  <2> QED
    BY <1>1, <2>6, <2>7, <2>8, <2>11, NoSeq
<1> QED
  BY <1>2, <1>3

(* What is written as text is read as a value of its type.                 *)
LEMMA WrittenGood ==
    ASSUME NEW a \in AttrNames, NEW v, GoodValue(a, v)
    PROVE  GoodText(a, WriteText(a, v))
<1>1. CASE AttrType(a) = "id"
  <2>1. WriteText(a, v) = v
    BY <1>1 DEF WriteText
  <2> QED
    BY <1>1, <2>1 DEF GoodText, GoodValue
<1>2. CASE AttrType(a) = "color"
  <2>1. WriteText(a, v) = WriteColor(v)
    BY <1>2 DEF WriteText
  <2> QED
    BY <1>2, <2>1, WrittenColorGood DEF GoodText, GoodValue
<1>3. CASE AttrType(a) = "points"
  <2>1. WriteText(a, v) = WritePoints(v)
    BY <1>3 DEF WriteText
  <2> QED
    BY <1>3, <2>1, WritePointsIsSeq DEF GoodText, GoodValue
<1>4. CASE AttrType(a) = "path"
  <2>1. WriteText(a, v) = WritePath(v)
    BY <1>4 DEF WriteText
  <2> QED
    BY <1>4, <2>1, WritePathIsSeq DEF GoodText, GoodValue
<1> QED
  BY <1>1, <1>2, <1>3, <1>4 DEF GoodText

-----------------------------------------------------------------------------
(* And in the binary form *)

(* A sequence of numbers, wherever it is among the fields.                 *)
Holds(s, i, t) == \A k \in 1..Len(t) : s[i + k - 1] = t[k]

(* What is written of a list: how many numbers there are, and each.        *)
LEMMA CountedIs ==
    ASSUME NEW v, IsSeq(v)
    PROVE  /\ IsSeq(Counted(v))
           /\ Len(Counted(v)) = Len(v) + 1
           /\ Counted(v)[1] = Num(Len(v))
           /\ \A k \in 1..Len(v) : Counted(v)[k + 1] = Num(v[k])
<1> DEFINE first == <<Num(Len(v))>>
           rest == Numbers(v)
           all == Counted(v)
<1>1. Len(v) \in Nat /\ DOMAIN v = 1..Len(v)
  BY SeqDomain
<1>2. IsSeq(first) /\ Len(first) = 1 /\ first[1] = Num(Len(v))
  BY OneSeq
<1>3. rest = [i \in 1..Len(v) |-> Num(v[i])]
  BY <1>1 DEF Numbers
<1>4. rest = [i \in 1..Len(v) |-> rest[i]] /\ \A k \in 1..Len(v) : rest[k] = Num(v[k])
  BY <1>3
<1>5. all = first \o rest
  BY DEF Counted
<1> HIDE DEF first, rest, all
<1>6. IsSeq(rest) /\ Len(rest) = Len(v)
  BY <1>1, <1>4, SeqMade
<1>7. JoinOf(all, first, rest)
  BY <1>2, <1>5, <1>6, JoinIs
<1>8. /\ IsSeq(all) /\ Len(all) = Len(first) + Len(rest)
      /\ \A k \in 1..Len(first) : all[k] = first[k]
      /\ \A k \in 1..Len(rest) : all[Len(first) + k] = rest[k]
  BY <1>7 DEF JoinOf
<1>9. all[1] = Num(Len(v))
  <2>1. 1 \in 1..1
    OBVIOUS
  <2> QED
    BY <1>2, <1>8, <2>1
<1>10. \A k \in 1..Len(v) : all[k + 1] = Num(v[k])
  <2> TAKE k \in 1..Len(v)
  <2>1. all[Len(first) + k] = rest[k]
    BY <1>6, <1>8
  <2>2. Len(first) + k = k + 1
    BY <1>1, <1>2
  <2> QED
    BY <1>4, <2>1, <2>2
<1>11. Len(all) = Len(v) + 1
  BY <1>1, <1>2, <1>6, <1>8
<1> QED
  BY <1>8, <1>9, <1>10, <1>11 DEF all

(* It is read again as it was.                                             *)
LEMMA ReadCountedBack ==
    ASSUME NEW v, IsSeq(v), NEW s, NEW i \in Nat, Holds(s, i, Counted(v))
    PROVE  ReadCounted(s, i) = Read(v, i + 1 + Len(v))
<1>1. Len(v) \in Nat /\ v = [k \in 1..Len(v) |-> v[k]]
  BY SeqDomain
<1>2. \A k \in 1..(Len(v) + 1) : s[i + k - 1] = Counted(v)[k]
  BY CountedIs DEF Holds
<1>3. s[i] = Num(Len(v))
  <2>1. 1 \in 1..(Len(v) + 1) /\ i + 1 - 1 = i
    BY <1>1
  <2>2. s[i + 1 - 1] = Counted(v)[1]
    BY <1>2, <2>1
  <2> QED
    BY <2>1, <2>2, CountedIs
<1>4. \A k \in 1..Len(v) : s[(i + 1) + k - 1].number = v[k]
  <2> TAKE k \in 1..Len(v)
  <2>1. k + 1 \in 1..(Len(v) + 1) /\ i + (k + 1) - 1 = (i + 1) + k - 1
    BY <1>1
  <2>2. s[(i + 1) + k - 1] = Counted(v)[k + 1]
    BY <1>2, <2>1
  <2>3. Counted(v)[k + 1] = Num(v[k])
    BY CountedIs
  <2> QED
    BY <2>2, <2>3 DEF Num, Token
<1>5. s[i].number = Len(v)
  BY <1>3 DEF Num, Token
<1>6. Fields(s, i + 1, Len(v)) = v
  <2>1. Fields(s, i + 1, Len(v)) = [k \in 1..Len(v) |-> s[(i + 1) + k - 1].number]
    BY DEF Fields
  <2> QED
    BY <1>1, <1>4, <2>1
<1> QED
  BY <1>5, <1>6 DEF ReadCounted

(* A value that was counted holds what was read.                           *)
LEMMA HoldsItself == ASSUME NEW t, IsSeq(t) PROVE Holds(t, 1, t)
<1>1. \A k \in 1..Len(t) : 1 + k - 1 = k
  BY SeqDomain
<1> QED
  BY <1>1 DEF Holds

(* The fields of the operations of a path. *)
OpFields(v) == [i \in DOMAIN v |-> <<Mark(v[i].code)>> \o Counted(v[i].args)]

(* What is written of an operation: its code, and its arguments.           *)
LEMMA OpFieldsAre ==
    ASSUME NEW v, GoodPath(v), NEW i \in 1..Len(v)
    PROVE  /\ IsSeq(OpFields(v)[i])
           /\ Len(OpFields(v)[i]) = Len(v[i].args) + 2
           /\ OpFields(v)[i][1].kind = v[i].code
           /\ \A k \in 1..Len(Counted(v[i].args)) :
                 OpFields(v)[i][k + 1] = Counted(v[i].args)[k]
<1> DEFINE args == v[i].args
           first == <<Mark(v[i].code)>>
           all == OpFields(v)[i]
<1>1. IsSeq(args) /\ i \in DOMAIN v
  BY SeqDomain DEF GoodPath
<1>2. all = first \o Counted(args)
  BY <1>1 DEF OpFields
<1>3. IsSeq(first) /\ Len(first) = 1 /\ first[1] = Mark(v[i].code)
  BY OneSeq
<1>4. /\ IsSeq(Counted(args)) /\ Len(Counted(args)) = Len(args) + 1
      /\ Len(args) \in Nat
  BY <1>1, CountedIs, SeqDomain
<1> HIDE DEF first, all, args
<1>5. /\ IsSeq(all) /\ Len(all) = Len(first) + Len(Counted(args))
      /\ \A k \in 1..Len(first) : all[k] = first[k]
      /\ \A k \in 1..Len(Counted(args)) : all[Len(first) + k] = Counted(args)[k]
  <2>1. JoinOf(all, first, Counted(args))
    BY <1>2, <1>3, <1>4, JoinIs
  <2> QED
    BY <2>1 DEF JoinOf
<1>6. all[1].kind = v[i].code
  <2>1. 1 \in 1..1
    OBVIOUS
  <2>2. all[1] = Mark(v[i].code)
    BY <1>3, <1>5, <2>1
  <2> QED
    BY <2>2 DEF Mark, Token
<1>7. \A k \in 1..Len(Counted(args)) : all[k + 1] = Counted(args)[k]
  <2> TAKE k \in 1..Len(Counted(args))
  <2>1. Len(first) + k = k + 1
    BY <1>3, <1>4
  <2> QED
    BY <1>5, <2>1
<1>8. Len(all) = Len(args) + 2
  BY <1>3, <1>4, <1>5
<1> QED
  BY <1>5, <1>6, <1>7, <1>8 DEF all, args

(* Arithmetic about lengths.                                               *)
LEMMA Sums ==
    ASSUME NEW a \in Nat, NEW b \in Nat, NEW c, NEW d, d = a + c, c = b + 2 PROVE d = a + b + 2
  OBVIOUS

(* What is written of a path in the binary form is read again as it was.   *)
LEMMA ReadPathBack ==
    ASSUME NEW v, GoodPath(v), NEW s, s = <<Num(Len(v))>> \o FlattenSeq(OpFields(v))
    PROVE  ReadPath(s, 1) = Read(v, Len(s) + 1)
<1> DEFINE n == Len(v)
           q == OpFields(v)
           first == <<Num(n)>>
           rest == FlattenSeq(q)
<1>1. n \in Nat /\ DOMAIN v = 1..n /\ v = [i \in 1..n |-> v[i]] /\ n \in 0..n
  BY SeqDomain DEF GoodPath
<1>2. \A k \in 1..n : IsSeq(q[k])
  BY OpFieldsAre
<1>3. PICK f : Joins(f, q, n) /\ \A k \in 0..n : IsSeq(f[k])
  <2> HIDE DEF q, n
  <2> QED
    BY <1>1, <1>2, JoinsExist
<1>4. rest = f[n]
  <2>1. q = [i \in 1..n |-> q[i]]
    BY <1>1 DEF OpFields
  <2> HIDE DEF q, n
  <2>2. IsSeq(q) /\ Len(q) = n
    BY <1>1, <2>1, SeqMade
  <2> QED
    BY <1>1, <1>2, <1>3, <2>2, FlattenAll
<1>5. /\ \A k \in 0..n : Len(f[k]) \in Nat
      /\ \A k \in 1..n : Len(f[k]) = Len(f[k - 1]) + Len(q[k])
      /\ \A k \in 1..n : Len(f[k]) <= Len(f[n])
      /\ \A k \in 1..n : \A x \in 1..Len(q[k]) : f[n][Len(f[k - 1]) + x] = q[k][x]
  <2>1. Joined(f, q, n)
    <3> HIDE DEF q, n
    <3> QED
      BY <1>1, <1>2, <1>3, JoinsHold
  <2> HIDE DEF q, n
  <2>2. \A k \in 1..n : k \in 0..n /\ n \in k..n
    BY <1>1
  <2> QED
    BY <2>1, <2>2 DEF Joined
<1>6. /\ IsSeq(first) /\ Len(first) = 1 /\ first[1] = Num(n)
      /\ IsSeq(rest)
  BY <1>1, <1>3, <1>4, OneSeq
<1>7. s[1].number = n /\ \A x \in 1..Len(f[n]) : s[1 + x] = f[n][x]
  <2>1. JoinOf(s, first, rest)
    <3> HIDE DEF first, rest
    <3>1. s = first \o rest
      BY DEF first, rest
    <3> QED
      BY <1>6, <3>1, JoinIs
  <2> HIDE DEF first, rest
  <2>2. 1 \in 1..1
    OBVIOUS
  <2>3. s[1] = Num(n)
    BY <1>6, <2>1, <2>2 DEF JoinOf
  <2>4. \A x \in 1..Len(f[n]) : s[1 + x] = f[n][x]
    BY <1>4, <1>6, <2>1 DEF JoinOf
  <2>5. s[1].number = n
    BY <2>3 DEF Num, Token
  <2> QED
    BY <2>4, <2>5
<1> DEFINE next(j) == 2 + Len(f[j])
           args(j) == v[j].args
           IsPath(g) ==
              g = [j \in 0..n |->
                     IF j = 0 THEN Read(<<>>, 1 + 1)
                     ELSE Read(Append(g[j - 1].value,
                                      Op(s[g[j - 1].next].kind,
                                         ReadCounted(s, g[j - 1].next + 1).value)),
                               ReadCounted(s, g[j - 1].next + 1).next)]
           path == CHOOSE g : IsPath(g)
<1>8. ReadPath(s, 1) = path[n]
  <2> DEFINE PathTo(k) ==
                CHOOSE g : g = [j \in 0..k |->
                     IF j = 0 THEN Read(<<>>, 1 + 1)
                     ELSE Read(Append(g[j - 1].value,
                                      Op(s[g[j - 1].next].kind,
                                         ReadCounted(s, g[j - 1].next + 1).value)),
                               ReadCounted(s, g[j - 1].next + 1).next)]
  <2>1. ReadPath(s, 1) = PathTo(s[1].number)[s[1].number]
    BY Zenon DEF ReadPath
  <2>2. PathTo(n) = path
    BY Zenon
  <2> HIDE DEF PathTo, path
  <2> QED
    BY <1>7, <2>1, <2>2
<1>9. ASSUME NEW j \in 1..n
      PROVE  /\ next(j - 1) \in Nat
             /\ s[next(j - 1)].kind = v[j].code
             /\ ReadCounted(s, next(j - 1) + 1) = Read(args(j), next(j))
  <2>1. /\ Len(q[j]) = Len(args(j)) + 2
        /\ q[j][1].kind = v[j].code
        /\ \A k \in 1..Len(Counted(args(j))) : q[j][k + 1] = Counted(args(j))[k]
    BY OpFieldsAre
  <2>2. IsSeq(args(j)) /\ Len(args(j)) \in Nat /\ Len(Counted(args(j))) = Len(args(j)) + 1
    BY <1>1, CountedIs, SeqDomain DEF GoodPath
  <2> HIDE DEF args, q
  <2>3. /\ Len(f[j - 1]) \in Nat /\ Len(f[j]) \in Nat /\ Len(f[n]) \in Nat
        /\ Len(f[j]) = Len(f[j - 1]) + Len(args(j)) + 2
        /\ Len(f[j]) <= Len(f[n])
    <3>1. j \in 0..n /\ j - 1 \in 0..n
      BY <1>1
    <3>2. Len(f[j - 1]) \in Nat /\ Len(f[j]) \in Nat /\ Len(f[n]) \in Nat
      BY <1>1, <1>5, <3>1
    <3>3. Len(f[j]) = Len(f[j - 1]) + Len(q[j]) /\ Len(f[j]) <= Len(f[n])
      BY <1>5
    <3>4. Len(q[j]) = Len(args(j)) + 2
      BY <2>1
    <3>5. Len(f[j]) = Len(f[j - 1]) + Len(args(j)) + 2
      <4> DEFINE a == Len(f[j - 1])
                 b == Len(args(j))
                 c == Len(q[j])
                 d == Len(f[j])
      <4>1. a \in Nat /\ b \in Nat /\ d = a + c /\ c = b + 2
        BY <2>2, <3>2, <3>3, <3>4
      <4> HIDE DEF a, b, c, d
      <4>2. d = a + b + 2
        BY <4>1, Sums
      <4> QED
        BY <4>2 DEF a, b, d
    <3> QED
      BY <3>2, <3>3, <3>5
  <2>4. ASSUME NEW x \in 1..(Len(args(j)) + 2)
        PROVE  s[next(j - 1) + x - 1] = q[j][x]
    <3>1. Len(f[j - 1]) + x \in 1..Len(f[n])
      <4> DEFINE a == Len(f[j - 1])
                 b == Len(args(j))
                 d == Len(f[j])
                 e == Len(f[n])
      <4>1. a \in Nat /\ b \in Nat /\ d = a + b + 2 /\ e \in Nat /\ d <= e /\ x \in 1..(b + 2)
        BY <2>2, <2>3
      <4> HIDE DEF a, b, d, e
      <4>2. a + x \in 1..e
        BY <4>1
      <4> QED
        BY <4>2 DEF a, e
    <3>2. s[1 + (Len(f[j - 1]) + x)] = f[n][Len(f[j - 1]) + x]
      BY <1>7, <3>1
    <3>3. f[n][Len(f[j - 1]) + x] = q[j][x]
      BY <1>5, <2>1
    <3>4. 1 + (Len(f[j - 1]) + x) = next(j - 1) + x - 1
      BY <2>2, <2>3
    <3> QED
      BY <3>2, <3>3, <3>4
  <2>5. s[next(j - 1)].kind = v[j].code
    <3>1. 1 \in 1..(Len(args(j)) + 2) /\ next(j - 1) + 1 - 1 = next(j - 1)
      BY <2>2, <2>3
    <3>2. s[next(j - 1) + 1 - 1] = q[j][1]
      BY <2>4, <3>1
    <3> QED
      BY <2>1, <3>1, <3>2
  <2>6. Holds(s, next(j - 1) + 1, Counted(args(j)))
    <3> SUFFICES ASSUME NEW k \in 1..Len(Counted(args(j)))
                 PROVE  s[(next(j - 1) + 1) + k - 1] = Counted(args(j))[k]
      BY DEF Holds
    <3>1. k + 1 \in 1..(Len(args(j)) + 2)
      BY <2>2
    <3>2. next(j - 1) + (k + 1) - 1 = (next(j - 1) + 1) + k - 1
      BY <2>2, <2>3
    <3>3. s[next(j - 1) + (k + 1) - 1] = q[j][k + 1]
      BY <2>4, <3>1
    <3> QED
      BY <2>1, <3>2, <3>3
  <2>7. next(j - 1) \in Nat /\ next(j - 1) + 1 \in Nat
        /\ (next(j - 1) + 1) + 1 + Len(args(j)) = next(j)
    BY <2>2, <2>3
  <2> HIDE DEF next
  <2>8. ReadCounted(s, next(j - 1) + 1) = Read(args(j), (next(j - 1) + 1) + 1 + Len(args(j)))
    BY <2>2, <2>6, <2>7, ReadCountedBack
  <2> QED
    BY <2>5, <2>7, <2>8
<1> DEFINE upto(j) == [k \in 1..j |-> v[k]]
<1>10. ASSUME NEW j \in 1..n
       PROVE  upto(j) = Append(upto(j - 1), Op(v[j].code, args(j)))
  <2>1. v[j] = Op(v[j].code, args(j))
    BY <1>1 DEF GoodPath
  <2> DEFINE old == upto(j - 1)
             new == Append(old, v[j])
  <2>2. j - 1 \in Nat /\ old = [k \in 1..(j - 1) |-> old[k]] /\ \A k \in 1..(j - 1) : old[k] = v[k]
    OBVIOUS
  <2> HIDE DEF old
  <2>3. IsSeq(old) /\ Len(old) = j - 1
    BY <2>2, SeqMade
  <2>4. /\ IsSeq(new) /\ Len(new) = Len(old) + 1
        /\ \A k \in 1..Len(old) : new[k] = old[k]
        /\ new[Len(old) + 1] = v[j]
    BY <2>3, SeqAppended
  <2> HIDE DEF new
  <2>5. Len(new) = j /\ new[j] = v[j] /\ \A k \in 1..(j - 1) : new[k] = v[k]
    BY <2>2, <2>3, <2>4
  <2>6. \A k \in 1..j : new[k] = v[k]
    <3> TAKE k \in 1..j
    <3>1. k = j \/ k \in 1..(j - 1)
      OBVIOUS
    <3> QED
      BY <2>5, <3>1
  <2>7. new = [k \in 1..j |-> new[k]]
    BY <2>4, <2>5, SeqDomain
  <2>8. new = upto(j)
    BY <2>6, <2>7
  <2> QED
    BY <2>1, <2>8 DEF new, old
<1> DEFINE Here(j) == Read(upto(j), next(j))
<1>11. Here(0) = Read(<<>>, 1 + 1)
  <2>1. f[0] = <<>> /\ Len(<<>>) = 0
    BY <1>3, NoSeq DEF Joins
  <2>2. upto(0) = <<>>
    OBVIOUS
  <2> QED
    BY <2>1, <2>2
<1>12. ASSUME NEW j \in 1..n, NEW r, r = Here(j - 1)
       PROVE  Here(j) = Read(Append(r.value, Op(s[r.next].kind, ReadCounted(s, r.next + 1).value)),
                             ReadCounted(s, r.next + 1).next)
  <2> HIDE DEF upto, next, args
  <2>1. r.value = upto(j - 1) /\ r.next = next(j - 1)
    BY <1>12 DEF Read
  <2>2. /\ ReadCounted(s, r.next + 1).value = args(j)
        /\ ReadCounted(s, r.next + 1).next = next(j)
    <3>1. ReadCounted(s, r.next + 1) = Read(args(j), next(j))
      BY <1>9, <2>1
    <3> QED
      BY <3>1 DEF Read
  <2> QED
    BY <1>9, <1>10, <2>1, <2>2
<1> HIDE DEF Here
<1>13. \E g : IsPath(g)
  <2> DEFINE g == [j \in 0..n |-> Here(j)]
  <2>1. ASSUME NEW j \in 0..n
        PROVE  g[j] = IF j = 0 THEN Read(<<>>, 1 + 1)
                      ELSE Read(Append(g[j - 1].value,
                                       Op(s[g[j - 1].next].kind,
                                          ReadCounted(s, g[j - 1].next + 1).value)),
                                ReadCounted(s, g[j - 1].next + 1).next)
    <3>1. CASE j = 0
      BY <1>11, <3>1
    <3>2. CASE j # 0
      <4>1. j \in 1..n /\ j - 1 \in 0..n
        BY <1>1, <3>2
      <4>2. g[j - 1] = Here(j - 1) /\ g[j] = Here(j)
        BY <4>1
      <4> HIDE DEF g
      <4> QED
        BY <1>12, <3>2, <4>1, <4>2
    <3> QED
      BY <3>1, <3>2
  <2>2. g = [j \in 0..n |-> g[j]]
    OBVIOUS
  <2> HIDE DEF g
  <2>3. IsPath(g)
    BY <2>1, <2>2
  <2> HIDE DEF IsPath
  <2> QED
    BY <2>3
<1>14. IsPath(path)
  <2> HIDE DEF IsPath
  <2> QED
    BY <1>13
<1> HIDE DEF path
<1>15. 0..n \subseteq {j \in 0..n : path[j] = Here(j)}
  <2> DEFINE T == {j \in 0..n : path[j] = Here(j)}
  <2>1. 0 \in T
    BY <1>1, <1>11, <1>14
  <2>2. ASSUME NEW j \in 1..n, j - 1 \in T PROVE j \in T
    <3>1. j \in 0..n /\ j # 0 /\ path[j - 1] = Here(j - 1)
      <4>1. j \in 0..n /\ j # 0
        BY <1>1
      <4>2. path[j - 1] = Here(j - 1)
        BY <2>2
      <4> QED
        BY <4>1, <4>2
    <3>2. path[j] = Read(Append(path[j - 1].value,
                                Op(s[path[j - 1].next].kind,
                                   ReadCounted(s, path[j - 1].next + 1).value)),
                         ReadCounted(s, path[j - 1].next + 1).next)
      BY <1>14, <3>1, Zenon
    <3>3. path[j] = Here(j)
      BY <1>12, <3>1, <3>2
    <3> QED
      BY <3>1, <3>3
  <2> HIDE DEF T, n
  <2>3. 0..n \subseteq T
    BY <1>1, <2>1, <2>2, Upwards
  <2> QED
    BY <2>3 DEF T
<1>16. path[n] = Here(n)
  BY <1>1, <1>15
<1>17. Here(n) = Read(v, 2 + Len(f[n]))
  BY <1>1 DEF Here
<1>18. 2 + Len(f[n]) = Len(s) + 1
  <2> HIDE DEF first, rest
  <2>1. Len(s) = 1 + Len(f[n]) /\ Len(f[n]) \in Nat
    <3>1. s = first \o rest
      BY DEF first, rest
    <3>2. JoinOf(s, first, rest)
      BY <1>6, <3>1, JoinIs
    <3> QED
      BY <1>1, <1>4, <1>5, <1>6, <3>2 DEF JoinOf
  <2> QED
    BY <2>1
<1> QED
  BY <1>8, <1>16, <1>17, <1>18

(* A name that is read again is one, as long as what was written.          *)
LEMMA ReadNameBack ==
    ASSUME NEW name, IsSeq(name), NameLen(name) \in Nat,
           NEW s, NEW i \in Nat, Holds(s, i, WriteName(name)), ~ReadName(s, i).fault
    PROVE  IsSeq(ReadName(s, i).value) /\ NameLen(ReadName(s, i).value) \in Nat
<1> DEFINE first == <<Num(NameLen(name))>>
           t == WriteName(name)
<1>1. IsSeq(first) /\ Len(first) = 1 /\ first[1] = Num(NameLen(name))
  BY OneSeq
<1>2. JoinOf(t, first, name)
  <2>1. t = first \o name
    BY DEF WriteName
  <2> HIDE DEF t, first
  <2> QED
    BY <1>1, <2>1, JoinIs
<1>3. Len(name) \in Nat
  BY SeqDomain
<1> HIDE DEF first
<1>4. s[i].number = NameLen(name)
  <2>1. 1 \in 1..1 /\ i + 1 - 1 = i
    OBVIOUS
  <2> HIDE DEF t
  <2>2. Len(t) = 1 + Len(name) /\ t[1] = first[1]
    BY <1>1, <1>2, <2>1 DEF JoinOf
  <2>3. 1 \in 1..Len(t)
    BY <1>3, <2>2
  <2>4. s[i + 1 - 1] = t[1]
    BY <2>3 DEF Holds, t
  <2>5. s[i] = Num(NameLen(name))
    BY <1>1, <2>1, <2>2, <2>4
  <2> QED
    BY <2>5 DEF Num, Token
<1>5. CASE NameLen(name) >= 128
  <2>1. ReadName(s, i) = Fault
    <3>1. PICK m : m = s[i].number
      OBVIOUS
    <3>2. m \in Nat /\ m >= 128 /\ m # 0 /\ m \notin 1..127
      BY <1>4, <1>5, <3>1
    <3> QED
      BY <3>1, <3>2 DEF ReadName
  <2>2. Fault.fault
    BY DEF Fault
  <2> QED
    BY <2>1, <2>2
<1>6. CASE NameLen(name) = 0
  <2>1. ReadName(s, i) = Read(<<>>, i + 1)
    BY <1>4, <1>6 DEF ReadName
  <2> QED
    BY <2>1, NoSeq DEF Read
<1>7. CASE NameLen(name) \in 1..127
  <2>1. ReadName(s, i) = Read(<<s[i + 1]>>, i + 2)
    BY <1>4, <1>7 DEF ReadName
  <2>2. name # <<>> /\ NameLen(name) = name[1].number
    BY <1>7 DEF NameLen
  <2>3. Len(name) > 0
    BY <2>2, SeqRest
  <2>4. s[i + 1] = name[1]
    <3> HIDE DEF t
    <3>1. Len(t) = 1 + Len(name) /\ \A k \in 1..Len(name) : t[1 + k] = name[k]
      BY <1>1, <1>2 DEF JoinOf
    <3>2. 1 + 1 \in 1..Len(t) /\ 1 \in 1..Len(name) /\ i + (1 + 1) - 1 = i + 1
      BY <1>3, <2>3, <3>1
    <3>3. s[i + (1 + 1) - 1] = t[1 + 1]
      BY <3>2 DEF Holds, t
    <3>4. t[1 + 1] = name[1]
      BY <3>1, <3>2
    <3> QED
      BY <3>2, <3>3, <3>4
  <2> DEFINE read == <<s[i + 1]>>
  <2>5. IsSeq(read) /\ Len(read) = 1 /\ read[1] = name[1]
    BY <2>4, OneSeq
  <2>6. NameLen(read) = name[1].number
    <3> HIDE DEF read
    <3>1. read # <<>>
      <4>1. Len(read) = 1 /\ Len(<<>>) = 0
        BY <2>5, NoSeq
      <4>2. Len(read) # Len(<<>>)
        BY <4>1
      <4> QED
        BY ONLY <4>2
    <3> QED
      BY <2>5, <3>1 DEF NameLen
  <2> HIDE DEF read
  <2>7. ReadName(s, i).value = read
    BY <2>1 DEF Read, read
  <2> QED
    BY <2>2, <2>5, <2>6, <2>7
<1> QED
  BY <1>5, <1>6, <1>7

(* So is a colour.                                                         *)
LEMMA ReadColorBack ==
    ASSUME NEW v, GoodColor(v), NEW s,
           NEW t, s = <<Mark(v.type)>> \o t, IsSeq(t),
           v.type = "url" => t = WriteName(v.name),
           ~ReadColor(s, 1).fault
    PROVE  GoodColor(ReadColor(s, 1).value)
<1> DEFINE first == <<Mark(v.type)>>
<1>1. IsSeq(first) /\ Len(first) = 1 /\ first[1] = Mark(v.type)
  BY OneSeq
<1> HIDE DEF first
<1>2. JoinOf(s, first, t)
  <2>1. s = first \o t
    BY DEF first
  <2> QED
    BY <1>1, <2>1, JoinIs
<1>3. s[1].kind = v.type
  <2>1. 1 \in 1..1
    OBVIOUS
  <2>2. s[1] = Mark(v.type)
    BY <1>1, <1>2, <2>1 DEF JoinOf
  <2> QED
    BY <2>2 DEF Mark, Token
<1>4. CASE v.type = "rgba"
  <2>1. ReadColor(s, 1).value = Rgba(s[1 + 1].word)
    BY <1>3, <1>4 DEF ReadColor, Read
  <2>2. PlainColor(Rgba(s[1 + 1].word))
    BY DEF PlainColor, Rgba
  <2> QED
    BY <2>1, <2>2, PlainColorGood
<1>5. CASE v.type = "none"
  <2>1. ReadColor(s, 1).value = NoColor
    BY <1>3, <1>5 DEF ReadColor, Read
  <2>2. PlainColor(NoColor)
    BY DEF PlainColor, NoColor
  <2> QED
    BY <2>1, <2>2, PlainColorGood
<1>6. CASE v.type = "url"
  <2>1. ReadColor(s, 1) = IF ReadName(s, 1 + 1).fault THEN Fault
                          ELSE Read(Url(ReadName(s, 1 + 1).value), ReadName(s, 1 + 1).next)
    BY <1>3, <1>6 DEF ReadColor
  <2>2. ~ReadName(s, 1 + 1).fault
    BY <2>1 DEF Fault
  <2>3. Holds(s, 1 + 1, WriteName(v.name))
    <3>1. \A k \in 1..Len(t) : s[1 + k] = t[k]
      BY <1>1, <1>2 DEF JoinOf
    <3>2. Len(t) \in Nat
      BY SeqDomain
    <3>3. \A k \in 1..Len(t) : s[(1 + 1) + k - 1] = t[k]
      BY <3>1, <3>2
    <3> QED
      BY <1>6, <3>3 DEF Holds
  <2>4. IsSeq(v.name) /\ NameLen(v.name) \in Nat /\ 1 + 1 \in Nat
    BY DEF GoodColor
  <2>5. PICK name : name = ReadName(s, 1 + 1).value
    OBVIOUS
  <2>6. IsSeq(name) /\ NameLen(name) \in Nat
    BY <2>2, <2>3, <2>4, <2>5, ReadNameBack
  <2>7. ReadColor(s, 1).value = Url(name)
    BY <2>1, <2>2, <2>5 DEF Read
  <2>8. GoodColor(Url(name))
    BY <2>6 DEF GoodColor, Url
  <2> QED
    BY <2>7, <2>8
<1> QED
  BY <1>4, <1>5, <1>6 DEF GoodColor

(* And any value.                                                          *)
LEMMA ReadBinaryGood ==
    ASSUME NEW a \in AttrNames, NEW v, GoodValue(a, v), NEW s, s = WriteBinary(a, v),
           ~ReadBinary(a, s, 1).fault
    PROVE  GoodValue(a, ReadBinary(a, s, 1).value)
<1>1. CASE AttrType(a) = "id"
  <2>1. s = WriteName(v) /\ ReadBinary(a, s, 1) = ReadName(s, 1)
    BY <1>1 DEF WriteBinary, ReadBinary
  <2>2. IsSeq(v) /\ NameLen(v) \in Nat
    BY <1>1 DEF GoodValue
  <2>3. Holds(s, 1, WriteName(v))
    <3>1. IsSeq(<<Num(NameLen(v))>>)
      BY OneSeq
    <3>2. IsSeq(s)
      BY <2>1, <2>2, <3>1, SeqJoined DEF WriteName
    <3> QED
      BY <2>1, <3>2, HoldsItself
  <2> QED
    BY <1>1, <2>1, <2>2, <2>3, ReadNameBack DEF GoodValue
<1>2. CASE AttrType(a) = "color"
  <2>1. GoodColor(v)
    BY <1>2 DEF GoodValue
  <2>2. PICK t : t = (CASE v.type = "rgba" -> <<Hex(8, v.word)>>
                        [] v.type = "url" -> WriteName(v.name)
                        [] v.type = "none" -> <<>>)
    OBVIOUS
  <2>3. s = <<Mark(v.type)>> \o t /\ ReadBinary(a, s, 1) = ReadColor(s, 1)
    BY <1>2, <2>2 DEF WriteBinary, ReadBinary
  <2>4. v.type = "url" => t = WriteName(v.name)
    BY <2>2
  <2>5. IsSeq(t)
    <3>1. CASE v.type = "rgba"
      BY <2>2, <3>1, OneSeq
    <3>2. CASE v.type = "none"
      BY <2>2, <3>2, NoSeq
    <3>3. CASE v.type = "url"
      <4>1. IsSeq(v.name) /\ IsSeq(<<Num(NameLen(v.name))>>)
        BY <2>1, OneSeq DEF GoodColor
      <4>2. IsSeq(WriteName(v.name))
        BY <4>1, SeqJoined DEF WriteName
      <4> QED
        BY <2>4, <3>3, <4>2
    <3> QED
      BY <2>1, <3>1, <3>2, <3>3 DEF GoodColor
  <2>6. GoodColor(ReadColor(s, 1).value)
    BY <2>1, <2>3, <2>4, <2>5, ReadColorBack
  <2> QED
    BY <1>2, <2>3, <2>6 DEF GoodValue
<1>3. CASE AttrType(a) = "points"
  <2>1. s = Counted(v) /\ ReadBinary(a, s, 1) = ReadCounted(s, 1)
    BY <1>3 DEF WriteBinary, ReadBinary
  <2>2. IsSeq(v)
    BY <1>3 DEF GoodValue
  <2>3. Holds(s, 1, Counted(v))
    BY <2>1, <2>2, CountedIs, HoldsItself
  <2>4. ReadCounted(s, 1).value = v
    <3>1. ReadCounted(s, 1) = Read(v, 1 + 1 + Len(v))
      BY <2>2, <2>3, ReadCountedBack
    <3> QED
      BY <3>1 DEF Read
  <2> QED
    BY <2>1, <2>4
<1>4. CASE AttrType(a) = "path"
  <2>1. s = <<Num(Len(v))>> \o FlattenSeq(OpFields(v)) /\ ReadBinary(a, s, 1) = ReadPath(s, 1)
    BY <1>4 DEF WriteBinary, ReadBinary, OpFields
  <2>2. GoodPath(v)
    BY <1>4 DEF GoodValue
  <2>3. ReadPath(s, 1) = Read(v, Len(s) + 1)
    BY <2>1, <2>2, ReadPathBack
  <2>4. ReadPath(s, 1).value = v
    BY <2>3 DEF Read
  <2> QED
    BY <2>1, <2>4
<1> QED
  BY <1>1, <1>2, <1>3, <1>4 DEF GoodValue
-----------------------------------------------------------------------------
(* Where values are kept *)

(* A block is a record whose attribute is in the table, so that its size   *)
(* and alignment are those of a type.                                      *)
BlockRecords ==
    \A b \in DOMAIN blocks :
        /\ blocks[b] = [attr |-> blocks[b].attr, record |-> blocks[b].record]
        /\ blocks[b].attr \in AttrNames

BlockInv ==
    /\ storage \in [offset : Nat, capacity : Nat]
    /\ DOMAIN blocks \subseteq Nat
    /\ blocks = [b \in DOMAIN blocks |-> blocks[b]]
    /\ storage.offset > 0
    /\ BlockRecords
    /\ BlocksApart

Types == {"enum", "id", "length", "color", "transform", "dasharray", "float",
          "viewbox", "aspectratio", "path", "points"}

(* Every attribute has a type.                                             *)
LEMMA AttrTypes == ASSUME NEW a \in AttrNames PROVE AttrType(a) \in Types
  BY DEF AttrNames, AttrType, Types

(* Every type has a size, and an alignment that is 1, 4 or 8.              *)
LEMMA TypeLayout ==
    ASSUME NEW type \in Types
    PROVE  /\ TypeSize(type) \in Nat
           /\ TypeSize(type) > 0
           /\ TypeAlign(type) \in {1, 4, 8}
  BY DEF Types, TypeSize, TypeAlign

(* Rounding up to an alignment yields a multiple of it that is no smaller. *)
LEMMA AlignUpProperties ==
    ASSUME NEW n \in Nat, NEW align \in {1, 4, 8}
    PROVE  /\ AlignUp(n, align) \in Nat
           /\ AlignUp(n, align) >= n
           /\ AlignUp(n, align) % align = 0
  BY DEF AlignUp

(* A buffer that has grown by a block holds it, and what it held before.   *)
LEMMA GrownProperties ==
    ASSUME NEW sb \in [offset : Nat, capacity : Nat],
           NEW size \in Nat, NEW align \in {1, 4, 8},
           sb.offset <= sb.capacity,
           Fits(sb, size, align)
    PROVE  /\ Grown(sb, size, align) \in [offset : Nat, capacity : Nat]
           /\ Grown(sb, size, align).offset <= Grown(sb, size, align).capacity
           /\ BlockAt(sb, align) \in Nat
           /\ BlockAt(sb, align) >= sb.offset
           /\ BlockAt(sb, align) % align = 0
           /\ BlockAt(sb, align) + size <= Grown(sb, size, align).offset
           /\ Grown(sb, size, align).offset >= sb.offset
<1> DEFINE at == BlockAt(sb, align)
           up == AlignUp(size, align)
<1>1. at \in Nat /\ at >= sb.offset /\ at % align = 0
  BY AlignUpProperties DEF BlockAt
<1>2. up \in Nat /\ up >= size
  BY AlignUpProperties
<1>3. EndAt(sb, size, align) = at + up
  BY DEF EndAt
<1>4. EndAt(sb, size, align) \in 0..MaxBuffer
  BY <1>1, <1>2, <1>3, BufferAssumption DEF Fits
<1>5. /\ Pow2Ge[EndAt(sb, size, align)] \in Nat
      /\ Pow2Ge[EndAt(sb, size, align)] >= EndAt(sb, size, align)
  BY <1>4, BufferAssumption
<1> QED
  BY <1>1, <1>2, <1>3, <1>4, <1>5 DEF Grown

-----------------------------------------------------------------------------
(* A step that leaves storage alone. *)
LEMMA Untouched ==
    ASSUME BlockInv, UNCHANGED <<storage, blocks>>
    PROVE  BlockInv'
  BY DEF BlockInv, BlockRecords, BlocksApart, BlockSize, BlockAlign

(* A store to a block that is there moves none.                            *)
LEMMA SetAttrKeeps ==
    ASSUME BlockInv, NEW n, NEW a, NEW record, NEW value,
           SetAttr(n, a, record, value)
    PROVE  BlockInv'
<1>1. PICK i \in SlotOf(n, a) :
          /\ blocks' = [blocks EXCEPT ![nodes[n][i].at].record = record]
          /\ storage' = storage
  BY DEF SetAttr
<1>2. /\ DOMAIN blocks' = DOMAIN blocks
      /\ blocks' = [b \in DOMAIN blocks' |-> blocks'[b]]
  BY <1>1 DEF BlockInv
<1>3. ASSUME NEW b \in DOMAIN blocks
      PROVE  /\ blocks'[b].attr = blocks[b].attr
             /\ blocks'[b] = [attr |-> blocks'[b].attr, record |-> blocks'[b].record]
  <2>1. CASE b = nodes[n][i].at
    <3>1. blocks'[b] = [blocks[b] EXCEPT !.record = record]
      BY <1>1, <2>1
    <3>2. blocks[b] = [attr |-> blocks[b].attr, record |-> blocks[b].record]
      BY DEF BlockInv, BlockRecords
    <3>3. blocks'[b] = [attr |-> blocks[b].attr, record |-> record]
      BY <3>1, <3>2
    <3> QED
      BY <3>3
  <2>2. CASE b # nodes[n][i].at
    <3>1. blocks'[b] = blocks[b]
      BY <1>1, <2>2
    <3> QED
      BY <3>1 DEF BlockInv, BlockRecords
  <2> QED
    BY <2>1, <2>2
<1>4. BlockRecords'
  BY <1>2, <1>3 DEF BlockInv, BlockRecords
<1>5. ASSUME NEW b \in DOMAIN blocks
      PROVE  BlockSize(b)' = BlockSize(b) /\ BlockAlign(b)' = BlockAlign(b)
  BY <1>3 DEF BlockSize, BlockAlign
<1>6. BlocksApart'
  BY <1>1, <1>2, <1>5 DEF BlockInv, BlocksApart
<1> QED
  BY <1>1, <1>2, <1>4, <1>6 DEF BlockInv

(* A new block is behind all others.                                       *)
LEMMA AllocAttrKeeps ==
    ASSUME BlockInv, NEW n, NEW a \in AttrNames, NEW record, NEW value,
           AllocAttr(n, a, record, value)
    PROVE  BlockInv'
<1> DEFINE size  == TypeSize(AttrType(a))
           align == TypeAlign(AttrType(a))
           block == [attr |-> a, record |-> record]
<1> HIDE DEF block
<1>1. PICK at : at = BlockAt(storage, align)
  OBVIOUS
<1>2. size \in Nat /\ size > 0 /\ align \in {1, 4, 8}
  BY AttrTypes, TypeLayout
<1>3. /\ Fits(storage, size, align)
      /\ storage' = Grown(storage, size, align)
      /\ blocks' = [b \in DOMAIN blocks \union {at} |-> IF b = at THEN block ELSE blocks[b]]
  BY <1>1 DEF AllocAttr, block
<1> HIDE DEF size, align
<1>4. storage \in [offset : Nat, capacity : Nat] /\ storage.offset <= storage.capacity
  BY DEF BlockInv, BlocksApart
<1>5. /\ storage' \in [offset : Nat, capacity : Nat]
      /\ storage'.offset <= storage'.capacity
      /\ at \in Nat /\ at >= storage.offset /\ at % align = 0
      /\ at + size <= storage'.offset
      /\ storage'.offset >= storage.offset
  BY <1>1, <1>2, <1>3, <1>4, GrownProperties
<1>6. at > 0
  BY <1>4, <1>5 DEF BlockInv
<1>7. DOMAIN blocks' = DOMAIN blocks \union {at}
  BY <1>3
<1>8. ASSUME NEW b \in DOMAIN blocks
      PROVE  /\ b \in Nat /\ b > 0
             /\ BlockSize(b) \in Nat /\ BlockSize(b) > 0
             /\ b % BlockAlign(b) = 0
             /\ b + BlockSize(b) <= storage.offset
  <2>1. blocks[b].attr \in AttrNames
    BY DEF BlockInv, BlockRecords
  <2>2. BlockSize(b) \in Nat /\ BlockSize(b) > 0
    BY <2>1, AttrTypes, TypeLayout DEF BlockSize
  <2> QED
    BY <2>2 DEF BlockInv, BlocksApart
<1>9. at \notin DOMAIN blocks
  BY <1>4, <1>5, <1>8
<1>10. /\ blocks'[at] = block
       /\ BlockSize(at)' = size
       /\ BlockAlign(at)' = align
  BY <1>3 DEF BlockSize, BlockAlign, size, align, block
<1>11. ASSUME NEW b \in DOMAIN blocks
       PROVE  /\ blocks'[b] = blocks[b]
              /\ BlockSize(b)' = BlockSize(b)
              /\ BlockAlign(b)' = BlockAlign(b)
  BY <1>3, <1>9 DEF BlockSize, BlockAlign
<1>12. BlockRecords'
  <2> SUFFICES ASSUME NEW b \in DOMAIN blocks'
               PROVE  /\ blocks'[b] = [attr |-> blocks'[b].attr, record |-> blocks'[b].record]
                      /\ blocks'[b].attr \in AttrNames
    BY DEF BlockRecords
  <2>1. CASE b = at
    BY <1>10, <2>1 DEF block
  <2>2. CASE b \in DOMAIN blocks
    BY <1>11, <2>2 DEF BlockInv, BlockRecords
  <2> QED
    BY <1>7, <2>1, <2>2
<1>13. BlocksApart'
  <2>1. ASSUME NEW b \in DOMAIN blocks'
        PROVE  b > 0 /\ b % BlockAlign(b)' = 0 /\ b + BlockSize(b)' <= storage'.offset
    <3>1. CASE b = at
      BY <1>5, <1>6, <1>10, <3>1
    <3>2. CASE b \in DOMAIN blocks
      BY <1>4, <1>5, <1>8, <1>11, <3>2
    <3> QED
      BY <1>7, <3>1, <3>2
  <2>2. ASSUME NEW b \in DOMAIN blocks', NEW c \in DOMAIN blocks', b < c
        PROVE  b + BlockSize(b)' <= c
    <3>1. CASE b \in DOMAIN blocks /\ c \in DOMAIN blocks
      BY <1>11, <2>2, <3>1 DEF BlockInv, BlocksApart
    <3>2. CASE b \in DOMAIN blocks /\ c = at
      BY <1>4, <1>5, <1>8, <1>11, <3>2
    <3>3. CASE b = at
      <4>1. c \notin DOMAIN blocks
        BY <1>4, <1>5, <1>8, <2>2, <3>3
      <4> QED
        BY <1>5, <1>7, <2>2, <3>3, <4>1
    <3> QED
      BY <1>7, <3>1, <3>2, <3>3
  <2> QED
    BY <1>5, <2>1, <2>2 DEF BlocksApart
<1> QED
  BY <1>3, <1>4, <1>5, <1>7, <1>12, <1>13 DEF BlockInv

-----------------------------------------------------------------------------
(* So whatever is stored for an attribute of the table keeps them apart.   *)
LEMMA StoreKeeps ==
    ASSUME BlockInv, NEW n, NEW a \in AttrNames, NEW v, StoreValue(n, a, v)
    PROVE  BlockInv'
<1>1. ASSUME NEW record, Store(n, a, record, v) PROVE BlockInv'
  BY <1>1, SetAttrKeeps, AllocAttrKeeps DEF Store
<1>2. CASE StoreId(n, a, v)
  BY <1>1, <1>2 DEF StoreId
<1>3. CASE StoreColor(n, a, v)
  BY <1>1, <1>3 DEF StoreColor
<1>4. CASE StorePoints(n, a, v)
  BY <1>1, <1>4 DEF StorePoints
<1>5. CASE StorePath(n, a, v)
  BY <1>1, <1>5 DEF StorePath
<1>6. CASE StorePlain(n, a, v)
  BY <1>1, <1>6 DEF StorePlain
<1> QED
  BY <1>2, <1>3, <1>4, <1>5, <1>6 DEF StoreValue

(* The steps of both parsers store, or they leave storage alone.           *)
LEMMA ReadTextKeeps ==
    ASSUME BlockInv, NEW n, NEW a, NEW text, ReadText(n, a, text)
    PROVE  BlockInv'
  BY StoreKeeps, Untouched DEF ReadText, block_vars

(* Reading the fields of a file keeps the blocks apart.                    *)
LEMMA ReadFieldsKeeps ==
    ASSUME BlockInv, NEW n, NEW a, NEW fields, ReadFields(n, a, fields)
    PROVE  BlockInv'
  BY StoreKeeps, Untouched DEF ReadFields, block_vars

(* The storage of a new parser has no blocks.                              *)
LEMMA FreshKeeps ==
    ASSUME storage = FreshBuffer, blocks = Empty PROVE BlockInv
  BY DEF FreshBuffer, Empty, BlockInv, BlockRecords, BlocksApart

(* So does the beginning of the second run.                                *)
LEMMA EmitKeeps ==
    ASSUME Emit PROVE BlockInv'
<1>1. storage' = FreshBuffer /\ blocks' = Empty
  BY DEF Emit
<1> QED
  BY <1>1 DEF FreshBuffer, Empty, BlockInv, BlockRecords, BlocksApart

(* So does every step.                                                     *)
LEMMA StepKeeps ==
    ASSUME BlockInv, [Next]_vars PROVE BlockInv'
<1>1. CASE StartAttr
  BY <1>1, Untouched DEF StartAttr, block_vars
<1>2. CASE ReadAttr
  BY <1>2, ReadTextKeeps DEF ReadAttr
<1>3. CASE NextNode
  BY <1>3, Untouched DEF NextNode
<1>4. CASE Emit
  BY <1>4, EmitKeeps
<1>5. CASE ReadCopy
  BY <1>5, ReadTextKeeps, ReadFieldsKeeps DEF ReadCopy
<1>6. CASE ReadCopyNext
  BY <1>6, Untouched DEF ReadCopyNext
<1>7. CASE UNCHANGED vars
  BY <1>7, Untouched DEF vars, block_vars
<1> QED
  BY <1>1, <1>2, <1>3, <1>4, <1>5, <1>6, <1>7 DEF Next

(* Attribute values never overlap in storage, are aligned for their types  *)
(* and stay within it, in both runs of the program and whatever they read. *)
THEOREM BlocksApartAlways == Spec => []BlocksApart
<1>1. Init => BlockInv
  BY FreshKeeps DEF Init
<1>2. BlockInv => BlocksApart
  BY DEF BlockInv
<1> QED
  BY <1>1, <1>2, StepKeeps, PTL DEF Spec

-----------------------------------------------------------------------------
(* What blocks hold.  The inductive invariant: every block has a record    *)
(* that refers to what there is, and through it the value that it was      *)
(* given; every slot has a block of its attribute; what is yet to be read  *)
(* is what the parsers and the readers expect.                             *)

IsView(v, length) ==
    v.offset \in Nat /\ v.count \in Nat /\ v.offset + v.count <= length

RecordGood(a, r) ==
    /\ AttrType(a) = "id" => r.name \in DOMAIN names
    /\ AttrType(a) = "color" /\ r.type = "url" => r.name \in DOMAIN names
    /\ AttrType(a) = "points" => IsView(r, Len(points))
    /\ AttrType(a) = "path" => IsView(r, Len(path_ops))

SlotsGood ==
    /\ IsSeq(nodes)
    /\ Len(nodes) > 0
    /\ \A n \in 1..Len(nodes) :
          /\ IsSeq(nodes[n])
          /\ \A i \in 1..Len(nodes[n]) :
                /\ nodes[n][i].at \in DOMAIN blocks
                /\ nodes[n][i].attr = blocks[nodes[n][i].at].attr

ValuesGood ==
    /\ DOMAIN given = DOMAIN blocks
    /\ \A b \in DOMAIN blocks :
          /\ RecordGood(blocks[b].attr, blocks[b].record)
          /\ GoodValue(blocks[b].attr, given[b])

NamesGood ==
    /\ strings \in [offset : Nat, capacity : Nat]
    /\ strings.offset <= strings.capacity
    /\ \A s \in DOMAIN names : s \in Nat /\ s < strings.offset

ArraysGood ==
    /\ IsSeq(points)
    /\ IsSeq(path_ops)
    /\ \A i \in 1..Len(path_ops) : IsView(path_ops[i].args, Len(points))

StoreInv ==
    /\ BlockInv
    /\ SlotsGood
    /\ ValuesGood
    /\ NamesGood
    /\ ArraysGood
    /\ ContentKept
    /\ ViewsApart

TodoGood ==
    /\ IsSeq(todo)
    /\ \A i \in 1..Len(todo) : todo[i][1] \in AttrNames => GoodText(todo[i][1], todo[i][2])

(* Something that was written in a format.                                 *)
Item(form, item) ==
    /\ item[1] \in AttrNames
    /\ \E v : /\ GoodValue(item[1], v)
              /\ item[2] = IF form = "xml" THEN WriteText(item[1], v) ELSE WriteBinary(item[1], v)

WireGood ==
    /\ format \in {"binary", "xml"}
    /\ IsSeq(wire)
    /\ \A n \in 1..Len(wire) :
          IsSeq(wire[n]) /\ \A i \in 1..Len(wire[n]) : Item(format, wire[n][i])

ContentInv == StoreInv /\ TodoGood /\ WireGood

(* A block that is new is at none of the places of those there are.        *)
LEMMA AllocIsNew ==
    ASSUME BlockInv, NEW a \in AttrNames,
           Fits(storage, TypeSize(AttrType(a)), TypeAlign(AttrType(a)))
    PROVE  BlockAt(storage, TypeAlign(AttrType(a))) \notin DOMAIN blocks
<1> DEFINE size  == TypeSize(AttrType(a))
           align == TypeAlign(AttrType(a))
<1>1. PICK at : at = BlockAt(storage, align)
  OBVIOUS
<1>2. size \in Nat /\ size > 0 /\ align \in {1, 4, 8}
  BY AttrTypes, TypeLayout
<1> HIDE DEF size, align
<1>3. storage \in [offset : Nat, capacity : Nat] /\ storage.offset <= storage.capacity
  BY DEF BlockInv, BlocksApart
<1>4. at \in Nat /\ at >= storage.offset
  BY <1>1, <1>2, <1>3, GrownProperties DEF size, align
<1>5. ASSUME NEW b \in DOMAIN blocks PROVE b < storage.offset
  <2>1. BlockSize(b) \in Nat /\ BlockSize(b) > 0
    BY AttrTypes, TypeLayout DEF BlockSize, BlockInv, BlockRecords
  <2>2. b \in Nat /\ b + BlockSize(b) <= storage.offset
    BY DEF BlockInv, BlocksApart
  <2> QED
    BY <1>3, <2>1, <2>2
<1>6. at \notin DOMAIN blocks
  BY <1>3, <1>4, <1>5
<1> QED
  BY <1>1, <1>6 DEF align

(* What a store does: one block, that of the attribute, has the new record.*)
Stored(b, a, record, v) ==
    /\ DOMAIN blocks' = DOMAIN blocks \union {b}
    /\ DOMAIN given' = DOMAIN given \union {b}
    /\ blocks'[b].attr = a
    /\ blocks'[b].record = record
    /\ given'[b] = v
    /\ \A c \in DOMAIN blocks : c # b => blocks'[c] = blocks[c] /\ given'[c] = given[c]

(* A block that is there gets it,                                          *)
LEMMA SetAttrDoes ==
    ASSUME BlockInv, SlotsGood, DOMAIN given = DOMAIN blocks,
           NEW n, n = Len(nodes), NEW a, NEW record, NEW v, SetAttr(n, a, record, v)
    PROVE  SlotsGood' /\ \E b : Stored(b, a, record, v)
<1>1. PICK i \in SlotOf(n, a) :
          /\ blocks' = [blocks EXCEPT ![nodes[n][i].at].record = record]
          /\ given' = [given EXCEPT ![nodes[n][i].at] = v]
          /\ UNCHANGED <<nodes, storage>>
  BY DEF SetAttr
<1>2. PICK b : b = nodes[n][i].at
  OBVIOUS
<1>3. b \in DOMAIN blocks /\ blocks[b].attr = a
  <2>1. n \in 1..Len(nodes)
    BY SeqDomain DEF SlotsGood
  <2>2. i \in 1..Len(nodes[n]) /\ nodes[n][i].attr = a
    BY <2>1, SeqDomain DEF SlotsGood, SlotOf
  <2> QED
    BY <1>2, <2>1, <2>2 DEF SlotsGood
<1>4. DOMAIN blocks' = DOMAIN blocks /\ DOMAIN given' = DOMAIN given
  BY <1>1
<1>5. blocks'[b] = [attr |-> a, record |-> record]
  <2>1. blocks'[b] = [blocks[b] EXCEPT !.record = record]
    BY <1>1, <1>2, <1>3
  <2>2. blocks[b] = [attr |-> blocks[b].attr, record |-> blocks[b].record]
    BY <1>3 DEF BlockInv, BlockRecords
  <2> QED
    BY <1>3, <2>1, <2>2
<1>6. \A c \in DOMAIN blocks : c # b => blocks'[c] = blocks[c] /\ given'[c] = given[c]
  BY <1>1, <1>2
<1>7. given'[b] = v
  BY <1>1, <1>2, <1>3
<1>8. Stored(b, a, record, v)
  <2>1. blocks'[b].attr = a /\ blocks'[b].record = record
    BY <1>5
  <2>2. DOMAIN blocks' = DOMAIN blocks \union {b} /\ DOMAIN given' = DOMAIN given \union {b}
    BY <1>3, <1>4
  <2> QED
    BY <1>6, <1>7, <2>1, <2>2 DEF Stored
<1>9. SlotsGood'
  <2>1. nodes' = nodes
    BY <1>1
  <2>2. \A c \in DOMAIN blocks : c \in DOMAIN blocks' /\ blocks'[c].attr = blocks[c].attr
    BY <1>3, <1>4, <1>5, <1>6
  <2> QED
    BY <2>1, <2>2 DEF SlotsGood
<1> QED
  BY <1>8, <1>9

(* or a new one; every slot keeps a block of its attribute.                *)
LEMMA AllocAttrDoes ==
    ASSUME BlockInv, SlotsGood, DOMAIN given = DOMAIN blocks,
           NEW n, n = Len(nodes), NEW a \in AttrNames, NEW record, NEW v,
           AllocAttr(n, a, record, v)
    PROVE  SlotsGood' /\ \E b : Stored(b, a, record, v)
<1> DEFINE align == TypeAlign(AttrType(a))
<1>1. PICK b : b = BlockAt(storage, align)
  OBVIOUS
<1> DEFINE block == [attr |-> a, record |-> record]
           slot == [attr |-> a, at |-> b]
<1> HIDE DEF block, slot
<1>2. /\ nodes' = [nodes EXCEPT ![n] = Append(@, slot)]
      /\ blocks' = [c \in DOMAIN blocks \union {b} |-> IF c = b THEN block ELSE blocks[c]]
      /\ given' = [c \in DOMAIN given \union {b} |-> IF c = b THEN v ELSE given[c]]
      /\ Fits(storage, TypeSize(AttrType(a)), align)
  BY <1>1 DEF AllocAttr, block, slot
<1>3. b \notin DOMAIN blocks
  BY <1>1, <1>2, AllocIsNew
<1>4. /\ DOMAIN blocks' = DOMAIN blocks \union {b}
      /\ DOMAIN given' = DOMAIN given \union {b}
      /\ blocks'[b] = block /\ given'[b] = v
  BY <1>2
<1>5. \A c \in DOMAIN blocks : c # b => blocks'[c] = blocks[c] /\ given'[c] = given[c]
  BY <1>2
<1>6. Stored(b, a, record, v)
  BY <1>4, <1>5 DEF Stored, block
<1>7. n \in 1..Len(nodes) /\ Len(nodes) \in Nat /\ DOMAIN nodes = 1..Len(nodes)
  BY SeqDomain DEF SlotsGood
<1>8. /\ IsSeq(nodes') /\ Len(nodes') = Len(nodes)
  <2>1. nodes' = [m \in 1..Len(nodes) |-> nodes'[m]]
    BY <1>2, <1>7
  <2> QED
    BY <1>7, <2>1, SeqMade
<1>9. ASSUME NEW m \in 1..Len(nodes)
      PROVE  /\ IsSeq(nodes'[m])
             /\ \A i \in 1..Len(nodes'[m]) :
                  /\ nodes'[m][i].at \in DOMAIN blocks'
                  /\ nodes'[m][i].attr = blocks'[nodes'[m][i].at].attr
  <2>1. PICK old : old = nodes[m]
    OBVIOUS
  <2>2. /\ IsSeq(old)
        /\ \A i \in 1..Len(old) :
              /\ old[i].at \in DOMAIN blocks
              /\ old[i].attr = blocks[old[i].at].attr
    BY <2>1 DEF SlotsGood
  <2>3. \A i \in 1..Len(old) :
              /\ old[i].at \in DOMAIN blocks'
              /\ old[i].attr = blocks'[old[i].at].attr
    <3> TAKE i \in 1..Len(old)
    <3>1. old[i].at \in DOMAIN blocks /\ old[i].at # b
      BY <1>3, <2>2
    <3>2. blocks'[old[i].at] = blocks[old[i].at]
      BY <1>5, <3>1
    <3> QED
      BY <1>4, <2>2, <3>1, <3>2
  <2>4. CASE m # n
    <3>1. nodes'[m] = old
      BY <1>2, <1>7, <2>1, <2>4
    <3> QED
      BY <2>2, <2>3, <3>1
  <2>5. CASE m = n
    <3>1. nodes'[m] = Append(old, slot)
      BY <1>2, <1>7, <2>1, <2>5
    <3>2. PICK new : new = Append(old, slot)
      OBVIOUS
    <3>3. /\ IsSeq(new) /\ Len(new) = Len(old) + 1
          /\ \A i \in 1..Len(old) : new[i] = old[i]
          /\ new[Len(old) + 1] = slot
      BY <2>2, <3>2, SeqAppended
    <3>4. \A i \in 1..Len(new) : i \in 1..Len(old) \/ i = Len(old) + 1
      BY <2>2, <3>3, SeqDomain
    <3>5. slot.at = b /\ slot.attr = a /\ blocks'[b].attr = a
      BY <1>4 DEF slot, block
    <3>6. \A i \in 1..Len(new) :
              /\ new[i].at \in DOMAIN blocks'
              /\ new[i].attr = blocks'[new[i].at].attr
      BY <1>4, <2>3, <3>3, <3>4, <3>5
    <3> QED
      BY <3>1, <3>2, <3>3, <3>6
  <2> QED
    BY <2>4, <2>5
<1>10. SlotsGood'
  BY <1>7, <1>8, <1>9 DEF SlotsGood
<1> QED
  BY <1>6, <1>10

(* What storing a value changes.                                           *)
LEMMA StoreDoes ==
    ASSUME BlockInv, SlotsGood, DOMAIN given = DOMAIN blocks,
           NEW a \in AttrNames, NEW record, NEW v, Store(Len(nodes), a, record, v)
    PROVE  SlotsGood' /\ \E b : Stored(b, a, record, v)
  BY SetAttrDoes, AllocAttrDoes DEF Store

-----------------------------------------------------------------------------
(* What is read back through a record stays the same while the arrays grow.*)

Extends(t, s) ==
    /\ Len(t) \in Nat
    /\ Len(s) <= Len(t)
    /\ \A i \in 1..Len(s) : t[i] = s[i]

Grows ==
    /\ Extends(points', points)
    /\ Extends(path_ops', path_ops)
    /\ \A s \in DOMAIN names : s \in DOMAIN names' /\ names'[s] = names[s]

(* What a block of an attribute and a record holds: Value.                 *)
Held(a, r) ==
    CASE AttrType(a) = "id" -> names[r.name]
      [] AttrType(a) = "color" ->
            [type |-> r.type, word |-> r.word,
             name |-> IF r.type = "url" THEN names[r.name] ELSE <<>>]
      [] AttrType(a) = "points" -> Points(r)
      [] AttrType(a) = "path" ->
            [k \in 1..r.count |->
                Op(path_ops[r.offset + k].code, Points(path_ops[r.offset + k].args))]
      [] AttrType(a) \notin {"id", "color", "points", "path"} -> r

(* A block's value is what its record holds.                               *)
LEMMA ValueIsHeld == ASSUME NEW b PROVE Value(b) = Held(blocks[b].attr, blocks[b].record)
  BY DEF Value, Held

(* A part of an array is the same part of a longer one.                    *)
LEMMA PartKept ==
    ASSUME NEW s, NEW t, IsSeq(s), Extends(t, s), NEW v, IsView(v, Len(s))
    PROVE  /\ IsView(v, Len(t))
           /\ SubSeq(t, v.offset + 1, v.offset + v.count)
              = SubSeq(s, v.offset + 1, v.offset + v.count)
<1>1. PICK o, c : o = v.offset /\ c = v.count
  OBVIOUS
<1>2. Len(s) \in Nat /\ Len(t) \in Nat /\ Len(s) <= Len(t)
  BY SeqDomain DEF Extends
<1>3. o \in Nat /\ c \in Nat /\ o + c <= Len(s)
  BY <1>1 DEF IsView
<1>4. IsView(v, Len(t))
  BY <1>1, <1>2, <1>3 DEF IsView
<1>5. PICK p : p = SubSeq(s, o + 1, o + c)
  OBVIOUS
<1>6. PICK q : q = SubSeq(t, o + 1, o + c)
  OBVIOUS
<1>7. o + 1 \in Int /\ o + c \in Int /\ (o + c) - (o + 1) + 1 = c
  BY <1>3
<1>8. (IF o + 1 <= o + c THEN (o + c) - (o + 1) + 1 ELSE 0) = c
  BY <1>3
<1>9. IsSeq(p) /\ Len(p) = c /\ \A i \in 1..c : p[i] = s[o + 1 + i - 1]
  BY <1>5, <1>7, <1>8, SeqPart
<1>10. IsSeq(q) /\ Len(q) = c /\ \A i \in 1..c : q[i] = t[o + 1 + i - 1]
  BY <1>6, <1>7, <1>8, SeqPart
<1>11. \A i \in 1..c : p[i] = q[i]
  <2> TAKE i \in 1..c
  <2>1. o + 1 + i - 1 \in 1..Len(s)
    BY <1>2, <1>3
  <2>2. t[o + 1 + i - 1] = s[o + 1 + i - 1]
    BY <2>1 DEF Extends
  <2> QED
    BY <1>9, <1>10, <2>2
<1>12. p = q
  BY <1>9, <1>10, <1>11, SeqSame
<1> QED
  BY <1>1, <1>4, <1>5, <1>6, <1>12

(* So what a record refers to stays, and what is read through it.          *)
LEMMA HeldKept ==
    ASSUME ArraysGood, Grows, NEW a, NEW r, RecordGood(a, r)
    PROVE  RecordGood(a, r)' /\ Held(a, r)' = Held(a, r)
<1>1. ASSUME NEW v, IsView(v, Len(points))
      PROVE  IsView(v, Len(points')) /\ Points(v)' = Points(v)
  BY <1>1, PartKept DEF ArraysGood, Grows, Points
<1>2. CASE AttrType(a) = "id"
  BY <1>2 DEF RecordGood, Held, Grows
<1>3. CASE AttrType(a) = "color"
  BY <1>3 DEF RecordGood, Held, Grows
<1>4. CASE AttrType(a) = "points"
  BY <1>1, <1>4 DEF RecordGood, Held
<1>5. CASE AttrType(a) = "path"
  <2>1. IsView(r, Len(path_ops))
    BY <1>5 DEF RecordGood
  <2>2. IsView(r, Len(path_ops'))
    BY <2>1, PartKept DEF ArraysGood, Grows
  <2>3. ASSUME NEW k \in 1..r.count
        PROVE  Op(path_ops[r.offset + k].code, Points(path_ops[r.offset + k].args))'
               = Op(path_ops[r.offset + k].code, Points(path_ops[r.offset + k].args))
    <3>1. r.offset + k \in 1..Len(path_ops)
      <4>1. Len(path_ops) \in Nat
        BY SeqDomain DEF ArraysGood
      <4> QED
        BY <2>1, <4>1 DEF IsView
    <3>2. PICK op : op = path_ops[r.offset + k]
      OBVIOUS
    <3>3. path_ops'[r.offset + k] = op
      BY <3>1, <3>2 DEF Grows, Extends
    <3>4. IsView(op.args, Len(points))
      BY <3>1, <3>2 DEF ArraysGood
    <3>5. Points(op.args)' = Points(op.args)
      BY <1>1, <3>4
    <3>6. Points(path_ops[r.offset + k].args)' = Points(op.args)'
      BY <3>3 DEF Points
    <3> QED
      BY <3>2, <3>3, <3>5, <3>6 DEF Op
  <2>4. Held(a, r)' = Held(a, r)
    BY <1>5, <2>3 DEF Held, Points, Op
  <2> QED
    BY <1>5, <2>2, <2>4 DEF RecordGood
<1>6. CASE AttrType(a) \notin {"id", "color", "points", "path"}
  BY <1>6 DEF RecordGood, Held
<1> QED
  BY <1>2, <1>3, <1>4, <1>5, <1>6

(* So a store keeps what the other blocks hold.                            *)
LEMMA StoredKeeps ==
    ASSUME ValuesGood, ArraysGood, ContentKept, Grows,
           NEW b, NEW a, NEW record, NEW v, Stored(b, a, record, v),
           GoodValue(a, v), RecordGood(a, record)', Held(a, record)' = v
    PROVE  ValuesGood' /\ ContentKept'
<1>1. DOMAIN given' = DOMAIN blocks' /\ DOMAIN blocks' = DOMAIN blocks \union {b}
  BY DEF ValuesGood, Stored
<1>2. ASSUME NEW c \in DOMAIN blocks'
      PROVE  /\ RecordGood(blocks[c].attr, blocks[c].record)'
             /\ GoodValue(blocks'[c].attr, given'[c])
             /\ Value(c)' = given'[c]
  <2>1. PICK ac, rc : ac = blocks'[c].attr /\ rc = blocks'[c].record
    OBVIOUS
  <2>2. /\ Value(c)' = Held(ac, rc)'
        /\ RecordGood(blocks[c].attr, blocks[c].record)' <=> RecordGood(ac, rc)'
    BY <2>1 DEF Value, Held, RecordGood
  <2>3. CASE c = b
    <3>1. ac = a /\ rc = record /\ given'[c] = v
      BY <2>1, <2>3 DEF Stored
    <3> QED
      BY <2>1, <2>2, <3>1
  <2>4. CASE c # b
    <3>1. c \in DOMAIN blocks /\ blocks'[c] = blocks[c] /\ given'[c] = given[c]
      BY <1>1, <2>4 DEF Stored
    <3>2. RecordGood(ac, rc) /\ GoodValue(ac, given[c])
      BY <2>1, <3>1 DEF ValuesGood
    <3>3. Held(ac, rc) = given[c]
      BY <2>1, <3>1, ValueIsHeld DEF ContentKept
    <3>4. RecordGood(ac, rc)' /\ Held(ac, rc)' = Held(ac, rc)
      BY <3>2, HeldKept
    <3> QED
      BY <2>1, <2>2, <3>1, <3>2, <3>3, <3>4
  <2> QED
    BY <2>3, <2>4
<1> QED
  BY <1>1, <1>2 DEF ValuesGood, ContentKept

-----------------------------------------------------------------------------
(* Views of what was added to an array are apart from those of the rest.   *)

Fresh(v, from, length) == IsView(v, length) /\ (v.count > 0 => v.offset >= from)

(* If each view is an old one or of what was added, and those of what was  *)
(* added are apart from each other, all are.                               *)
LEMMA ApartGrown ==
    ASSUME NEW old, NEW new, NEW m \in Nat, NEW n \in Nat, m <= n, Apart(old, m),
           \A v \in old : IsView(v.view, m),
           \A v \in new : v \in old \/ Fresh(v.view, m, n),
           \A v, w \in new : v \notin old /\ w \notin old /\ v.of # w.of => Disjoint(v.view, w.view)
    PROVE  Apart(new, n)
<1>1. ASSUME NEW v \in new PROVE IsView(v.view, n)
  BY DEF IsView, Fresh
<1>2. ASSUME NEW v \in new, NEW w \in new, v.of # w.of PROVE Disjoint(v.view, w.view)
  <2>1. CASE v \in old /\ w \in old
    BY <1>2, <2>1 DEF Apart
  <2>2. CASE v \in old /\ w \notin old
    <3>1. IsView(v.view, m) /\ Fresh(w.view, m, n)
      BY <2>2
    <3> QED
      BY <3>1 DEF IsView, Fresh, Disjoint
  <2>3. CASE v \notin old /\ w \in old
    <3>1. IsView(w.view, m) /\ Fresh(v.view, m, n)
      BY <2>3
    <3> QED
      BY <3>1 DEF IsView, Fresh, Disjoint
  <2>4. CASE v \notin old /\ w \notin old
    BY <1>2, <2>4
  <2> QED
    BY <2>1, <2>2, <2>3, <2>4
<1> QED
  BY <1>1, <1>2 DEF Apart, IsView

(* The view of a new block takes the place of the one it had.              *)
LEMMA ViewsOfStored ==
    ASSUME NEW b, NEW a, NEW record, NEW v, Stored(b, a, record, v), NEW type,
           NEW w \in ViewsOf(type)', w \notin ViewsOf(type)
    PROVE  AttrType(a) = type /\ w.of = <<"block", b>> /\ w.view = record
<1>1. PICK c \in DOMAIN blocks' :
          /\ AttrType(blocks'[c].attr) = type
          /\ w = [of |-> <<"block", c>>, view |-> blocks'[c].record]
  BY DEF ViewsOf
<1>2. CASE c = b
  BY <1>1, <1>2 DEF Stored
<1>3. CASE c # b
  <2>1. c \in DOMAIN blocks /\ blocks'[c] = blocks[c]
    BY <1>3 DEF Stored
  <2>2. w \in ViewsOf(type)
    BY <1>1, <2>1 DEF ViewsOf
  <2> QED
    BY <2>2
<1> QED
  BY <1>2, <1>3

(* The operations that were added have arguments apart from each other's.  *)
Added == {i \in 1..Len(path_ops') : i > Len(path_ops)}

OpsFresh(a) ==
    /\ \A i \in Added : Fresh(path_ops'[i].args, Len(points), Len(points'))
    /\ \A i, j \in Added : i # j => Disjoint(path_ops'[i].args, path_ops'[j].args)
    /\ Added # {} => AttrType(a) = "path"

(* After a store the views of operations are apart,                        *)
LEMMA OpViewsKept ==
    ASSUME ValuesGood, ArraysGood, ViewsApart, Grows,
           NEW b, NEW a, NEW record, NEW v, Stored(b, a, record, v),
           AttrType(a) = "path" => Fresh(record, Len(path_ops), Len(path_ops'))
    PROVE  Apart(OpViews', Len(path_ops'))
<1>1. PICK m, n : m = Len(path_ops) /\ n = Len(path_ops')
  OBVIOUS
<1>2. m \in Nat /\ n \in Nat /\ m <= n
  BY <1>1, SeqDomain DEF ArraysGood, Grows, Extends
<1>3. PICK old : old = OpViews
  OBVIOUS
<1>4. PICK new : new = OpViews'
  OBVIOUS
<1>5. \A w \in old : IsView(w.view, m)
  BY <1>1, <1>3 DEF ValuesGood, RecordGood, OpViews, ViewsOf
<1>6. \A w \in new : w \notin old => AttrType(a) = "path" /\ w.of = <<"block", b>> /\ w.view = record
  <2> TAKE w \in new
  <2> HAVE w \notin old
  <2>1. w \in ViewsOf("path")' /\ w \notin ViewsOf("path")
    BY <1>3, <1>4 DEF OpViews
  <2> QED
    BY <2>1, ViewsOfStored
<1>7. \A w \in new : w \in old \/ Fresh(w.view, m, n)
  BY <1>1, <1>6
<1>8. \A w, u \in new : w \notin old /\ u \notin old /\ w.of # u.of => Disjoint(w.view, u.view)
  BY <1>6
<1>9. Apart(old, m)
  BY <1>1, <1>3 DEF ViewsApart
<1>10. Apart(new, n)
  BY <1>2, <1>5, <1>7, <1>8, <1>9, ApartGrown
<1> QED
  BY <1>1, <1>4, <1>10

(* and so are those of points.                                             *)
LEMMA PointViewsKept ==
    ASSUME ValuesGood, ArraysGood, ViewsApart, Grows,
           NEW b, NEW a, NEW record, NEW v, Stored(b, a, record, v), OpsFresh(a),
           AttrType(a) = "points" => Fresh(record, Len(points), Len(points')),
           IsSeq(path_ops')
    PROVE  Apart(PointViews', Len(points'))
<1>1. PICK m, n : m = Len(points) /\ n = Len(points')
  OBVIOUS
<1>2. m \in Nat /\ n \in Nat /\ m <= n
  BY <1>1, SeqDomain DEF ArraysGood, Grows, Extends
<1>3. PICK old : old = PointViews
  OBVIOUS
<1>4. PICK new : new = PointViews'
  OBVIOUS
<1>5. \A w \in old : IsView(w.view, m)
  <2> TAKE w \in old
  <2>1. CASE w \in ViewsOf("points")
    BY <1>1, <2>1 DEF ValuesGood, RecordGood, ViewsOf
  <2>2. CASE w \notin ViewsOf("points")
    <3>1. PICK i \in DOMAIN path_ops : w = [of |-> <<"operation", i>>, view |-> path_ops[i].args]
      BY <1>3, <2>2 DEF PointViews
    <3>2. i \in 1..Len(path_ops)
      BY <3>1, SeqDomain DEF ArraysGood
    <3> QED
      BY <1>1, <3>1, <3>2 DEF ArraysGood
  <2> QED
    BY <2>1, <2>2
<1>6. ASSUME NEW w \in new, w \notin old
      PROVE  \/ AttrType(a) = "points" /\ w.of = <<"block", b>> /\ w.view = record
             \/ \E i \in Added : w.of = <<"operation", i>> /\ w.view = path_ops'[i].args
  <2>1. CASE w \in ViewsOf("points")'
    <3>1. w \notin ViewsOf("points")
      BY <1>3, <1>6 DEF PointViews
    <3> QED
      BY <2>1, <3>1, ViewsOfStored
  <2>2. CASE w \notin ViewsOf("points")'
    <3>1. PICK i \in DOMAIN path_ops' : w = [of |-> <<"operation", i>>, view |-> path_ops'[i].args]
      BY <1>4, <2>2 DEF PointViews
    <3>2. i \in 1..Len(path_ops') /\ Len(path_ops) \in Nat /\ DOMAIN path_ops = 1..Len(path_ops)
      BY <3>1, SeqDomain DEF ArraysGood
    <3>3. CASE i > Len(path_ops)
      <4>1. i \in Added
        BY <3>2, <3>3 DEF Added
      <4> QED
        BY <3>1, <4>1
    <3>4. CASE ~ (i > Len(path_ops))
      <4>1. i \in 1..Len(path_ops)
        BY <3>2, <3>4
      <4>2. path_ops'[i] = path_ops[i]
        BY <4>1 DEF Grows, Extends
      <4>3. w \in old
        BY <1>3, <3>1, <3>2, <4>1, <4>2 DEF PointViews
      <4> QED
        BY <1>6, <4>3
    <3> QED
      BY <3>3, <3>4
  <2> QED
    BY <2>1, <2>2
<1>7. \A w \in new : w \in old \/ Fresh(w.view, m, n)
  BY <1>1, <1>6 DEF OpsFresh
<1>8. \A w, u \in new : w \notin old /\ u \notin old /\ w.of # u.of => Disjoint(w.view, u.view)
  <2> TAKE w, u \in new
  <2> HAVE w \notin old /\ u \notin old /\ w.of # u.of
  <2>1. CASE AttrType(a) = "points"
    <3>1. Added = {}
      BY <2>1 DEF OpsFresh
    <3> QED
      BY <1>6, <3>1
  <2>2. CASE AttrType(a) # "points"
    <3>1. PICK i \in Added : w.of = <<"operation", i>> /\ w.view = path_ops'[i].args
      BY <1>6, <2>2
    <3>2. PICK j \in Added : u.of = <<"operation", j>> /\ u.view = path_ops'[j].args
      BY <1>6, <2>2
    <3>3. i # j
      BY <3>1, <3>2
    <3> QED
      BY <3>1, <3>2, <3>3 DEF OpsFresh
  <2> QED
    BY <2>1, <2>2
<1>9. Apart(old, m)
  BY <1>1, <1>3 DEF ViewsApart
<1>10. Apart(new, n)
  BY <1>2, <1>5, <1>7, <1>8, <1>9, ApartGrown
<1> QED
  BY <1>1, <1>4, <1>10

-----------------------------------------------------------------------------
(* What a store needs to keep the invariant; then the store of each type.  *)

Suits(a, record, v) ==
    /\ RecordGood(a, record)'
    /\ Held(a, record)' = v
    /\ AttrType(a) = "path" => Fresh(record, Len(path_ops), Len(path_ops'))
    /\ AttrType(a) = "points" => Fresh(record, Len(points), Len(points'))
    /\ OpsFresh(a)

(* If a record suits a value, its store keeps the invariant.               *)
LEMMA StoreGood ==
    ASSUME StoreInv, BlockInv', NEW a \in AttrNames, NEW record, NEW v, GoodValue(a, v),
           Store(Len(nodes), a, record, v), Grows, ArraysGood', NamesGood', Suits(a, record, v)
    PROVE  StoreInv'
<1>1. SlotsGood' /\ \E b : Stored(b, a, record, v)
  BY StoreDoes DEF StoreInv, ValuesGood
<1>2. PICK b : Stored(b, a, record, v)
  BY <1>1
<1>3. ValuesGood' /\ ContentKept'
  BY <1>2, StoredKeeps DEF StoreInv, Suits
<1>4. ValuesGood /\ ArraysGood /\ ViewsApart
  BY DEF StoreInv
<1>5. /\ AttrType(a) = "path" => Fresh(record, Len(path_ops), Len(path_ops'))
      /\ AttrType(a) = "points" => Fresh(record, Len(points), Len(points'))
      /\ OpsFresh(a)
  BY DEF Suits
<1>6. Apart(OpViews', Len(path_ops'))
  BY <1>2, <1>4, <1>5, OpViewsKept
<1>7. Apart(PointViews', Len(points'))
  <2>1. IsSeq(path_ops')
    BY DEF ArraysGood
  <2> QED
    BY <1>2, <1>4, <1>5, <2>1, PointViewsKept
<1>8. ViewsApart'
  BY <1>6, <1>7 DEF ViewsApart
<1> QED
  BY <1>1, <1>3, <1>8 DEF StoreInv

(* A name that is stored is behind all others.                             *)
LEMMA NameStored ==
    ASSUME NamesGood, NEW name, NameLen(name) \in Nat, AllocString(name)
    PROVE  /\ NamesGood'
           /\ strings.offset \in DOMAIN names'
           /\ names'[strings.offset] = name
           /\ \A s \in DOMAIN names : s \in DOMAIN names' /\ names'[s] = names[s]
<1> DEFINE size == NameLen(name) + 1
<1>1. size \in Nat /\ size > 0
  OBVIOUS
<1>2. /\ Fits(strings, size, 1)
      /\ strings' = Grown(strings, size, 1)
      /\ names' = [s \in DOMAIN names \union {strings.offset} |->
                      IF s = strings.offset THEN name ELSE names[s]]
  BY DEF AllocString
<1> HIDE DEF size
<1>3. /\ strings' \in [offset : Nat, capacity : Nat]
      /\ strings'.offset <= strings'.capacity
      /\ strings'.offset > strings.offset
  <2>1. /\ Grown(strings, size, 1) \in [offset : Nat, capacity : Nat]
        /\ Grown(strings, size, 1).offset <= Grown(strings, size, 1).capacity
        /\ BlockAt(strings, 1) \in Nat
        /\ BlockAt(strings, 1) >= strings.offset
        /\ BlockAt(strings, 1) + size <= Grown(strings, size, 1).offset
    BY <1>1, <1>2, GrownProperties DEF NamesGood
  <2>2. strings.offset \in Nat /\ strings'.offset \in Nat
    BY <1>2, <2>1 DEF NamesGood
  <2>3. BlockAt(strings, 1) + size <= strings'.offset
    BY <1>2, <2>1
  <2>4. strings'.offset > strings.offset
    BY <1>1, <2>1, <2>2, <2>3
  <2> QED
    BY <1>2, <2>1, <2>4
<1>4. strings.offset \in Nat /\ \A s \in DOMAIN names : s \in Nat /\ s < strings.offset
  BY DEF NamesGood
<1>5. DOMAIN names' = DOMAIN names \union {strings.offset}
  BY <1>2
<1>6. NamesGood'
  <2>1. \A s \in DOMAIN names' : s \in Nat /\ s < strings'.offset
    <3> TAKE s \in DOMAIN names'
    <3>1. strings'.offset \in Nat
      BY <1>3
    <3> QED
      BY <1>3, <1>4, <1>5, <3>1
  <2> QED
    BY <1>3, <2>1 DEF NamesGood
<1>7. \A s \in DOMAIN names : s # strings.offset
  BY <1>4
<1> QED
  BY <1>2, <1>5, <1>6, <1>7

(* An array that is left alone.                                            *)
LEMMA SeqExtendsItself == ASSUME NEW s, IsSeq(s) PROVE Extends(s, s)
  BY SeqDomain DEF Extends

(* What a record holds stays the same when the arrays grow.                *)
LEMMA ArraysKept ==
    ASSUME ArraysGood, UNCHANGED <<points, path_ops>>, NEW a,
           \A s \in DOMAIN names : s \in DOMAIN names' /\ names'[s] = names[s]
    PROVE  ArraysGood' /\ Grows /\ OpsFresh(a)
<1>1. ArraysGood'
  BY DEF ArraysGood
<1>2. Grows
  BY SeqExtendsItself DEF ArraysGood, Grows
<1>3. Added = {}
  <2>1. Len(path_ops) \in Nat
    BY SeqDomain DEF ArraysGood
  <2>2. Len(path_ops') = Len(path_ops)
    OBVIOUS
  <2> QED
    BY <2>1, <2>2 DEF Added
<1> QED
  BY <1>1, <1>2, <1>3 DEF OpsFresh

(* An id is a name,                                                        *)
LEMMA StoreIdKeeps ==
    ASSUME StoreInv, BlockInv', NEW a \in AttrNames, NEW v, GoodValue(a, v),
           StoreId(Len(nodes), a, v)
    PROVE  StoreInv'
<1>1. PICK record : record = [name |-> strings.offset]
  OBVIOUS
<1>2. /\ AttrType(a) = "id" /\ AllocString(v) /\ UNCHANGED <<points, path_ops>>
      /\ Store(Len(nodes), a, record, v)
  BY <1>1 DEF StoreId
<1>3. NamesGood /\ ArraysGood /\ NameLen(v) \in Nat
  BY <1>2 DEF StoreInv, GoodValue
<1>4. /\ NamesGood'
      /\ record.name \in DOMAIN names'
      /\ names'[record.name] = v
      /\ \A s \in DOMAIN names : s \in DOMAIN names' /\ names'[s] = names[s]
  BY <1>1, <1>2, <1>3, NameStored
<1>5. ArraysGood' /\ Grows /\ OpsFresh(a)
  BY <1>2, <1>3, <1>4, ArraysKept
<1>6. Suits(a, record, v)
  BY <1>2, <1>4, <1>5 DEF Suits, RecordGood, Held
<1> QED
  BY <1>2, <1>4, <1>5, <1>6, StoreGood

(* a colour may be,                                                        *)
LEMMA StoreColorKeeps ==
    ASSUME StoreInv, BlockInv', NEW a \in AttrNames, NEW v, GoodValue(a, v),
           StoreColor(Len(nodes), a, v)
    PROVE  StoreInv'
<1>1. PICK record : record = [type |-> v.type, word |-> v.word, name |-> strings.offset]
  OBVIOUS
<1>2. /\ AttrType(a) = "color" /\ UNCHANGED <<points, path_ops>>
      /\ Store(Len(nodes), a, record, v)
      /\ \/ v.type = "url" /\ AllocString(v.name)
         \/ v.type # "url" /\ UNCHANGED <<strings, names>>
  BY <1>1 DEF StoreColor
<1>3. NamesGood /\ ArraysGood /\ GoodColor(v)
  BY <1>2 DEF StoreInv, GoodValue
<1>4. record.type = v.type /\ record.word = v.word /\ record.name = strings.offset
  BY <1>1
<1>5. /\ NamesGood'
      /\ v.type = "url" => record.name \in DOMAIN names' /\ names'[record.name] = v.name
      /\ \A s \in DOMAIN names : s \in DOMAIN names' /\ names'[s] = names[s]
  <2>1. CASE v.type = "url"
    <3>1. AllocString(v.name) /\ NameLen(v.name) \in Nat
      BY <1>2, <1>3, <2>1 DEF GoodColor
    <3> QED
      BY <1>3, <1>4, <3>1, NameStored
  <2>2. CASE v.type # "url"
    <3>1. UNCHANGED <<strings, names>>
      BY <1>2, <2>2
    <3> QED
      BY <1>3, <2>2, <3>1 DEF NamesGood
  <2> QED
    BY <2>1, <2>2
<1>6. ArraysGood' /\ Grows /\ OpsFresh(a)
  BY <1>2, <1>3, <1>5, ArraysKept
<1>7. Held(a, record)' = v
  <2>1. Held(a, record)' =
            [type |-> record.type, word |-> record.word,
             name |-> IF record.type = "url" THEN names'[record.name] ELSE <<>>]
    BY <1>2 DEF Held
  <2>2. (IF record.type = "url" THEN names'[record.name] ELSE <<>>) = v.name
    BY <1>3, <1>4, <1>5 DEF GoodColor
  <2> QED
    BY <1>3, <1>4, <2>1, <2>2 DEF GoodColor
<1>8. Suits(a, record, v)
  BY <1>2, <1>4, <1>5, <1>6, <1>7 DEF Suits, RecordGood
<1> QED
  BY <1>2, <1>5, <1>6, <1>8, StoreGood

(* and what is kept in the record itself needs no array.                   *)
LEMMA StorePlainKeeps ==
    ASSUME StoreInv, BlockInv', NEW a \in AttrNames, NEW v, GoodValue(a, v),
           StorePlain(Len(nodes), a, v)
    PROVE  StoreInv'
<1>1. /\ AttrType(a) \notin {"id", "color", "points", "path"}
      /\ Store(Len(nodes), a, v, v)
      /\ UNCHANGED <<strings, names, points, path_ops>>
  BY DEF StorePlain, array_vars
<1>2. NamesGood /\ ArraysGood
  BY DEF StoreInv
<1>3. NamesGood'
  BY <1>1, <1>2 DEF NamesGood
<1>4. ArraysGood' /\ Grows /\ OpsFresh(a)
  BY <1>1, <1>2, ArraysKept
<1>5. Suits(a, v, v)
  BY <1>1, <1>4 DEF Suits, RecordGood, Held
<1> QED
  BY <1>1, <1>3, <1>4, <1>5, StoreGood

(* What was added to an array is found where it was added.                 *)
LEMMA PartFound ==
    ASSUME NEW u, NEW t, IsSeq(t), NEW o \in Nat, \A i \in 1..Len(t) : u[o + i] = t[i]
    PROVE  SubSeq(u, o + 1, o + Len(t)) = t
<1>1. PICK n : n = Len(t)
  OBVIOUS
<1>2. n \in Nat
  BY <1>1, SeqDomain
<1>3. PICK p : p = SubSeq(u, o + 1, o + n)
  OBVIOUS
<1>4. o + 1 \in Int /\ o + n \in Int /\ (o + n) - (o + 1) + 1 = n
  BY <1>2
<1>5. (IF o + 1 <= o + n THEN (o + n) - (o + 1) + 1 ELSE 0) = n
  BY <1>2
<1>6. IsSeq(p) /\ Len(p) = n /\ \A i \in 1..n : p[i] = u[o + 1 + i - 1]
  <2>1. PICK lo, hi : lo = o + 1 /\ hi = o + n
    OBVIOUS
  <2>2. lo \in Int /\ hi \in Int /\ hi - lo + 1 = n /\ p = SubSeq(u, lo, hi)
    BY <1>3, <1>4, <2>1
  <2>3. /\ IsSeq(p) /\ Len(p) = (IF lo <= hi THEN hi - lo + 1 ELSE 0)
        /\ \A i \in 1..(hi - lo + 1) : p[i] = u[lo + i - 1]
    BY <2>2, SeqPart
  <2>4. Len(p) = n
    BY <1>5, <2>1, <2>3
  <2> QED
    BY <2>1, <2>2, <2>3, <2>4
<1>7. \A i \in 1..n : p[i] = t[i]
  <2> TAKE i \in 1..n
  <2>1. o + 1 + i - 1 = o + i
    OBVIOUS
  <2> QED
    BY <1>1, <1>6, <2>1
<1>8. p = t
  BY <1>1, <1>6, <1>7, SeqSame
<1> QED
  BY <1>1, <1>3, <1>8

(* A sequence is extended by joining another to it.                        *)
LEMMA JoinExtends ==
    ASSUME NEW u, NEW s, NEW t, IsSeq(s), IsSeq(t), JoinOf(u, s, t) PROVE Extends(u, s)
<1>1. Len(s) \in Nat /\ Len(t) \in Nat
  BY SeqDomain
<1> QED
  BY <1>1 DEF JoinOf, Extends

(* Points are added to the array.                                          *)
LEMMA StorePointsKeeps ==
    ASSUME StoreInv, BlockInv', NEW a \in AttrNames, NEW v, GoodValue(a, v),
           StorePoints(Len(nodes), a, v)
    PROVE  StoreInv'
<1>1. PICK record : record = View(Len(points), Len(v))
  OBVIOUS
<1>2. /\ AttrType(a) = "points"
      /\ Store(Len(nodes), a, record, v)
      /\ points' = points \o v
      /\ UNCHANGED <<strings, names, path_ops>>
  BY <1>1 DEF StorePoints
<1>3. NamesGood /\ ArraysGood /\ IsSeq(v) /\ IsSeq(points) /\ IsSeq(path_ops)
  BY <1>2 DEF StoreInv, GoodValue, ArraysGood
<1>4. NamesGood'
  BY <1>2, <1>3 DEF NamesGood
<1>5. JoinOf(points', points, v)
  BY <1>2, <1>3, JoinIs
<1>6. /\ Len(points) \in Nat /\ Len(v) \in Nat /\ Len(path_ops) \in Nat
      /\ Len(points') = Len(points) + Len(v)
      /\ IsSeq(points')
  BY <1>3, <1>5, SeqDomain DEF JoinOf
<1>7. Extends(points', points) /\ Extends(path_ops', path_ops)
  BY <1>2, <1>3, <1>5, JoinExtends, SeqExtendsItself
<1>8. Grows
  BY <1>2, <1>7 DEF Grows
<1>9. ArraysGood'
  <2>1. \A i \in 1..Len(path_ops) : IsView(path_ops[i].args, Len(points'))
    BY <1>3, <1>7, PartKept DEF ArraysGood
  <2> QED
    BY <1>2, <1>3, <1>6, <2>1 DEF ArraysGood
<1>10. record.offset = Len(points) /\ record.count = Len(v)
  BY <1>1 DEF View
<1>11. Fresh(record, Len(points), Len(points'))
  BY <1>6, <1>10 DEF Fresh, IsView
<1>12. Held(a, record)' = v
  <2>1. Held(a, record)' = Points(record)'
    BY <1>2 DEF Held
  <2>2. Points(record)' = SubSeq(points', Len(points) + 1, Len(points) + Len(v))
    BY <1>10 DEF Points
  <2>3. SubSeq(points', Len(points) + 1, Len(points) + Len(v)) = v
    BY <1>3, <1>5, <1>6, PartFound DEF JoinOf
  <2> QED
    BY <2>1, <2>2, <2>3
<1>13. Added = {}
  BY <1>2, <1>6 DEF Added
<1>14. Suits(a, record, v)
  BY <1>2, <1>11, <1>12, <1>13 DEF Suits, RecordGood, OpsFresh, Fresh
<1> QED
  BY <1>2, <1>4, <1>8, <1>9, <1>14, StoreGood

-----------------------------------------------------------------------------
(* A path: its operations are added to one array, their arguments, one     *)
(* after the other, to the other.                                          *)

ArgsOf(v) == [k \in 1..Len(v) |-> v[k].args]

(* The arguments of all operations, up to each of them.                    *)
LEMMA ArgsJoined ==
    ASSUME NEW v, GoodPath(v)
    PROVE  \E f : /\ Joined(f, ArgsOf(v), Len(v))
                  /\ IsSeq(f[Len(v)])
                  /\ \A k \in 1..(Len(v) + 1) : ArgsBefore(v, k) = f[k - 1]
<1>1. PICK n : n = Len(v)
  OBVIOUS
<1>2. PICK q : q = ArgsOf(v)
  OBVIOUS
<1>3. n \in Nat /\ DOMAIN v = 1..n
  BY <1>1, SeqDomain DEF GoodPath
<1>4. \A k \in 1..n : q[k] = v[k].args /\ IsSeq(q[k])
  BY <1>1, <1>2, <1>3 DEF ArgsOf, GoodPath
<1>5. PICK f : Joins(f, q, n) /\ \A k \in 0..n : IsSeq(f[k])
  BY <1>3, <1>4, JoinsExist
<1>6. Joined(f, q, n)
  BY <1>3, <1>4, <1>5, JoinsHold
<1>7. ASSUME NEW k \in 1..(n + 1) PROVE ArgsBefore(v, k) = f[k - 1]
  <2>1. PICK p : p = [j \in 1..(k - 1) |-> v[j].args]
    OBVIOUS
  <2>2. k - 1 \in 0..n /\ k - 1 \in Nat
    BY <1>3
  <2>3. p = [j \in 1..(k - 1) |-> p[j]]
    BY <2>1
  <2>4. IsSeq(p) /\ Len(p) = k - 1
    BY <2>2, <2>3, SeqMade
  <2>5. \A j \in 1..(k - 1) : p[j] = q[j]
    <3> TAKE j \in 1..(k - 1)
    <3>1. j \in 1..n
      BY <1>3
    <3> QED
      BY <1>4, <2>1, <3>1
  <2>6. FlattenSeq(p) = f[k - 1]
    <3>1. PICK j : j = k - 1
      OBVIOUS
    <3>2. j \in 0..n /\ Len(p) = j /\ \A i \in 1..j : p[i] = q[i]
      BY <2>2, <2>4, <2>5, <3>1
    <3>3. n \in Nat /\ Joins(f, q, n) /\ \A i \in 1..n : IsSeq(q[i])
      BY <1>3, <1>4, <1>5
    <3>4. FlattenSeq(p) = f[j]
      BY ONLY <2>4, <3>2, <3>3, FlattenIs
    <3> QED
      BY <3>1, <3>4
  <2> QED
    BY <2>1, <2>6 DEF ArgsBefore
<1>8. IsSeq(f[n])
  <2>1. n \in 0..n
    BY <1>3
  <2> QED
    BY <1>5, <2>1
<1> QED
  BY <1>1, <1>2, <1>6, <1>7, <1>8

(* Where the operations are said to have their arguments: behind the first *)
(* m points, and as many as ends has for those before them.                *)
RecordsAre(records, v, ends, m) ==
    /\ IsSeq(records)
    /\ Len(records) = Len(v)
    /\ \A k \in 1..Len(v) :
          /\ records[k].code = v[k].code
          /\ \/ v[k].args = <<>> /\ records[k].args = View(0, 0)
             \/ records[k].args = View(m + ends[k - 1], Len(v[k].args))

(* The records of the operations are such.                                 *)
LEMMA OpRecordsAre ==
    ASSUME NEW v, GoodPath(v), NEW f, \A k \in 1..(Len(v) + 1) : ArgsBefore(v, k) = f[k - 1],
           NEW ends, \A k \in 0..Len(v) : ends[k] = Len(f[k])
    PROVE  RecordsAre(OpRecords(v), v, ends, Len(points))
<1>1. Len(v) \in Nat /\ DOMAIN v = 1..Len(v)
  BY SeqDomain DEF GoodPath
<1>2. PICK r : r = OpRecords(v)
  OBVIOUS
<1>3. r = [i \in 1..Len(v) |-> r[i]]
  BY <1>1, <1>2 DEF OpRecords
<1>4. IsSeq(r) /\ Len(r) = Len(v)
  BY <1>1, <1>3, SeqMade
<1>5. ASSUME NEW k \in 1..Len(v)
      PROVE  /\ r[k].code = v[k].code
             /\ \/ v[k].args = <<>> /\ r[k].args = View(0, 0)
                \/ r[k].args = View(Len(points) + ends[k - 1], Len(v[k].args))
  <2>1. r[k] = [code |-> v[k].code,
                args |-> IF stage = "source" /\ v[k].args = <<>> THEN View(0, 0)
                         ELSE View(Len(points) + Len(ArgsBefore(v, k)), Len(v[k].args))]
    BY <1>1, <1>2 DEF OpRecords
  <2>2. k \in 1..(Len(v) + 1) /\ k - 1 \in 0..Len(v)
    BY <1>1
  <2>3. Len(ArgsBefore(v, k)) = ends[k - 1]
    BY <2>2
  <2> QED
    BY <2>1, <2>3
<1> QED
  BY <1>2, <1>4, <1>5 DEF RecordsAre

(* They have them there, each its own.                                     *)
LEMMA PathViews ==
    ASSUME NEW v, GoodPath(v), NEW f, Joined(f, ArgsOf(v), Len(v)), IsSeq(f[Len(v)]),
           NEW ends, \A k \in 0..Len(v) : ends[k] = Len(f[k]),
           NEW s, IsSeq(s), NEW u, JoinOf(u, s, f[Len(v)]),
           NEW records, RecordsAre(records, v, ends, Len(s))
    PROVE  /\ \A k \in 1..Len(v) :
                /\ Fresh(records[k].args, Len(s), Len(u))
                /\ SubSeq(u, records[k].args.offset + 1,
                             records[k].args.offset + records[k].args.count) = v[k].args
           /\ \A k, j \in 1..Len(v) : k # j => Disjoint(records[k].args, records[j].args)
<1>1. PICK n, m, l, g : n = Len(v) /\ m = Len(s) /\ l = Len(u) /\ g = f[Len(v)]
  OBVIOUS
<1>2. n \in Nat /\ DOMAIN v = 1..n /\ m \in Nat
  BY <1>1, SeqDomain DEF GoodPath
<1>3. PICK q : q = ArgsOf(v)
  OBVIOUS
<1>4. \A k \in 1..n : q[k] = v[k].args /\ IsSeq(q[k]) /\ Len(q[k]) \in Nat
  BY <1>1, <1>2, <1>3, SeqDomain DEF ArgsOf, GoodPath
<1>5. /\ \A k \in 0..n : ends[k] \in Nat
      /\ \A k \in 0..n : \A j \in k..n : ends[k] <= ends[j]
      /\ \A k \in 1..n : ends[k] = ends[k - 1] + Len(q[k])
      /\ \A k \in 1..n : \A x \in 1..Len(q[k]) : g[ends[k - 1] + x] = q[k][x]
      /\ Len(g) = ends[n]
  <2>1. Joined(f, q, n)
    BY <1>1, <1>3
  <2>2. \A k \in 0..n : ends[k] = Len(f[k])
    BY <1>1
  <2>3. \A k \in 1..n : k \in 0..n /\ k - 1 \in 0..n
    BY <1>2
  <2>4. \A k \in 0..n : \A j \in k..n : j \in 0..n
    BY <1>2
  <2>5. n \in 0..n /\ g = f[n]
    BY <1>1, <1>2
  <2>6. \A k \in 0..n : ends[k] \in Nat
    BY <2>1, <2>2 DEF Joined
  <2>7. \A k \in 0..n : \A j \in k..n : ends[k] <= ends[j]
    BY <2>1, <2>2, <2>4 DEF Joined
  <2>8. \A k \in 1..n : ends[k] = ends[k - 1] + Len(q[k])
    BY <2>1, <2>2, <2>3 DEF Joined
  <2>9. \A k \in 1..n : \A x \in 1..Len(q[k]) : g[ends[k - 1] + x] = q[k][x]
    <3>1. ASSUME NEW k \in 1..n, NEW x \in 1..Len(q[k]) PROVE g[ends[k - 1] + x] = q[k][x]
      <4>1. f[n][Len(f[k - 1]) + x] = q[k][x]
        BY <2>1 DEF Joined
      <4>2. ends[k - 1] = Len(f[k - 1])
        BY <2>2, <2>3
      <4> QED
        BY <2>5, <4>1, <4>2
    <3> QED
      BY <3>1
  <2> QED
    BY <2>2, <2>5, <2>6, <2>7, <2>8, <2>9
<1>6. l = m + ends[n] /\ ends[n] \in Nat /\ \A x \in 1..ends[n] : u[m + x] = g[x]
  <2>1. n \in 0..n
    BY <1>2
  <2> QED
    BY <1>1, <1>5, <2>1 DEF JoinOf
<1>7. ASSUME NEW k \in 1..n
      PROVE  /\ ends[k - 1] \in Nat /\ ends[k] \in Nat /\ ends[k] <= ends[n]
             /\ Len(q[k]) \in Nat /\ ends[k] = ends[k - 1] + Len(q[k])
  <2>1. k \in 0..n /\ k - 1 \in 0..n /\ n \in k..n
    BY <1>2
  <2> QED
    BY <1>4, <1>5, <2>1
<1>8. ASSUME NEW k \in 1..n
      PROVE  \/ /\ v[k].args = <<>>
                /\ records[k].args.offset = 0 /\ records[k].args.count = 0
             \/ /\ records[k].args.offset = m + ends[k - 1]
                /\ records[k].args.count = Len(q[k])
  <2>1. \/ v[k].args = <<>> /\ records[k].args = View(0, 0)
        \/ records[k].args = View(m + ends[k - 1], Len(v[k].args))
    BY <1>1 DEF RecordsAre
  <2> QED
    BY <1>4, <2>1 DEF View
<1>9. ASSUME NEW k \in 1..n
      PROVE  /\ Fresh(records[k].args, m, l)
             /\ SubSeq(u, records[k].args.offset + 1,
                          records[k].args.offset + records[k].args.count) = v[k].args
  <2>1. PICK w, o, c : w = records[k].args /\ o = w.offset /\ c = w.count
    OBVIOUS
  <2>2. CASE v[k].args = <<>> /\ o = 0 /\ c = 0
    <3>1. Fresh(w, m, l)
      BY <1>2, <1>6, <2>1, <2>2 DEF Fresh, IsView
    <3>2. IsSeq(<<>>) /\ Len(<<>>) = 0
      BY NoSeq
    <3>3. SubSeq(u, 0 + 1, 0 + Len(<<>>)) = <<>>
      <4>1. \A i \in 1..Len(<<>>) : u[0 + i] = <<>>[i]
        BY <3>2
      <4> QED
        BY ONLY <3>2, <4>1, PartFound
    <3>4. SubSeq(u, o + 1, o + c) = <<>>
      BY <2>2, <3>2, <3>3
    <3> QED
      BY <2>1, <2>2, <3>1, <3>4
  <2>3. CASE o = m + ends[k - 1] /\ c = Len(q[k])
    <3>1. PICK before, here, last : before = ends[k - 1] /\ here = Len(q[k]) /\ last = ends[n]
      OBVIOUS
    <3>2. before \in Nat /\ here \in Nat /\ last \in Nat /\ before + here <= last
      BY <1>6, <1>7, <3>1
    <3>3. o \in Nat /\ o = m + before /\ c = here /\ l = m + last
      <4>1. o = m + before /\ c = here
        BY ONLY <2>3, <3>1
      <4>2. l = m + last
        BY ONLY <1>6, <3>1
      <4>3. m \in Nat
        BY <1>2
      <4> QED
        BY ONLY <3>2, <4>1, <4>2, <4>3
    <3>4. IsView(w, l)
      BY <1>2, <2>1, <3>2, <3>3 DEF IsView
    <3>5. Fresh(w, m, l)
      BY <1>2, <2>1, <3>2, <3>3, <3>4 DEF Fresh
    <3>6. PICK t : t = q[k]
      OBVIOUS
    <3>7. IsSeq(t) /\ Len(t) = here
      BY <1>4, <3>1, <3>6
    <3>8. \A i \in 1..Len(t) : u[o + i] = t[i]
      <4> SUFFICES ASSUME NEW i \in 1..here PROVE u[o + i] = t[i]
        BY <3>7
      <4>1. before + i \in 1..last /\ o + i = m + (before + i)
        BY <1>2, <3>2, <3>3
      <4>2. u[m + (before + i)] = g[before + i]
        BY <1>6, <3>1, <4>1
      <4>3. g[before + i] = t[i]
        BY <1>5, <3>1, <3>6
      <4> QED
        BY <4>1, <4>2, <4>3
    <3>9. SubSeq(u, o + 1, o + Len(t)) = t
      <4>1. IsSeq(t) /\ o \in Nat
        BY <3>3, <3>7
      <4> QED
        BY ONLY <3>8, <4>1, PartFound, Zenon
    <3>10. t = v[k].args /\ Len(t) = c
      BY <1>4, <3>3, <3>6, <3>7
    <3> QED
      BY <2>1, <3>5, <3>9, <3>10
  <2> QED
    BY <1>8, <2>1, <2>2, <2>3
<1>10. ASSUME NEW k \in 1..n, NEW j \in 1..n, k < j
       PROVE  Disjoint(records[k].args, records[j].args)
  <2>1. PICK w, y : w = records[k].args /\ y = records[j].args
    OBVIOUS
  <2>2. CASE w.count = 0 \/ y.count = 0
    BY <2>1, <2>2 DEF Disjoint
  <2>3. CASE /\ w.offset = m + ends[k - 1] /\ w.count = Len(q[k])
             /\ y.offset = m + ends[j - 1]
    <3>1. j - 1 \in k..n /\ k \in 0..n
      BY <1>2, <1>10
    <3>2. ends[k] <= ends[j - 1]
      BY <1>5, <3>1
    <3>3. PICK before, here, end, next :
              before = ends[k - 1] /\ here = Len(q[k]) /\ end = ends[k] /\ next = ends[j - 1]
      OBVIOUS
    <3>4. before \in Nat /\ here \in Nat /\ next \in Nat /\ before + here <= next
      BY <1>7, <3>2, <3>3
    <3>5. w.offset = m + before /\ w.count = here /\ y.offset = m + next
      BY <2>3, <3>3
    <3>6. (m + before) + here <= m + next
      BY <1>2, <3>4
    <3>7. w.offset + w.count <= y.offset
      BY <3>5, <3>6
    <3> QED
      BY <2>1, <3>7 DEF Disjoint
  <2> QED
    BY <1>8, <2>1, <2>2, <2>3
<1>11. ASSUME NEW k \in 1..n, NEW j \in 1..n, k # j
       PROVE  Disjoint(records[k].args, records[j].args)
  <2>1. CASE k < j
    BY <1>10, <2>1
  <2>2. CASE j < k
    <3>1. Disjoint(records[j].args, records[k].args)
      BY <1>10, <2>2
    <3> QED
      BY <3>1 DEF Disjoint
  <2>3. k < j \/ j < k
    BY <1>2, <1>11
  <2> QED
    BY <2>1, <2>2, <2>3
<1> QED
  BY <1>1, <1>9, <1>11

(* So a path is stored.                                                    *)
LEMMA StorePathKeeps ==
    ASSUME StoreInv, BlockInv', NEW a \in AttrNames, NEW v, GoodValue(a, v),
           StorePath(Len(nodes), a, v)
    PROVE  StoreInv'
<1>1. PICK m, n, record : m = Len(path_ops) /\ n = Len(v) /\ record = View(Len(path_ops), Len(v))
  OBVIOUS
<1>2. PICK records : records = OpRecords(v)
  OBVIOUS
<1>3. /\ AttrType(a) = "path"
      /\ Store(Len(nodes), a, record, v)
      /\ points' = points \o ArgsBefore(v, n + 1)
      /\ path_ops' = path_ops \o records
      /\ UNCHANGED <<strings, names>>
  BY <1>1, <1>2 DEF StorePath
<1>4. NamesGood /\ ArraysGood /\ GoodPath(v) /\ IsSeq(points) /\ IsSeq(path_ops)
  BY <1>3 DEF StoreInv, GoodValue, ArraysGood
<1>5. n \in Nat /\ m \in Nat /\ DOMAIN v = 1..n /\ v = [k \in 1..n |-> v[k]] /\ Len(points) \in Nat
  BY <1>1, <1>4, SeqDomain DEF GoodPath
<1>6. NamesGood'
  BY <1>3, <1>4 DEF NamesGood
<1>7. PICK f : /\ Joined(f, ArgsOf(v), Len(v))
               /\ IsSeq(f[Len(v)])
               /\ \A k \in 1..(Len(v) + 1) : ArgsBefore(v, k) = f[k - 1]
  BY <1>4, ArgsJoined
<1>8. PICK ends : ends = [k \in 0..Len(v) |-> Len(f[k])]
  OBVIOUS
<1>9. \A k \in 0..Len(v) : ends[k] = Len(f[k])
  BY <1>8
<1>10. RecordsAre(records, v, ends, Len(points))
  BY <1>2, <1>4, <1>7, <1>9, OpRecordsAre
<1>11. IsSeq(records) /\ Len(records) = n /\ \A k \in 1..n : records[k].code = v[k].code
  BY <1>1, <1>10 DEF RecordsAre
<1>12. JoinOf(points', points, f[Len(v)])
  <2>1. n + 1 \in 1..(Len(v) + 1) /\ n + 1 - 1 = n
    BY <1>1, <1>5
  <2>2. ArgsBefore(v, n + 1) = f[n]
    <3>1. PICK j : j = n + 1
      OBVIOUS
    <3>2. j \in 1..(Len(v) + 1) /\ j - 1 = n
      BY <1>5, <2>1, <3>1
    <3>3. ArgsBefore(v, j) = f[j - 1]
      BY <1>7, <3>2
    <3> QED
      BY <3>1, <3>2, <3>3
  <2>3. points' = points \o f[Len(v)]
    BY <1>1, <1>3, <2>2
  <2> QED
    BY <1>4, <1>7, <2>3, JoinIs
<1>13. JoinOf(path_ops', path_ops, records)
  BY <1>3, <1>4, <1>11, JoinIs
<1>14. Extends(points', points) /\ Extends(path_ops', path_ops)
  BY <1>4, <1>7, <1>11, <1>12, <1>13, JoinExtends
<1>15. Grows
  BY <1>3, <1>14 DEF Grows
<1>16. /\ IsSeq(points') /\ IsSeq(path_ops')
       /\ Len(path_ops') = m + n
       /\ \A k \in 1..n : path_ops'[m + k] = records[k]
  BY <1>1, <1>11, <1>12, <1>13 DEF JoinOf
<1>17. /\ \A k \in 1..n :
            /\ Fresh(records[k].args, Len(points), Len(points'))
            /\ SubSeq(points', records[k].args.offset + 1,
                               records[k].args.offset + records[k].args.count) = v[k].args
       /\ \A k, j \in 1..n : k # j => Disjoint(records[k].args, records[j].args)
  <2>1. PICK s, u : s = points /\ u = points'
    OBVIOUS
  <2>2. IsSeq(s) /\ JoinOf(u, s, f[Len(v)]) /\ RecordsAre(records, v, ends, Len(s))
    BY <1>4, <1>10, <1>12, <2>1
  <2>3. /\ \A k \in 1..Len(v) :
             /\ Fresh(records[k].args, Len(s), Len(u))
             /\ SubSeq(u, records[k].args.offset + 1,
                          records[k].args.offset + records[k].args.count) = v[k].args
        /\ \A k, j \in 1..Len(v) : k # j => Disjoint(records[k].args, records[j].args)
    BY <1>4, <1>7, <1>9, <2>2, PathViews
  <2> QED
    BY <1>1, <2>1, <2>3
<1>18. \A i \in 1..(m + n) : i > m => i - m \in 1..n /\ path_ops'[i] = records[i - m]
  <2> TAKE i \in 1..(m + n)
  <2> HAVE i > m
  <2>1. i - m \in 1..n /\ m + (i - m) = i
    BY <1>5
  <2>2. path_ops'[m + (i - m)] = records[i - m]
    BY <1>16, <2>1
  <2> QED
    BY <2>1, <2>2
<1>19. ArraysGood'
  <2>1. ASSUME NEW i \in 1..Len(path_ops') PROVE IsView(path_ops'[i].args, Len(points'))
    <3>1. CASE i > m
      <4>1. i - m \in 1..n /\ path_ops'[i] = records[i - m]
        BY <1>16, <1>18, <3>1
      <4> QED
        BY <1>17, <4>1 DEF Fresh
    <3>2. CASE ~ (i > m)
      <4>1. i \in 1..Len(path_ops)
        BY <1>1, <1>5, <1>16, <3>2
      <4>2. path_ops'[i] = path_ops[i]
        BY <1>14, <4>1 DEF Extends
      <4>3. IsView(path_ops[i].args, Len(points))
        BY <1>4, <4>1 DEF ArraysGood
      <4> QED
        BY <1>4, <1>14, <4>2, <4>3, PartKept
    <3> QED
      BY <3>1, <3>2
  <2> QED
    BY <1>16, <2>1 DEF ArraysGood
<1>20. record.offset = m /\ record.count = n
  BY <1>1 DEF View
<1>21. Fresh(record, Len(path_ops), Len(path_ops'))
  BY <1>1, <1>5, <1>16, <1>20 DEF Fresh, IsView
<1>22. Held(a, record)' = v
  <2>1. ASSUME NEW k \in 1..n
        PROVE  Op(path_ops[record.offset + k].code, Points(path_ops[record.offset + k].args))' = v[k]
    <3>1. path_ops'[record.offset + k] = records[k]
      BY <1>16, <1>20
    <3>2. Points(path_ops[record.offset + k].args)' = v[k].args
      <4>1. PICK w : w = records[k].args
        OBVIOUS
      <4>2. Points(w)' = v[k].args
        BY <1>17, <4>1 DEF Points
      <4> QED
        BY <3>1, <4>1, <4>2 DEF Points
    <3>3. v[k] = Op(v[k].code, v[k].args) /\ records[k].code = v[k].code
      BY <1>4, <1>5, <1>11 DEF GoodPath
    <3> QED
      BY <3>1, <3>2, <3>3 DEF Op
  <2>2. Held(a, record)' =
            [k \in 1..n |->
               Op(path_ops[record.offset + k].code, Points(path_ops[record.offset + k].args))']
    BY <1>3, <1>20 DEF Held, Points, Op
  <2> QED
    BY <1>5, <2>1, <2>2
<1>23. OpsFresh(a)
  <2>1. ASSUME NEW i \in Added
        PROVE  i - m \in 1..n /\ path_ops'[i] = records[i - m] /\ i \in Int
    <3>1. i \in 1..(m + n) /\ i > m
      BY <1>1, <1>16 DEF Added
    <3> QED
      BY <1>18, <3>1
  <2>2. \A i \in Added : Fresh(path_ops'[i].args, Len(points), Len(points'))
    BY <1>17, <2>1
  <2>3. ASSUME NEW i \in Added, NEW j \in Added, i # j
        PROVE  Disjoint(path_ops'[i].args, path_ops'[j].args)
    <3>1. i - m # j - m
      BY <1>5, <2>1, <2>3
    <3> QED
      BY <1>17, <2>1, <3>1
  <2> QED
    BY <1>3, <2>2, <2>3 DEF OpsFresh
<1>24. Suits(a, record, v)
  BY <1>3, <1>21, <1>22, <1>23 DEF Suits, RecordGood, Fresh
<1> QED
  BY <1>3, <1>6, <1>15, <1>19, <1>24, StoreGood

(* So does the store of any value.                                         *)
LEMMA StoreValueKeeps ==
    ASSUME StoreInv, NEW a \in AttrNames, NEW v, GoodValue(a, v), StoreValue(Len(nodes), a, v)
    PROVE  StoreInv'
<1>1. BlockInv'
  BY StoreKeeps DEF StoreInv
<1> QED
  BY <1>1, StoreIdKeeps, StoreColorKeeps, StorePointsKeeps, StorePathKeeps, StorePlainKeeps
  DEF StoreValue

-----------------------------------------------------------------------------
(* The steps.                                                              *)

(* A step that leaves blocks and arrays alone.                             *)
LEMMA StoreUntouched ==
    ASSUME StoreInv, UNCHANGED <<block_vars, array_vars>>
    PROVE  StoreInv'
<1>1. UNCHANGED <<nodes, storage, blocks, given, strings, names, points, path_ops>>
  BY DEF block_vars, array_vars
<1>2. BlockInv'
  BY <1>1, Untouched DEF StoreInv
<1>3. SlotsGood'
  BY <1>1 DEF StoreInv, SlotsGood
<1>4. ValuesGood'
  BY <1>1 DEF StoreInv, ValuesGood, RecordGood
<1>5. NamesGood' /\ ArraysGood'
  BY <1>1 DEF StoreInv, NamesGood, ArraysGood
<1>6. ContentKept'
  BY <1>1 DEF StoreInv, ContentKept, Value, Points
<1>7. ViewsApart'
  BY <1>1 DEF StoreInv, ViewsApart, OpViews, PointViews, ViewsOf
<1> QED
  BY <1>2, <1>3, <1>4, <1>5, <1>6, <1>7 DEF StoreInv

(* A node more has no slots yet.                                           *)
LEMMA NodeAdded ==
    ASSUME StoreInv, nodes' = Append(nodes, <<>>),
           UNCHANGED <<storage, blocks, given, array_vars>>
    PROVE  StoreInv'
<1>1. UNCHANGED <<storage, blocks, given, strings, names, points, path_ops>>
  BY DEF array_vars
<1>2. BlockInv'
  BY <1>1, Untouched DEF StoreInv
<1>3. SlotsGood'
  <2>1. SlotsGood
    BY DEF StoreInv
  <2>2. /\ IsSeq(nodes') /\ Len(nodes') = Len(nodes) + 1 /\ Len(nodes) \in Nat
        /\ \A n \in 1..Len(nodes) : nodes'[n] = nodes[n]
        /\ nodes'[Len(nodes) + 1] = <<>>
    BY <2>1, SeqAppended, SeqDomain DEF SlotsGood
  <2>3. ASSUME NEW n \in 1..Len(nodes')
        PROVE  /\ IsSeq(nodes'[n])
               /\ \A i \in 1..Len(nodes'[n]) :
                     /\ nodes'[n][i].at \in DOMAIN blocks
                     /\ nodes'[n][i].attr = blocks[nodes'[n][i].at].attr
    <3>1. CASE n \in 1..Len(nodes)
      BY <2>1, <2>2, <3>1 DEF SlotsGood
    <3>2. CASE n \notin 1..Len(nodes)
      <4>1. nodes'[n] = <<>>
        BY <2>2, <3>2
      <4>2. IsSeq(<<>>) /\ 1..Len(<<>>) = {}
        BY NoSeq
      <4> QED
        BY <4>1, <4>2
    <3> QED
      BY <3>1, <3>2
  <2> QED
    BY <1>1, <2>2, <2>3 DEF SlotsGood
<1>4. ValuesGood'
  BY <1>1 DEF StoreInv, ValuesGood, RecordGood
<1>5. NamesGood' /\ ArraysGood'
  BY <1>1 DEF StoreInv, NamesGood, ArraysGood
<1>6. ContentKept'
  BY <1>1 DEF StoreInv, ContentKept, Value, Points
<1>7. ViewsApart'
  BY <1>1 DEF StoreInv, ViewsApart, OpViews, PointViews, ViewsOf
<1> QED
  BY <1>2, <1>3, <1>4, <1>5, <1>6, <1>7 DEF StoreInv

(* A parser that is new has nothing.                                       *)
FreshStore ==
    /\ nodes = <<<<>>>>
    /\ storage = FreshBuffer
    /\ blocks = Empty
    /\ strings = FreshBuffer
    /\ names = Empty
    /\ points = <<>>
    /\ path_ops = <<>>
    /\ given = Empty

(* The empty store is sound.                                               *)
LEMMA FreshStoreGood == ASSUME FreshStore PROVE StoreInv
<1>1. BlockInv
  BY FreshKeeps DEF FreshStore
<1>2. IsSeq(<<>>) /\ Len(<<>>) = 0 /\ 1..0 = {}
  BY NoSeq
<1>3. SlotsGood
  <2>1. IsSeq(nodes) /\ Len(nodes) = 1 /\ nodes[1] = <<>>
    BY OneSeq DEF FreshStore
  <2>2. \A n \in 1..Len(nodes) : nodes[n] = <<>>
    BY <2>1
  <2> QED
    BY <1>2, <2>1, <2>2 DEF SlotsGood
<1>4. DOMAIN blocks = {} /\ DOMAIN given = {} /\ DOMAIN names = {}
  BY DEF FreshStore, Empty
<1>5. ValuesGood /\ ContentKept
  BY <1>4 DEF ValuesGood, ContentKept
<1>6. NamesGood
  BY <1>4 DEF NamesGood, FreshStore, FreshBuffer
<1>7. IsSeq(path_ops) /\ IsSeq(points) /\ Len(path_ops) = 0 /\ Len(points) = 0
  BY <1>2 DEF FreshStore
<1>8. DOMAIN path_ops = {}
  BY <1>7, SeqDomain
<1>9. ArraysGood
  BY <1>7 DEF ArraysGood
<1>10. ViewsApart
  <2>1. OpViews = {} /\ PointViews = {}
    BY <1>4, <1>8 DEF OpViews, PointViews, ViewsOf
  <2> QED
    BY <2>1 DEF ViewsApart, Apart
<1> QED
  BY <1>1, <1>3, <1>5, <1>6, <1>9, <1>10 DEF StoreInv

(* A text that the parsers expect is read, and stored, or ends the         *)
(* program;                                                                *)
LEMMA ReadTextGood ==
    ASSUME StoreInv, NEW a, NEW text, a \in AttrNames => GoodText(a, text),
           ReadText(Len(nodes), a, text)
    PROVE  StoreInv'
<1>1. CASE UNCHANGED <<block_vars, array_vars>>
  BY <1>1, StoreUntouched
<1>2. CASE a \in AttrNames /\ StoreValue(Len(nodes), a, ParseText(a, text))
  <2>1. GoodValue(a, ParseText(a, text))
    BY <1>2, ParsedGood
  <2> QED
    BY <1>2, <2>1, StoreValueKeeps
<1> QED
  BY <1>1, <1>2 DEF ReadText

(* so are fields that were written of a value.                             *)
LEMMA ReadFieldsGood ==
    ASSUME StoreInv, NEW a, NEW fields, NEW v, GoodValue(a, v), fields = WriteBinary(a, v),
           ReadFields(Len(nodes), a, fields)
    PROVE  StoreInv'
<1>1. PICK r : r = ReadBinary(a, fields, 1)
  OBVIOUS
<1>2. CASE UNCHANGED <<block_vars, array_vars>>
  BY <1>2, StoreUntouched
<1>3. CASE a \in AttrNames /\ ~r.fault /\ StoreValue(Len(nodes), a, r.value)
  <2>1. GoodValue(a, r.value)
    BY <1>1, <1>3, ReadBinaryGood
  <2> QED
    BY <1>3, <2>1, StoreValueKeeps
<1> QED
  BY <1>1, <1>2, <1>3 DEF ReadFields

(* What is left of an attribute, and what is read of it next.              *)
LEMMA TodoTail ==
    ASSUME TodoGood, todo # <<>>, todo' = Tail(todo)
    PROVE  /\ TodoGood'
           /\ Head(todo)[1] \in AttrNames => GoodText(Head(todo)[1], Head(todo)[2])
<1>1. /\ IsSeq(todo') /\ Len(todo) > 0 /\ Len(todo') = Len(todo) - 1
      /\ Head(todo) = todo[1]
      /\ \A i \in 1..Len(todo') : todo'[i] = todo[i + 1]
  BY SeqRest DEF TodoGood
<1>2. Len(todo) \in Nat
  BY SeqDomain DEF TodoGood
<1>3. 1 \in 1..Len(todo) /\ \A i \in 1..Len(todo') : i + 1 \in 1..Len(todo)
  BY <1>1, <1>2
<1> QED
  BY <1>1, <1>3 DEF TodoGood

-----------------------------------------------------------------------------
(* What is written of a node is written of the values that were given.     *)
LEMMA WrittenItem ==
    ASSUME StoreInv, NEW n \in 1..Len(nodes), NEW i \in 1..Len(nodes[n]),
           NEW form \in {"binary", "xml"}
    PROVE  Item(form, Written(form, nodes[n][i]))
<1>1. PICK slot : slot = nodes[n][i]
  OBVIOUS
<1>2. PICK a, v : a = slot.attr /\ v = Value(slot.at)
  OBVIOUS
<1>3. slot.at \in DOMAIN blocks /\ blocks[slot.at].attr = a
  BY <1>1, <1>2 DEF StoreInv, SlotsGood
<1>4. a \in AttrNames /\ GoodValue(a, v)
  <2>1. v = given[slot.at]
    BY <1>2, <1>3 DEF StoreInv, ContentKept
  <2> QED
    BY <1>3, <2>1 DEF StoreInv, ValuesGood, BlockInv, BlockRecords
<1>5. PICK item : item = Written(form, slot)
  OBVIOUS
<1>6. /\ item[1] = a
      /\ item[2] = IF form = "xml" THEN WriteText(a, v) ELSE WriteBinary(a, v)
  BY <1>2, <1>5 DEF Written
<1> QED
  BY <1>1, <1>4, <1>5, <1>6 DEF Item

(* So the file is a sequence of what was written, for each node.           *)
LEMMA FileGood ==
    ASSUME StoreInv, NEW form \in {"binary", "xml"}, NEW file, file = File(form)
    PROVE  IsSeq(file) /\ \A n \in 1..Len(file) :
              IsSeq(file[n]) /\ \A i \in 1..Len(file[n]) : Item(form, file[n][i])
<1>1. /\ Len(nodes) \in Nat /\ DOMAIN nodes = 1..Len(nodes)
      /\ \A n \in 1..Len(nodes) :
            IsSeq(nodes[n]) /\ Len(nodes[n]) \in Nat /\ DOMAIN nodes[n] = 1..Len(nodes[n])
  BY SeqDomain DEF StoreInv, SlotsGood
<1>2. file = [n \in 1..Len(nodes) |-> file[n]]
  BY <1>1 DEF File
<1>3. IsSeq(file) /\ Len(file) = Len(nodes)
  BY <1>1, <1>2, SeqMade
<1>4. ASSUME NEW n \in 1..Len(nodes)
      PROVE  IsSeq(file[n]) /\ \A i \in 1..Len(file[n]) : Item(form, file[n][i])
  <2>1. PICK slots, items : slots = nodes[n] /\ items = file[n]
    OBVIOUS
  <2>2. items = [i \in 1..Len(slots) |-> Written(form, slots[i])]
    BY <1>1, <2>1 DEF File
  <2>3. Len(slots) \in Nat /\ items = [i \in 1..Len(slots) |-> items[i]]
    BY <1>1, <2>1, <2>2
  <2>4. IsSeq(items) /\ Len(items) = Len(slots)
    BY <2>3, SeqMade
  <2>5. \A i \in 1..Len(slots) : Item(form, items[i])
    BY <2>1, <2>2, WrittenItem
  <2> QED
    BY <2>1, <2>4, <2>5
<1> QED
  BY <1>3, <1>4

(* The second parser begins with nothing.                                  *)
LEMMA EmitGood ==
    ASSUME ContentInv, Emit PROVE ContentInv'
<1>1. wire' = File(format) /\ UNCHANGED <<todo, format>>
  BY DEF Emit
<1>2. format \in {"binary", "xml"}
  BY DEF ContentInv, WireGood
<1>3. WireGood'
  BY <1>1, <1>2, FileGood DEF ContentInv, WireGood
<1>4. FreshStore'
  BY DEF Emit, FreshStore
<1>5. StoreInv'
  BY <1>4, FreshStoreGood, PTL
<1>6. TodoGood'
  BY <1>1 DEF ContentInv, TodoGood
<1> QED
  BY <1>3, <1>5, <1>6 DEF ContentInv

(* An attribute of the source is as it is assumed to be.                   *)
LEMMA StartAttrGood ==
    ASSUME ContentInv, StartAttr PROVE ContentInv'
<1>1. /\ UNCHANGED <<block_vars, array_vars, pipe_vars, wire>>
      /\ \E t \in Texts : todo' = Parts(t[1], t[2])
  BY DEF StartAttr
<1>2. StoreInv'
  BY <1>1, StoreUntouched DEF ContentInv
<1>3. TodoGood'
  <2>1. PICK t \in Texts : todo' = Parts(t[1], t[2])
    BY <1>1
  <2>2. PICK parts : parts = Parts(t[1], t[2])
    OBVIOUS
  <2>3. /\ IsSeq(parts)
        /\ \A i \in DOMAIN parts : parts[i][1] \in AttrNames => GoodText(parts[i][1], parts[i][2])
    BY <2>2, SourceGood
  <2>4. DOMAIN parts = 1..Len(parts)
    BY <2>3, SeqDomain
  <2> QED
    BY <2>1, <2>2, <2>3, <2>4 DEF TodoGood
<1>4. WireGood'
  BY <1>1 DEF ContentInv, WireGood, pipe_vars
<1> QED
  BY <1>2, <1>3, <1>4 DEF ContentInv

(* Reading an attribute keeps the invariant.                               *)
LEMMA ReadAttrGood ==
    ASSUME ContentInv, ReadAttr PROVE ContentInv'
<1>1. PICK a, text : a = Head(todo)[1] /\ text = Head(todo)[2]
  OBVIOUS
<1>2. /\ todo # <<>> /\ todo' = Tail(todo)
      /\ ReadText(Len(nodes), a, text)
      /\ UNCHANGED <<pipe_vars, wire>>
  BY <1>1 DEF ReadAttr
<1>3. TodoGood' /\ (a \in AttrNames => GoodText(a, text))
  BY <1>1, <1>2, TodoTail DEF ContentInv
<1>4. StoreInv'
  BY <1>2, <1>3, ReadTextGood DEF ContentInv
<1>5. WireGood'
  BY <1>2 DEF ContentInv, WireGood, pipe_vars
<1> QED
  BY <1>3, <1>4, <1>5 DEF ContentInv

(* So does going to the next node.                                         *)
LEMMA NextNodeGood ==
    ASSUME ContentInv, NextNode PROVE ContentInv'
<1>1. StoreInv'
  BY NodeAdded DEF NextNode, ContentInv
<1>2. UNCHANGED <<todo, pipe_vars, wire>>
  BY DEF NextNode
<1> QED
  BY <1>1, <1>2 DEF ContentInv, TodoGood, WireGood, pipe_vars

(* What is left of a good file is good.                                    *)
LEMMA WireTail ==
    ASSUME WireGood, wire # <<>>
    PROVE  /\ Len(wire) \in Nat /\ Len(wire) > 0 /\ Head(wire) = wire[1]
           /\ 1 \in 1..Len(wire)
           /\ DOMAIN wire = 1..Len(wire)
           /\ IsSeq(wire)
<1>1. IsSeq(wire)
  BY DEF WireGood
<1>2. Len(wire) \in Nat /\ Len(wire) > 0 /\ Head(wire) = wire[1] /\ DOMAIN wire = 1..Len(wire)
  BY <1>1, SeqRest, SeqDomain
<1> QED
  BY <1>1, <1>2

(* What is read of the file was written of a value.                        *)
LEMMA ReadCopyGood ==
    ASSUME ContentInv, ReadCopy PROVE ContentInv'
<1>1. PICK items : items = Head(wire)
  OBVIOUS
<1>2. PICK item : item = Head(items)
  OBVIOUS
<1>3. /\ wire # <<>> /\ items # <<>>
      /\ wire' = [wire EXCEPT ![1] = Tail(@)]
      /\ \/ format = "xml" /\ ReadText(Len(nodes), item[1], item[2])
         \/ format = "binary" /\ ReadFields(Len(nodes), item[1], item[2])
      /\ UNCHANGED <<todo, format>>
  BY <1>1, <1>2 DEF ReadCopy, pipe_vars
<1>4. /\ Len(wire) \in Nat /\ items = wire[1] /\ 1 \in 1..Len(wire)
      /\ DOMAIN wire = 1..Len(wire) /\ IsSeq(wire)
  BY <1>1, <1>3, WireTail DEF ContentInv
<1>5. /\ IsSeq(items)
      /\ \A i \in 1..Len(items) : Item(format, items[i])
  BY <1>4 DEF ContentInv, WireGood
<1>6. PICK rest : rest = Tail(items)
  OBVIOUS
<1>7. /\ IsSeq(rest) /\ Len(items) > 0 /\ Len(rest) = Len(items) - 1
      /\ item = items[1]
      /\ \A i \in 1..Len(rest) : rest[i] = items[i + 1]
  BY <1>2, <1>3, <1>5, <1>6, SeqRest
<1>8. Len(items) \in Nat
  BY <1>5, SeqDomain
<1>9. Item(format, item) /\ \A i \in 1..Len(rest) : Item(format, rest[i])
  <2>1. 1 \in 1..Len(items) /\ \A i \in 1..Len(rest) : i + 1 \in 1..Len(items)
    BY <1>7, <1>8
  <2> QED
    BY <1>5, <1>7, <2>1
<1>10. PICK v : /\ item[1] \in AttrNames /\ GoodValue(item[1], v)
                /\ item[2] = IF format = "xml" THEN WriteText(item[1], v) ELSE WriteBinary(item[1], v)
  BY <1>9 DEF Item
<1>11. StoreInv'
  <2>1. CASE format = "xml" /\ ReadText(Len(nodes), item[1], item[2])
    <3>1. GoodText(item[1], item[2])
      BY <1>10, <2>1, WrittenGood
    <3> QED
      BY <2>1, <3>1, ReadTextGood DEF ContentInv
  <2>2. CASE format = "binary" /\ ReadFields(Len(nodes), item[1], item[2])
    <3>1. item[2] = WriteBinary(item[1], v)
      BY <1>10, <2>2
    <3> QED
      BY <1>10, <2>2, <3>1, ReadFieldsGood DEF ContentInv
  <2> QED
    BY <1>3, <2>1, <2>2
<1>12. WireGood'
  <2>1. /\ wire' = [n \in 1..Len(wire) |-> wire'[n]]
        /\ wire'[1] = rest
        /\ \A n \in 1..Len(wire) : n # 1 => wire'[n] = wire[n]
    BY <1>3, <1>4, <1>6
  <2>2. IsSeq(wire') /\ Len(wire') = Len(wire)
    BY <1>4, <2>1, SeqMade
  <2>3. format' = format
    BY <1>3
  <2>4. ASSUME NEW n \in 1..Len(wire)
        PROVE  IsSeq(wire'[n]) /\ \A i \in 1..Len(wire'[n]) : Item(format, wire'[n][i])
    <3>1. CASE n = 1
      BY <1>7, <1>9, <2>1, <3>1
    <3>2. CASE n # 1
      BY <2>1, <3>2 DEF ContentInv, WireGood
    <3> QED
      BY <3>1, <3>2
  <2> QED
    BY <2>2, <2>3, <2>4 DEF ContentInv, WireGood
<1>13. TodoGood'
  BY <1>3 DEF ContentInv, TodoGood
<1> QED
  BY <1>11, <1>12, <1>13 DEF ContentInv

(* Going to the next node of the copy keeps the invariant.                 *)
LEMMA ReadCopyNextGood ==
    ASSUME ContentInv, ReadCopyNext PROVE ContentInv'
<1>1. /\ wire # <<>> /\ wire' = Tail(wire)
      /\ \/ nodes' = Append(nodes, <<>>)
         \/ nodes' = nodes
      /\ UNCHANGED <<storage, blocks, given, array_vars, todo, pipe_vars>>
  BY DEF ReadCopyNext
<1>2. StoreInv'
  <2>1. CASE nodes' = Append(nodes, <<>>)
    BY <1>1, <2>1, NodeAdded DEF ContentInv
  <2>2. CASE nodes' = nodes
    BY <1>1, <2>2, StoreUntouched DEF ContentInv, block_vars
  <2> QED
    BY <1>1, <2>1, <2>2
<1>3. WireGood'
  <2>1. WireGood /\ IsSeq(wire) /\ Len(wire) \in Nat
    BY <1>1, WireTail DEF ContentInv
  <2>2. /\ IsSeq(wire') /\ Len(wire') = Len(wire) - 1
        /\ \A n \in 1..Len(wire') : wire'[n] = wire[n + 1]
    BY <1>1, <2>1, SeqRest
  <2>3. \A n \in 1..Len(wire') : n + 1 \in 1..Len(wire)
    BY <2>1, <2>2
  <2>4. format' = format
    BY <1>1 DEF pipe_vars
  <2> QED
    BY <2>1, <2>2, <2>3, <2>4 DEF WireGood
<1>4. TodoGood'
  BY <1>1 DEF ContentInv, TodoGood
<1> QED
  BY <1>2, <1>3, <1>4 DEF ContentInv

(* So every step keeps the invariant, and it holds at first.               *)
LEMMA ContentStep ==
    ASSUME ContentInv, [Next]_vars PROVE ContentInv'
<1>1. CASE UNCHANGED vars
  <2>1. UNCHANGED <<block_vars, array_vars, todo, pipe_vars, wire>>
    BY <1>1 DEF vars
  <2>2. StoreInv'
    BY <2>1, StoreUntouched DEF ContentInv
  <2> QED
    BY <2>1, <2>2 DEF ContentInv, TodoGood, WireGood, pipe_vars
<1> QED
  BY <1>1, StartAttrGood, ReadAttrGood, NextNodeGood, EmitGood, ReadCopyGood, ReadCopyNextGood
  DEF Next

(* The invariant holds at first.                                           *)
LEMMA ContentFirst == ASSUME Init PROVE ContentInv
<1>1. FreshStore
  BY DEF Init, FreshStore
<1>2. StoreInv
  BY <1>1, FreshStoreGood
<1>3. todo = <<>> /\ wire = <<>> /\ format \in {"binary", "xml"}
  BY FormatsAssumption DEF Init
<1>4. IsSeq(<<>>) /\ 1..Len(<<>>) = {}
  BY NoSeq
<1> QED
  BY <1>2, <1>3, <1>4 DEF ContentInv, TodoGood, WireGood

(* Every attribute keeps the value it was given last, in both runs of the  *)
(* program, whatever attributes, of the same node or of others, are read   *)
(* before and after it, replaced, or read again from a copy.               *)
THEOREM ContentKeptAlways == Spec => []ContentKept
<1>1. ContentInv => ContentKept
  BY DEF ContentInv, StoreInv
<1> QED
  BY <1>1, ContentFirst, ContentStep, PTL DEF Spec

(* The records of attributes, and of path operations, refer to what the    *)
(* arrays hold, and no two to the same element.                            *)
THEOREM ViewsApartAlways == Spec => []ViewsApart
<1>1. ContentInv => ViewsApart
  BY DEF ContentInv, StoreInv
<1> QED
  BY <1>1, ContentFirst, ContentStep, PTL DEF Spec

-----------------------------------------------------------------------------
(* Floats.  What is read again of a number shows as the number did.        *)

(* The numbers that a float holds. *)
Floats == {x \in Int : Abs(x) <= 1000000000 /\ Float(x) = x}

UnitFits(u, n) ==
    /\ Abs(n) < 16777216 * u
    /\ \A w \in {1, 2, 4, 8, 16, 32, 64} : Abs(n) < 16777216 * w => u <= w

(* The unit of a number is the least by which it has 24 bits.              *)
LEMMA UnitIs ==
    ASSUME NEW n \in Int, Abs(n) <= 1000000000
    PROVE  Unit(n) \in {1, 2, 4, 8, 16, 32, 64} /\ UnitFits(Unit(n), n)
<1> DEFINE T == {u \in {1, 2, 4, 8, 16, 32, 64} : Abs(n) < 16777216 * u}
<1>1. Abs(n) \in Nat
  BY DEF Abs
<1>2. T \in SUBSET Nat
  OBVIOUS
<1>3. 64 \in T
  BY <1>1
<1>4. Unit(n) = Min(T)
  BY DEF Unit
<1> HIDE DEF T
<1>5. Min(T) \in T /\ \A w \in T : Min(T) <= w
  BY <1>2, <1>3, MinIs
<1> QED
  BY <1>4, <1>5 DEF T, UnitFits

(* A number is rounded to the nearest multiple.                            *)
IsRound(r, n, u) ==
    /\ r \in Nat
    /\ r = (r \div u) * u
    /\ r <= n + u \div 2 /\ n < r + u - u \div 2

(* What rounding gives is of this kind,                                    *)
LEMMA RoundToIs ==
    ASSUME NEW n \in Nat, NEW u \in {1, 2, 4, 8, 16, 32, 64, 10}
    PROVE  IsRound(RoundTo(n, u), n, u)
  BY DEF RoundTo, Abs, IsRound

(* and only that is.                                                       *)
LEMMA RoundIs ==
    ASSUME NEW n \in Nat, NEW u \in {1, 2, 4, 8, 16, 32, 64, 10}, NEW r, IsRound(r, n, u)
    PROVE  RoundTo(n, u) = r
  BY DEF RoundTo, Abs, IsRound

(* The multiple that is nearest to a number.                               *)
NearBy(n, u) == ((n + u \div 2) \div u) * u

(* That, with the sign of the number, is what it is rounded to.            *)
LEMMA RoundIsNearBy ==
    ASSUME NEW x, NEW n, Abs(x) = n, NEW u
    PROVE  RoundTo(x, u) = IF x < 0 THEN -NearBy(n, u) ELSE NearBy(n, u)
<1>1. RoundTo(x, u) = IF x < 0 THEN -NearBy(Abs(x), u) ELSE NearBy(Abs(x), u)
  BY DEF RoundTo, NearBy
<1> QED
  BY <1>1

(* Zero is a multiple.                                                     *)
LEMMA RoundZero ==
    ASSUME NEW u \in {1, 2, 4, 8, 16, 32, 64, 10} PROVE RoundTo(0, u) = 0
<1>1. Abs(0) = 0 /\ ~(0 < 0)
  BY DEF Abs
<1>2. \A w \in {1, 2, 4, 8, 16, 32, 64, 10} : NearBy(0, w) = 0
  <2>1. NearBy(0, 1) = 0 /\ NearBy(0, 2) = 0 /\ NearBy(0, 4) = 0 /\ NearBy(0, 8) = 0
    BY DEF NearBy
  <2>2. NearBy(0, 16) = 0 /\ NearBy(0, 32) = 0 /\ NearBy(0, 64) = 0 /\ NearBy(0, 10) = 0
    BY DEF NearBy
  <2> QED
    BY <2>1, <2>2
<1>3. RoundTo(0, u) = IF 0 < 0 THEN -NearBy(0, u) ELSE NearBy(0, u)
  BY <1>1, RoundIsNearBy
<1> QED
  BY <1>1, <1>2, <1>3

(* Zero is its own negative.                                               *)
LEMMA NegativeZero ==
    ASSUME NEW n \in Nat, n <= 0 PROVE -n = n
  OBVIOUS

(* Numbers below 0 are rounded as those above.                             *)
LEMMA RoundNegative ==
    ASSUME NEW n \in Nat, n <= 1000000000
    PROVE  Float(-n) = -Float(n) /\ Shown(-n) = -Shown(n)
<1>1. Abs(-n) = Abs(n) /\ Abs(n) = n
  BY DEF Abs
<1>2. Unit(-n) = Unit(n) /\ Unit(n) \in {1, 2, 4, 8, 16, 32, 64}
  BY <1>1, UnitIs DEF Unit
<1>3. ASSUME NEW u \in {1, 2, 4, 8, 16, 32, 64, 10} PROVE RoundTo(-n, u) = -RoundTo(n, u)
  <2>1. CASE n = 0
    <3>1. RoundTo(0, u) = 0
      BY RoundZero
    <3>2. PICK m : m = -n
      OBVIOUS
    <3>3. m = 0
      <4>1. n <= 0
        BY <2>1
      <4>2. m = n
        BY <3>2, <4>1, NegativeZero
      <4> QED
        BY <2>1, <4>2
    <3>4. PICK r : r = RoundTo(n, u)
      OBVIOUS
    <3>5. r = 0 /\ RoundTo(m, u) = 0
      BY <2>1, <3>1, <3>3, <3>4
    <3>6. -r = r
      <4>1. r \in Nat /\ r <= 0
        BY <3>5
      <4> QED
        BY <4>1, NegativeZero
    <3> QED
      BY <3>2, <3>4, <3>5, <3>6
  <2>2. CASE n # 0
    <3>1. PICK x, y : x = Abs(-n) /\ y = -n
      OBVIOUS
    <3>2. RoundTo(y, u) = -NearBy(n, u)
      <4>1. y < 0 /\ Abs(y) = n
        BY <1>1, <2>2, <3>1
      <4> QED
        BY <4>1, RoundIsNearBy
    <3>3. RoundTo(n, u) = NearBy(n, u)
      <4>1. ~(n < 0) /\ Abs(n) = n
        BY <1>1
      <4> QED
        BY <4>1, RoundIsNearBy
    <3> QED
      BY <3>1, <3>2, <3>3
  <2> QED
    BY <2>1, <2>2
<1> QED
  BY <1>1, <1>2, <1>3 DEF Float, Shown

(* The steps of the floats: from 8388608 units on, they are one unit apart.*)
LEMMA UnitOf ==
    ASSUME NEW n \in Nat, n <= 1000000000, NEW u, u = Unit(n)
    PROVE  /\ u \in {1, 2, 4, 8, 16, 32, 64}
           /\ n < 16777216 * u
           /\ u > 1 => n >= 8388608 * u
<1>1. Abs(n) = n
  BY DEF Abs
<1>2. u \in {1, 2, 4, 8, 16, 32, 64} /\ UnitFits(u, n)
  BY <1>1, UnitIs
<1>3. /\ n < 16777216 * u
      /\ \A w \in {1, 2, 4, 8, 16, 32, 64} : n < 16777216 * w => u <= w
  BY <1>1, <1>2 DEF UnitFits
<1> QED
  BY <1>2, <1>3

(* What is shown of a float and read again is shown the same.              *)
LEMMA ShownAgainNat ==
    ASSUME NEW x \in Nat, x <= 1000000000, Float(x) = x
    PROVE  /\ Shown(x) \in Nat /\ Shown(x) <= 1000000000
           /\ Shown(Float(Shown(x))) = Shown(x)
           /\ Shown(x) = 0 => x = 0
<1>1. PICK s : s = Shown(x)
  OBVIOUS
<1>2. Abs(x) = x
  BY DEF Abs
<1>3. CASE x < 100000000
  <2>1. Shown(x) = x
    BY <1>2, <1>3 DEF Shown, RoundTo
  <2> QED
    BY <1>3, <2>1
<1>4. CASE x >= 100000000
  <2>1. s = RoundTo(x, 10)
    BY <1>1, <1>2, <1>4 DEF Shown
  <2>2. s \in Nat /\ s = (s \div 10) * 10 /\ s <= x + 5 /\ x < s + 5
    BY <2>1, RoundToIs DEF IsRound
  <2>3. s <= 1000000000 /\ s >= 100000000
    BY <1>4, <2>2
  <2>4. PICK u : u = Unit(x)
    OBVIOUS
  <2>5. /\ u \in {1, 2, 4, 8, 16, 32, 64}
        /\ x < 16777216 * u
        /\ u > 1 => x >= 8388608 * u
    BY <2>4, UnitOf
  <2>6. IsRound(x, x, u)
    BY <2>4, <2>5, RoundToIs DEF Float
  <2>7. x = (x \div u) * u
    BY <2>6 DEF IsRound
  <2>8. PICK w : w = Unit(s)
    OBVIOUS
  <2>9. /\ w \in {1, 2, 4, 8, 16, 32, 64}
        /\ s < 16777216 * w
        /\ w > 1 => s >= 8388608 * w
    BY <2>3, <2>2, <2>8, UnitOf
  <2>10. PICK y : y = Float(s)
    OBVIOUS
  <2>11. IsRound(y, s, w)
    BY <2>2, <2>8, <2>9, <2>10, RoundToIs DEF Float
  <2>12. y \in Nat /\ y = (y \div w) * w /\ y <= s + w \div 2 /\ s < y + w - w \div 2
    BY <2>11 DEF IsRound
  <2>13. y >= 100000000 /\ IsRound(s, y, 10)
    <3>1. w >= 8
      <4>1. w # 1 /\ w # 2 /\ w # 4
        BY <2>2, <2>3, <2>9
      <4> QED
        BY <2>9, <4>1
    <3>2. CASE w = 8
      <4>1. y <= s + w \div 2 /\ s < y + w - w \div 2 /\ w \div 2 = 4
        BY <2>12, <3>2
      <4>2. y \in Nat /\ s \in Nat /\ y <= s + 4 /\ s < y + 4
        BY <2>2, <2>12, <3>2, <4>1
      <4>3. y >= 100000000
        <5>1. y % 8 = 0
          <6>1. y = (y \div 8) * 8
            BY <2>12, <3>2
          <6> QED
            BY <4>2, <6>1
        <5> QED
          BY <2>3, <4>2, <5>1
      <4>4. s <= y + 10 \div 2 /\ y < s + 10 - 10 \div 2
        BY <4>2
      <4> QED
        BY <2>2, <4>2, <4>3, <4>4 DEF IsRound
    <3>3. CASE w = 16
      BY <1>4, <2>2, <2>3, <2>5, <2>7, <2>9, <2>12, <3>1, <3>3 DEF IsRound
    <3>4. CASE w = 32
      BY <1>4, <2>2, <2>3, <2>5, <2>7, <2>9, <2>12, <3>1, <3>4 DEF IsRound
    <3>5. CASE w = 64
      BY <1>4, <2>2, <2>3, <2>5, <2>7, <2>9, <2>12, <3>1, <3>5 DEF IsRound
    <3> QED
      BY <2>9, <3>1, <3>2, <3>3, <3>4, <3>5
  <2>14. Shown(y) = RoundTo(y, 10)
    BY <2>12, <2>13 DEF Shown, Abs
  <2>15. RoundTo(y, 10) = s
    BY <2>12, <2>13, RoundIs
  <2> QED
    BY <1>1, <1>4, <2>2, <2>3, <2>10, <2>14, <2>15
<1> QED
  BY <1>3, <1>4

(* Rounding to a float yields one, and once is enough.                     *)
LEMMA FloatNat ==
    ASSUME NEW n \in Nat, n <= 1000000000
    PROVE  Float(n) \in Nat /\ Float(n) <= 1000000000 /\ Float(Float(n)) = Float(n)
<1>1. PICK u : u = Unit(n)
  OBVIOUS
<1>2. /\ u \in {1, 2, 4, 8, 16, 32, 64}
      /\ n < 16777216 * u
      /\ u > 1 => n >= 8388608 * u
  BY <1>1, UnitOf
<1>3. PICK y : y = Float(n)
  OBVIOUS
<1>4. IsRound(y, n, u)
  BY <1>1, <1>2, <1>3, RoundToIs DEF Float
<1>5. y \in Nat /\ y = (y \div u) * u /\ y <= n + u \div 2 /\ n < y + u - u \div 2
  BY <1>4 DEF IsRound
<1>6. y <= 1000000000
  BY <1>2, <1>5
<1>7. PICK w : w = Unit(y)
  OBVIOUS
<1>8. /\ w \in {1, 2, 4, 8, 16, 32, 64}
      /\ y < 16777216 * w
      /\ w > 1 => y >= 8388608 * w
  BY <1>5, <1>6, <1>7, UnitOf
<1>9. y = (y \div w) * w
  <2>1. CASE w <= u
    BY <1>2, <1>5, <1>8, <2>1
  <2>2. CASE w > u
    <3>1. y = 16777216 * u /\ w = 2 * u
      <4>1. CASE u = 1
        BY <1>2, <1>5, <1>8, <2>2, <4>1
      <4>2. CASE u = 2
        BY <1>2, <1>5, <1>8, <2>2, <4>2
      <4>3. CASE u = 4
        BY <1>2, <1>5, <1>8, <2>2, <4>3
      <4>4. CASE u = 8
        BY <1>2, <1>5, <1>8, <2>2, <4>4
      <4>5. CASE u = 16
        BY <1>2, <1>5, <1>8, <2>2, <4>5
      <4>6. CASE u = 32
        BY <1>2, <1>5, <1>8, <2>2, <4>6
      <4> QED
        BY <1>2, <1>8, <2>2, <4>1, <4>2, <4>3, <4>4, <4>5, <4>6
    <3> QED
      BY <1>2, <3>1
  <2> QED
    BY <1>2, <1>8, <2>1, <2>2
<1>10. IsRound(y, y, w)
  BY <1>5, <1>8, <1>9 DEF IsRound
<1>11. Float(y) = y
  BY <1>5, <1>7, <1>8, <1>10, RoundIs DEF Float
<1> QED
  BY <1>3, <1>5, <1>6, <1>11

(* So the numbers of a text are read as floats.                            *)
LEMMA FloatIsFloat ==
    ASSUME NEW n \in Int, Abs(n) <= 1000000000
    PROVE  Float(n) \in Floats /\ (n \in Nat => Float(n) \in Nat)
<1>1. CASE n >= 0
  BY <1>1, FloatNat DEF Floats, Abs
<1>2. CASE n < 0
  <2>1. PICK m : m = -n
    OBVIOUS
  <2>2. m \in Nat /\ m <= 1000000000 /\ n = -m
    BY <1>2, <2>1 DEF Abs
  <2>3. PICK f : f = Float(m)
    OBVIOUS
  <2>4. f \in Nat /\ f <= 1000000000 /\ Float(f) = f
    BY <2>2, <2>3, FloatNat
  <2>5. Float(n) = -f /\ Float(-f) = -f
    BY <2>2, <2>3, <2>4, RoundNegative
  <2> QED
    BY <1>2, <2>4, <2>5 DEF Floats, Abs
<1> QED
  BY <1>1, <1>2

(* What is read of a token of a text.                                      *)
LEMMA AtofIs ==
    ASSUME NEW t, IsNum(t) => t.number \in Whole
    PROVE  Atof(t) \in Floats
<1>1. 0 \in Int /\ Abs(0) = 0 /\ 0 \in Nat
  BY DEF Abs
<1>2. Float(0) = 0
  <2>1. Unit(0) \in {1, 2, 4, 8, 16, 32, 64}
    BY <1>1, UnitIs
  <2>2. RoundTo(0, Unit(0)) = 0
    BY <2>1, RoundZero
  <2> QED
    BY <2>2 DEF Float
<1>3. 0 \in Floats
  BY <1>1, <1>2 DEF Floats
<1>4. CASE IsNum(t)
  <2>1. PICK n : n = t.number
    OBVIOUS
  <2>2. n \in Int /\ Abs(n) < 1000000000
    BY <1>4, <2>1 DEF Whole
  <2>3. Abs(n) <= 1000000000
    <3>1. Abs(n) \in Nat
      BY <2>2 DEF Abs
    <3> QED
      BY <2>2, <3>1
  <2>4. Float(n) \in Floats
    BY <2>2, <2>3, FloatIsFloat
  <2>5. Atof(t) = Float(n)
    BY <1>4, <2>1 DEF Atof
  <2> QED
    BY <2>4, <2>5
<1>5. CASE ~IsNum(t)
  <2>1. Atof(t) = 0
    BY <1>5 DEF Atof
  <2> QED
    BY <1>3, <2>1
<1> QED
  BY <1>4, <1>5

(* The same of all that floats hold; and nothing else is shown as zero.    *)
LEMMA FloatAgain ==
    ASSUME NEW x \in Floats
    PROVE  Shown(Float(Shown(x))) = Shown(x) /\ (Shown(x) = 0 => x = 0)
<1>1. x \in Int /\ Abs(x) <= 1000000000 /\ Float(x) = x
  BY DEF Floats
<1>2. CASE x >= 0
  BY <1>1, <1>2, ShownAgainNat DEF Abs
<1>3. CASE x < 0
  <2>1. PICK y : y = -x
    OBVIOUS
  <2>2. y \in Nat /\ y <= 1000000000 /\ x = -y
    BY <1>1, <1>3, <2>1 DEF Abs
  <2>3. Float(x) = -Float(y) /\ Shown(x) = -Shown(y)
    BY <2>2, RoundNegative
  <2>4. Float(y) \in Nat
    <3>1. Abs(y) = y
      BY <2>2 DEF Abs
    <3>2. Unit(y) \in {1, 2, 4, 8, 16, 32, 64}
      BY <2>2, <3>1, UnitIs
    <3>3. IsRound(Float(y), y, Unit(y))
      BY <2>2, <3>2, RoundToIs DEF Float
    <3> QED
      BY <3>3 DEF IsRound
  <2>5. Float(y) = y
    BY <1>1, <2>1, <2>3, <2>4
  <2>6. PICK s : s = Shown(y)
    OBVIOUS
  <2>7. s \in Nat /\ s <= 1000000000 /\ Shown(Float(s)) = s /\ (s = 0 => y = 0)
    BY <2>2, <2>5, <2>6, ShownAgainNat
  <2>8. Float(-s) = -Float(s)
    BY <2>7, RoundNegative
  <2>9. PICK f : f = Float(s)
    OBVIOUS
  <2>10. f \in Nat /\ f <= 1000000000
    BY <2>7, <2>9, FloatIsFloat DEF Floats, Abs
  <2>11. Shown(-f) = -Shown(f)
    BY <2>10, RoundNegative
  <2> QED
    BY <2>2, <2>3, <2>6, <2>7, <2>8, <2>9, <2>11
<1> QED
  BY <1>1, <1>2, <1>3

-----------------------------------------------------------------------------
(* The values that the parsers make of a text: the numbers are what floats *)
(* hold, lists have the numbers they should have, and names are names.     *)

FineLength(v) ==
    v = [value |-> v.value, units |-> v.units] /\ v.value \in Floats /\ v.units \in Units \union {"user"}

FineColor(v) ==
    \/ v = NoColor
    \/ \E word : v = Rgba(word)
    \/ /\ v = Url(v.name) /\ IsName(v.name) /\ NameLen(v.name) < 128
       /\ v.name = <<>> \/ v.name = <<Name(v.name[1].kind, NameLen(v.name))>>

FineTransform(v) ==
    /\ v.type \in DOMAIN MaxArgs
    /\ v.type = "matrix" => v.xform \in Seq(Floats) /\ Len(v.xform) = 6
    /\ v.type # "matrix" => v.args \in Seq(Floats) /\ Len(v.args) <= MaxArgs[v.type]

FineDashes(v) ==
    /\ v \in Seq(Floats \intersect Nat)
    /\ Len(v) <= MaxDashes
    /\ v = <<>> \/ \E i \in 1..Len(v) : v[i] # 0

FineAlign(v) ==
    /\ v = [alignX |-> v.alignX, alignY |-> v.alignY, alignType |-> v.alignType]
    /\ \/ v.alignX = "none" /\ v.alignY = "none" /\ v.alignType = "none"
       \/ /\ v.alignX \in {"xMid", "xMin", "xMax"}
          /\ v.alignY \in {"yMid", "yMin", "yMax"}
          /\ v.alignType \in {"meet", "slice"}

FineOp(op) ==
    /\ op = Op(op.code, op.args)
    /\ op.code \in Letters
    /\ op.args \in Seq(Floats)
    /\ Len(op.args) = ArgCount(op.code)

FinePath(v) == IsSeq(v) /\ \A i \in 1..Len(v) : FineOp(v[i])

Fine(a, v) ==
    /\ AttrType(a) = "enum" => v \in Int
    /\ AttrType(a) = "id" => IsName(v)
    /\ AttrType(a) = "length" => FineLength(v)
    /\ AttrType(a) = "color" => FineColor(v)
    /\ AttrType(a) = "transform" => FineTransform(v)
    /\ AttrType(a) = "dasharray" => FineDashes(v)
    /\ AttrType(a) = "float" => v \in Floats
    /\ AttrType(a) = "viewbox" => v \in [1..4 -> Floats]
    /\ AttrType(a) = "aspectratio" => FineAlign(v)
    /\ AttrType(a) = "path" => FinePath(v)
    /\ AttrType(a) = "points" => v \in Seq(Floats)

-----------------------------------------------------------------------------
(* What is written in the binary form is read again                        *)

(* A sequence behind a single element.                                     *)
PutBefore(s, x, t) == s = <<x>> \o t

Prefixed(s, x, t) ==
    /\ IsSeq(s) /\ Len(s) = Len(t) + 1 /\ Len(t) \in Nat
    /\ s[1] = x
    /\ \A k \in 1..Len(t) : s[k + 1] = t[k]

(* Its first element is that one, and the others follow.                   *)
LEMMA Prepended ==
    ASSUME NEW s, NEW x, NEW t, IsSeq(t), PutBefore(s, x, t)
    PROVE  Prefixed(s, x, t)
<1> DEFINE first == <<x>>
<1>1. IsSeq(first) /\ Len(first) = 1 /\ first[1] = x
  BY OneSeq
<1>2. s = first \o t
  BY DEF PutBefore
<1> HIDE DEF first
<1>3. JoinOf(s, first, t)
  BY <1>1, <1>2, JoinIs
<1>4. Len(t) \in Nat
  BY SeqDomain
<1>5. 1 \in 1..1 /\ \A k \in 1..Len(t) : 1 + k = k + 1
  BY <1>4
<1> QED
  BY <1>1, <1>3, <1>4, <1>5 DEF JoinOf, Prefixed

(* It is found behind it.                                                  *)
LEMMA HoldsBehind ==
    ASSUME NEW s, NEW x, NEW t, IsSeq(t), PutBefore(s, x, t)
    PROVE  Holds(s, 2, t)
<1>1. Len(t) \in Nat /\ \A k \in 1..Len(t) : s[k + 1] = t[k]
  BY Prepended DEF Prefixed
<1>2. \A k \in 1..Len(t) : 2 + k - 1 = k + 1
  BY <1>1
<1> QED
  BY <1>1, <1>2 DEF Holds

(* The numbers of a sequence.                                              *)
LEMMA NumbersAre ==
    ASSUME NEW v, IsSeq(v)
    PROVE  /\ IsSeq(Numbers(v)) /\ Len(Numbers(v)) = Len(v)
           /\ \A k \in 1..Len(v) : Numbers(v)[k] = Num(v[k])
<1>1. PICK t : t = Numbers(v)
  OBVIOUS
<1>2. Len(v) \in Nat /\ t = [i \in 1..Len(v) |-> Num(v[i])]
  BY <1>1, SeqDomain DEF Numbers
<1>3. t = [i \in 1..Len(v) |-> t[i]]
  BY <1>2
<1> QED
  BY <1>1, <1>2, <1>3, SeqMade

(* Numbers that are among the fields are read.                             *)
LEMMA FieldsBack ==
    ASSUME NEW v, IsSeq(v), NEW s, NEW i \in Nat, Holds(s, i, Numbers(v))
    PROVE  Fields(s, i, Len(v)) = v
<1>1. Len(v) \in Nat /\ v = [k \in 1..Len(v) |-> v[k]]
  BY SeqDomain
<1>2. \A k \in 1..Len(v) : s[i + k - 1].number = v[k]
  <2> TAKE k \in 1..Len(v)
  <2>1. PICK t : t = Numbers(v)
    OBVIOUS
  <2>2. Len(t) = Len(v) /\ t[k] = Num(v[k])
    BY <2>1, NumbersAre
  <2>3. s[i + k - 1] = t[k]
    BY <2>1, <2>2 DEF Holds
  <2> QED
    BY <2>2, <2>3 DEF Num, Token
<1>3. Fields(s, i, Len(v)) = [k \in 1..Len(v) |-> s[i + k - 1].number]
  BY DEF Fields
<1> QED
  BY <1>1, <1>2, <1>3

(* A name is read that is not too long.                                    *)
LEMMA ReadNameAgain ==
    ASSUME NEW name, IsName(name), NameLen(name) < 128,
           NEW s, NEW i \in Nat, Holds(s, i, WriteName(name))
    PROVE  /\ IsSeq(WriteName(name))
           /\ ReadName(s, i) = Read(name, i + Len(WriteName(name)))
<1>1. IsSeq(name) /\ NameLen(name) \in Nat
  BY NameHasLength
<1>2. PICK t : t = WriteName(name)
  OBVIOUS
<1>3. /\ IsSeq(t) /\ Len(t) = Len(name) + 1 /\ Len(name) \in Nat
      /\ t[1] = Num(NameLen(name))
      /\ \A k \in 1..Len(name) : t[k + 1] = name[k]
  <2>1. PICK x : x = Num(NameLen(name))
    OBVIOUS
  <2>2. PutBefore(t, x, name)
    BY <1>2, <2>1 DEF WriteName, PutBefore
  <2> QED
    BY <1>1, <2>1, <2>2, Prepended DEF Prefixed
<1>4. \A k \in 1..Len(t) : s[i + k - 1] = t[k]
  BY <1>2 DEF Holds
<1>5. s[i].number = NameLen(name)
  <2>1. 1 \in 1..Len(t) /\ i + 1 - 1 = i
    BY <1>3
  <2>2. s[i] = t[1]
    BY <1>4, <2>1
  <2> QED
    BY <1>3, <2>2 DEF Num, Token
<1>6. CASE name = <<>>
  <2>1. NameLen(name) = 0 /\ Len(name) = 0
    BY <1>6, NoSeq
  <2>2. ReadName(s, i) = Read(<<>>, i + 1)
    <3>1. s[i].number = 0
      BY <1>5, <2>1
    <3> QED
      BY <3>1 DEF ReadName
  <2>3. Len(t) = 1
    BY <1>3, <2>1
  <2> QED
    BY <1>2, <1>3, <1>6, <2>2, <2>3
<1>7. CASE name # <<>>
  <2>1. name = <<name[1]>> /\ name[1].number \in Nat \ {0}
    BY <1>7 DEF IsName
  <2>2. NameLen(name) \in 1..127 /\ Len(name) = 1
    <3>1. NameLen(name) = name[1].number
      BY <1>7 DEF NameLen
    <3>2. Len(<<name[1]>>) = 1
      BY OneSeq
    <3>3. Len(name) = 1
      BY <2>1, <3>2
    <3>4. NameLen(name) # 0
      BY <2>1, <3>1
    <3>5. NameLen(name) \in 1..127
      BY <1>1, <3>4
    <3> QED
      BY <3>3, <3>5
  <2>3. ReadName(s, i) = Read(<<s[i + 1]>>, i + 2)
    BY <1>5, <2>2 DEF ReadName
  <2>4. s[i + 1] = name[1]
    <3>1. 2 \in 1..Len(t) /\ i + 2 - 1 = i + 1 /\ 1 \in 1..Len(name) /\ 1 + 1 = 2
      BY <1>3, <2>2
    <3> QED
      BY <1>3, <1>4, <3>1
  <2>5. i + Len(t) = i + 2
    BY <1>3, <2>2
  <2> QED
    BY <1>2, <1>3, <2>1, <2>3, <2>4, <2>5
<1> QED
  BY <1>6, <1>7

(* A colour is read.                                                       *)
LEMMA ReadColorAgain ==
    ASSUME NEW a, AttrType(a) = "color", NEW v, FineColor(v), NEW s, s = WriteBinary(a, v)
    PROVE  ReadBinary(a, s, 1) = Read(v, Len(s) + 1)
<1>1. ReadBinary(a, s, 1) = ReadColor(s, 1)
  BY DEF ReadBinary
<1>2. PICK t : t = CASE v.type = "rgba" -> <<Hex(8, v.word)>>
                     [] v.type = "url" -> WriteName(v.name)
                     [] v.type = "none" -> <<>>
  OBVIOUS
<1>3. PICK x : x = Mark(v.type)
  OBVIOUS
<1>4. PutBefore(s, x, t)
  BY <1>2, <1>3 DEF WriteBinary, PutBefore
<1>5. x.kind = v.type
  BY <1>3 DEF Mark, Token
<1>6. CASE v = NoColor
  <2>1. v.type = "none"
    BY <1>6 DEF NoColor
  <2>2. IsSeq(t) /\ Len(t) = 0
    BY <1>2, <2>1, NoSeq
  <2>3. Len(s) = 1 /\ s[1] = x
    <3>1. Len(s) = Len(t) + 1 /\ s[1] = x
      BY <1>4, <2>2, Prepended DEF Prefixed
    <3> QED
      BY <2>2, <3>1
  <2>4. ReadColor(s, 1) = Read(NoColor, 1 + 1)
    <3>1. s[1].kind = "none"
      BY <1>5, <2>1, <2>3
    <3> QED
      BY <3>1 DEF ReadColor
  <2> QED
    BY <1>1, <1>6, <2>3, <2>4
<1>7. ASSUME NEW word, v = Rgba(word) PROVE ReadColor(s, 1) = Read(v, Len(s) + 1)
  <2>1. v.type = "rgba" /\ v.word = word
    BY <1>7 DEF Rgba
  <2>2. t = <<Hex(8, word)>>
    BY <1>2, <2>1
  <2>3. IsSeq(t) /\ Len(t) = 1 /\ t[1] = Hex(8, word)
    BY <2>2, OneSeq
  <2>4. Len(s) = 2 /\ s[1] = x /\ s[2] = t[1]
    <3>1. Len(s) = Len(t) + 1 /\ s[1] = x /\ \A k \in 1..Len(t) : s[k + 1] = t[k]
      <4>1. Prefixed(s, x, t)
        BY <1>4, <2>3, Prepended
      <4> QED
        BY <4>1 DEF Prefixed
    <3>2. 1 \in 1..Len(t) /\ 1 + 1 = 2
      BY <2>3
    <3>3. s[1 + 1] = t[1]
      BY <3>1, <3>2
    <3> QED
      BY <2>3, <3>1, <3>2, <3>3
  <2>5. s[2].word = word
    BY <2>3, <2>4 DEF Hex, Token
  <2>6. ReadColor(s, 1) = Read(Rgba(s[1 + 1].word), 1 + 2)
    <3>1. s[1].kind = "rgba"
      BY <1>5, <2>1, <2>4
    <3> QED
      BY <3>1 DEF ReadColor
  <2>7. s[1 + 1].word = word /\ 1 + 2 = Len(s) + 1
    BY <2>4, <2>5
  <2> QED
    BY <1>7, <2>6, <2>7
<1>8. ASSUME v = Url(v.name), IsName(v.name), NameLen(v.name) < 128
      PROVE  ReadColor(s, 1) = Read(v, Len(s) + 1)
  <2>1. v.type = "url"
    BY <1>8 DEF Url
  <2>2. t = WriteName(v.name)
    BY <1>2, <2>1
  <2>3. IsSeq(t)
    <3>1. IsSeq(v.name) /\ IsSeq(<<Num(NameLen(v.name))>>)
      BY <1>8, NameHasLength, OneSeq
    <3> QED
      BY <2>2, <3>1, SeqJoined DEF WriteName
  <2>4. Len(s) = Len(t) + 1 /\ Len(t) \in Nat /\ s[1] = x /\ Holds(s, 2, t)
    BY <1>4, <2>3, Prepended, HoldsBehind DEF Prefixed
  <2>5. ReadName(s, 2) = Read(v.name, 2 + Len(t))
    BY <1>8, <2>2, <2>4, ReadNameAgain
  <2>6. ReadColor(s, 1) = IF ReadName(s, 1 + 1).fault THEN Fault
                          ELSE Read(Url(ReadName(s, 1 + 1).value), ReadName(s, 1 + 1).next)
    <3>1. s[1].kind = "url"
      BY <1>5, <2>1, <2>4
    <3> QED
      BY <3>1 DEF ReadColor
  <2>7. ReadColor(s, 1) = Read(Url(v.name), 2 + Len(t))
    BY <2>5, <2>6 DEF Read
  <2>8. 2 + Len(t) = Len(s) + 1
    BY <2>4
  <2> QED
    BY <1>8, <2>7, <2>8
<1> QED
  BY <1>1, <1>6, <1>7, <1>8 DEF FineColor

(* A transform is read as what is written of it.                           *)
LEMMA ReadTransformAgain ==
    ASSUME NEW a, AttrType(a) = "transform", NEW v, FineTransform(v), NEW s, s = WriteBinary(a, v)
    PROVE  \E w : ReadBinary(a, s, 1) = Read(w, Len(s) + 1) /\ WriteText(a, w) = WriteText(a, v)
<1>1. ReadBinary(a, s, 1) = ReadTransform(s, 1)
  BY DEF ReadBinary
<1>2. PICK x : x = Mark(v.type)
  OBVIOUS
<1>3. x.kind = v.type
  BY <1>2 DEF Mark, Token
<1>4. CASE v.type = "matrix"
  <2>1. s = <<x>> \o Numbers(v.xform)
    BY <1>2, <1>4 DEF WriteBinary
  <2>2. IsSeq(v.xform) /\ Len(v.xform) = 6
    BY <1>4, SeqOfAny DEF FineTransform
  <2>3. PICK t : t = Numbers(v.xform)
    OBVIOUS
  <2>4. IsSeq(t) /\ Len(t) = 6
    BY <2>2, <2>3, NumbersAre
  <2>5. Len(s) = 7 /\ s[1] = x /\ Holds(s, 2, t)
    <3>1. PutBefore(s, x, t)
      BY <2>1, <2>3 DEF PutBefore
    <3>2. Len(s) = Len(t) + 1 /\ s[1] = x
      BY <2>4, <3>1, Prepended DEF Prefixed
    <3> QED
      BY <2>4, <3>1, <3>2, HoldsBehind
  <2>6. Fields(s, 2, 6) = v.xform
    BY <2>2, <2>3, <2>5, FieldsBack
  <2> DEFINE w == [type |-> "matrix", args |-> <<>>, xform |-> v.xform]
  <2>7. ReadTransform(s, 1) = Read(w, Len(s) + 1)
    <3>1. s[1].kind = "matrix"
      BY <1>3, <1>4, <2>5
    <3>2. ReadTransform(s, 1) =
            Read([type |-> "matrix", args |-> <<>>, xform |-> Fields(s, 1 + 1, 6)], 1 + 7)
      BY <3>1 DEF ReadTransform
    <3> QED
      BY <2>5, <2>6, <3>2
  <2>8. WriteText(a, w) = WriteText(a, v)
    BY <1>4 DEF WriteText, WriteTransform
  <2> QED
    BY <1>1, <2>7, <2>8
<1>5. CASE v.type # "matrix"
  <2>1. s = <<x>> \o Counted(v.args)
    BY <1>2, <1>5 DEF WriteBinary
  <2>2. IsSeq(v.args)
    BY <1>5, SeqOfAny DEF FineTransform
  <2>3. PICK t : t = Counted(v.args)
    OBVIOUS
  <2>4. IsSeq(t) /\ Len(t) = Len(v.args) + 1 /\ Len(v.args) \in Nat
    BY <2>2, <2>3, CountedIs, SeqDomain
  <2>5. Len(s) = Len(t) + 1 /\ s[1] = x /\ Holds(s, 2, t)
    <3>1. PutBefore(s, x, t)
      BY <2>1, <2>3 DEF PutBefore
    <3>2. Len(s) = Len(t) + 1 /\ s[1] = x
      BY <2>4, <3>1, Prepended DEF Prefixed
    <3> QED
      BY <2>4, <3>1, <3>2, HoldsBehind
  <2>6. ReadCounted(s, 2) = Read(v.args, 2 + 1 + Len(v.args))
    BY <2>2, <2>3, <2>5, ReadCountedBack
  <2> DEFINE w == [type |-> v.type, args |-> v.args, xform |-> <<>>]
  <2>7. ReadTransform(s, 1) = Read(w, Len(s) + 1)
    <3>1. s[1].kind = v.type
      BY <1>3, <2>5
    <3>2. ReadTransform(s, 1) =
            Read([type |-> v.type, args |-> ReadCounted(s, 1 + 1).value, xform |-> <<>>],
                 ReadCounted(s, 1 + 1).next)
      BY <1>5, <3>1 DEF ReadTransform
    <3>3. ReadCounted(s, 1 + 1).value = v.args /\ ReadCounted(s, 1 + 1).next = Len(s) + 1
      BY <2>4, <2>5, <2>6 DEF Read
    <3> QED
      BY <3>2, <3>3
  <2>8. WriteText(a, w) = WriteText(a, v)
    BY <1>5 DEF WriteText, WriteTransform
  <2> QED
    BY <1>1, <2>7, <2>8
<1> QED
  BY <1>4, <1>5

(* Any value is read that the format keeps, and all that was written of it.*)
LEMMA FieldsAgain ==
    ASSUME NEW a \in AttrNames, NEW v, Fine(a, v), Kept("binary", AttrType(a), v),
           NEW s, s = WriteBinary(a, v)
    PROVE  \E w : /\ ReadBinary(a, s, 1) = Read(w, Len(s) + 1)
                  /\ WriteText(a, w) = WriteText(a, v)
                  /\ AttrType(a) \in {"points", "path"} => w = v
<1>1. CASE AttrType(a) = "enum"
  <2>1. PICK m : m = EnumModulus(a)
    OBVIOUS
  <2>2. m \in Nat /\ m > 0
    BY <1>1, <2>1 DEF EnumModulus, EnumNames, AttrNames, AttrType
  <2>3. v \in Int
    BY <1>1 DEF Fine
  <2>4. PICK r : r = v % m
    OBVIOUS
  <2>5. r \in 0..(m - 1) /\ r % m = r
    BY <2>2, <2>3, <2>4
  <2>6. s = <<Num(r)>>
    BY <1>1, <2>1, <2>4 DEF WriteBinary
  <2>7. Len(s) = 1 /\ s[1] = Num(r)
    BY <2>6, OneSeq
  <2>8. s[1].number = r
    BY <2>7 DEF Num, Token
  <2>9. ReadBinary(a, s, 1) = Read(s[1].number % m, 1 + 1)
    BY <1>1, <2>1 DEF ReadBinary
  <2>10. ReadBinary(a, s, 1) = Read(r, Len(s) + 1)
    BY <2>5, <2>7, <2>8, <2>9
  <2>11. WriteText(a, r) = WriteText(a, v)
    <3>1. WriteText(a, r) = WriteEnum(a, r) /\ WriteText(a, v) = WriteEnum(a, v)
      BY <1>1 DEF WriteText
    <3> QED
      BY <2>1, <2>4, <2>5, <3>1 DEF WriteEnum
  <2> QED
    BY <1>1, <2>10, <2>11
<1>2. CASE AttrType(a) = "id"
  <2>1. s = WriteName(v) /\ ReadBinary(a, s, 1) = ReadName(s, 1)
    BY <1>2 DEF WriteBinary, ReadBinary
  <2>2. IsName(v) /\ NameLen(v) < 128
    BY <1>2 DEF Fine, Kept
  <2>3. IsSeq(s)
    <3>1. IsSeq(v) /\ IsSeq(<<Num(NameLen(v))>>)
      BY <2>2, NameHasLength, OneSeq
    <3> QED
      BY <2>1, <3>1, SeqJoined DEF WriteName
  <2>4. Holds(s, 1, WriteName(v))
    BY <2>1, <2>3, HoldsItself
  <2>5. ReadName(s, 1) = Read(v, 1 + Len(s))
    BY <2>1, <2>2, <2>4, ReadNameAgain
  <2>6. 1 + Len(s) = Len(s) + 1
    BY <2>3, SeqDomain
  <2> QED
    BY <1>2, <2>1, <2>5, <2>6
<1>3. CASE AttrType(a) = "length"
  <2>1. v = [value |-> v.value, units |-> v.units]
    BY <1>3 DEF Fine, FineLength
  <2>2. s = <<Num(v.value), Mark(v.units)>>
    BY <1>3 DEF WriteBinary
  <2>3. Len(s) = 2 /\ s[1].number = v.value /\ s[1 + 1].kind = v.units
    BY <2>2 DEF Num, Mark, Token
  <2>4. ReadBinary(a, s, 1) = Read([value |-> s[1].number, units |-> s[1 + 1].kind], 1 + 2)
    BY <1>3 DEF ReadBinary
  <2> QED
    BY <1>3, <2>1, <2>3, <2>4
<1>4. CASE AttrType(a) = "color"
  <2>1. ReadBinary(a, s, 1) = Read(v, Len(s) + 1)
    BY <1>4, ReadColorAgain DEF Fine
  <2> QED
    BY <1>4, <2>1
<1>5. CASE AttrType(a) = "transform"
  BY <1>5, ReadTransformAgain DEF Fine
<1>6. CASE AttrType(a) \in {"dasharray", "points"}
  <2>1. s = Counted(v) /\ ReadBinary(a, s, 1) = ReadCounted(s, 1)
    BY <1>6 DEF WriteBinary, ReadBinary
  <2>2. IsSeq(v)
    BY <1>6, SeqOfAny DEF Fine, FineDashes
  <2>3. IsSeq(s) /\ Len(s) = Len(v) + 1 /\ Len(v) \in Nat
    BY <2>1, <2>2, CountedIs, SeqDomain
  <2>4. Holds(s, 1, Counted(v))
    BY <2>1, <2>3, HoldsItself
  <2>5. ReadCounted(s, 1) = Read(v, 1 + 1 + Len(v))
    BY <2>2, <2>4, ReadCountedBack
  <2>6. 1 + 1 + Len(v) = Len(s) + 1
    BY <2>3
  <2> QED
    BY <2>1, <2>5, <2>6
<1>7. CASE AttrType(a) = "float"
  <2>1. s = <<Num(v)>> /\ ReadBinary(a, s, 1) = Read(s[1].number, 1 + 1)
    BY <1>7 DEF WriteBinary, ReadBinary
  <2>2. Len(s) = 1 /\ s[1] = Num(v)
    BY <2>1, OneSeq
  <2>3. s[1].number = v
    BY <2>2 DEF Num, Token
  <2> QED
    BY <1>7, <2>1, <2>2, <2>3
<1>8. CASE AttrType(a) = "viewbox"
  <2>1. s = Numbers(v) /\ ReadBinary(a, s, 1) = Read(Fields(s, 1, 4), 1 + 4)
    BY <1>8 DEF WriteBinary, ReadBinary
  <2>2. v \in [1..4 -> Floats]
    BY <1>8 DEF Fine
  <2>3. v = [i \in 1..4 |-> v[i]] /\ 4 \in Nat
    BY <2>2
  <2>4. IsSeq(v) /\ Len(v) = 4
    BY <2>3, SeqMade
  <2>5. IsSeq(s) /\ Len(s) = 4
    BY <2>1, <2>4, NumbersAre
  <2>6. Holds(s, 1, Numbers(v))
    BY <2>1, <2>5, HoldsItself
  <2>7. Fields(s, 1, 4) = v
    BY <2>4, <2>6, FieldsBack
  <2> QED
    BY <1>8, <2>1, <2>5, <2>7
<1>9. CASE AttrType(a) = "aspectratio"
  <2>1. v = [alignX |-> v.alignX, alignY |-> v.alignY, alignType |-> v.alignType]
    BY <1>9 DEF Fine, FineAlign
  <2>2. s = <<Mark(v.alignX), Mark(v.alignY), Mark(v.alignType)>>
    BY <1>9 DEF WriteBinary
  <2>3. /\ Len(s) = 3 /\ s[1].kind = v.alignX
        /\ s[1 + 1].kind = v.alignY /\ s[1 + 2].kind = v.alignType
    BY <2>2 DEF Mark, Token
  <2>4. ReadBinary(a, s, 1) =
          Read([alignX |-> s[1].kind, alignY |-> s[1 + 1].kind, alignType |-> s[1 + 2].kind], 1 + 3)
    BY <1>9 DEF ReadBinary
  <2> QED
    BY <1>9, <2>1, <2>3, <2>4
<1>10. CASE AttrType(a) = "path"
  <2>1. s = <<Num(Len(v))>> \o FlattenSeq(OpFields(v)) /\ ReadBinary(a, s, 1) = ReadPath(s, 1)
    BY <1>10 DEF WriteBinary, ReadBinary, OpFields
  <2>2. GoodPath(v)
    <3>1. FinePath(v)
      BY <1>10 DEF Fine
    <3>2. IsSeq(v) /\ DOMAIN v = 1..Len(v)
      BY <3>1, SeqDomain DEF FinePath
    <3> QED
      BY <3>1, <3>2, SeqOfAny DEF FinePath, FineOp, GoodPath
  <2>3. ReadPath(s, 1) = Read(v, Len(s) + 1)
    BY <2>1, <2>2, ReadPathBack
  <2> QED
    BY <2>1, <2>3
<1> QED
  BY <1>1, <1>2, <1>3, <1>4, <1>5, <1>6, <1>7, <1>8, <1>9, <1>10, AttrTypes DEF Types

-----------------------------------------------------------------------------
(* Numbers with marks between them *)

ListOf(v, marks) ==
    FlattenSeq([i \in DOMAIN v |-> (IF i = 1 THEN <<>> ELSE <<marks[i]>>) \o <<Num(Shown(v[i]))>>])

(* The numbers are at the odd places, and the marks between them.          *)
IsList(t, v, marks) ==
    /\ IsSeq(t)
    /\ Len(t) = IF Len(v) = 0 THEN 0 ELSE 2 * Len(v) - 1
    /\ \A i \in 1..Len(v) : t[2 * i - 1] = Num(Shown(v[i]))
    /\ \A i \in 2..Len(v) : t[2 * i - 2] = marks[i]

(* This is where they are.                                                 *)
LEMMA ListIs ==
    ASSUME NEW v, IsSeq(v), NEW marks
    PROVE  IsList(ListOf(v, marks), v, marks)
<1> DEFINE q == [i \in DOMAIN v |->
              (IF i = 1 THEN <<>> ELSE <<marks[i]>>) \o <<Num(Shown(v[i]))>>]
           n == Len(v)
<1>1. n \in Nat /\ DOMAIN v = 1..n
  BY SeqDomain
<1>2. IsSeq(q) /\ Len(q) = n /\ DOMAIN q = 1..n
  BY <1>1, SeqMade
<1>3. ASSUME NEW i \in 1..n
      PROVE  /\ IsSeq(q[i])
             /\ i = 1 => Len(q[i]) = 1 /\ q[i][1] = Num(Shown(v[i]))
             /\ i # 1 => Len(q[i]) = 2 /\ q[i][1] = marks[i] /\ q[i][2] = Num(Shown(v[i]))
  <2>1. PICK x, y : x = Num(Shown(v[i])) /\ y = marks[i]
    OBVIOUS
  <2>2. q[i] = (IF i = 1 THEN <<>> ELSE <<y>>) \o <<x>>
    BY <1>1, <2>1
  <2> HIDE DEF q
  <2>3. CASE i = 1
    <3>1. q[i] = <<x>>
      BY <2>2, <2>3
    <3> QED
      BY <2>1, <2>3, <3>1, OneSeq
  <2>4. CASE i # 1
    <3>1. PICK t, z : t = <<x>> /\ z = q[i]
      OBVIOUS
    <3>2. PutBefore(z, y, t)
      BY <2>2, <2>4, <3>1 DEF PutBefore
    <3>3. IsSeq(t) /\ Len(t) = 1 /\ t[1] = x
      BY <3>1, OneSeq
    <3>4. Prefixed(z, y, t)
      BY <3>2, <3>3, Prepended
    <3>5. IsSeq(z) /\ Len(z) = 2 /\ z[1] = y /\ z[2] = x
      <4>1. 1 \in 1..Len(t) /\ 1 + 1 = 2
        BY <3>3
      <4> QED
        BY <3>3, <3>4, <4>1 DEF Prefixed
    <3> QED
      BY <2>1, <2>4, <3>1, <3>5
  <2> QED
    BY <2>3, <2>4
<1>4. ListOf(v, marks) = FlattenSeq(q)
  BY DEF ListOf
<1> HIDE DEF q
<1>5. PICK f : Joins(f, q, n) /\ \A k \in 0..n : IsSeq(f[k])
  BY <1>1, <1>3, JoinsExist
<1>6. FlattenSeq(q) = f[n]
  <2> HIDE DEF n
  <2> QED
    BY <1>1, <1>2, <1>3, <1>5, FlattenAll
<1>7. Joined(f, q, n)
  BY <1>1, <1>3, <1>5, JoinsHold
<1> DEFINE T == {k \in 0..n : Len(f[k]) = IF k = 0 THEN 0 ELSE 2 * k - 1}
<1>8. 0 \in T
  BY <1>1, <1>5, EmptyIsSeq DEF Joins
<1>9. ASSUME NEW k \in 1..n, k - 1 \in T
      PROVE  k \in T
  <2>1. Len(f[k]) = Len(f[k - 1]) + Len(q[k])
    BY <1>7 DEF Joined
  <2>2. Len(f[k - 1]) = IF k = 1 THEN 0 ELSE 2 * (k - 1) - 1
    BY <1>9
  <2>3. Len(q[k]) = IF k = 1 THEN 1 ELSE 2
    BY <1>3
  <2>4. Len(f[k]) = 2 * k - 1
    BY <2>1, <2>2, <2>3
  <2> QED
    BY <2>4
<1>10. \A k \in 0..n : Len(f[k]) = IF k = 0 THEN 0 ELSE 2 * k - 1
  <2>1. 0..n \subseteq T
    <3> HIDE DEF T
    <3> QED
      BY <1>1, <1>8, <1>9, Upwards
  <2> QED
    BY <2>1
<1>11. \A k \in 1..n : \A x \in 1..Len(q[k]) : f[n][Len(f[k - 1]) + x] = q[k][x]
  BY <1>7 DEF Joined
<1>12. ASSUME NEW i \in 1..n
       PROVE  f[n][2 * i - 1] = Num(Shown(v[i])) /\ (i # 1 => f[n][2 * i - 2] = marks[i])
  <2>1. CASE i = 1
    <3>1. 1 \in 1..Len(q[1]) /\ Len(f[1 - 1]) + 1 = 2 * 1 - 1
      BY <1>1, <1>3, <1>10, <2>1
    <3>2. f[n][Len(f[1 - 1]) + 1] = q[1][1]
      BY <1>11, <2>1, <3>1
    <3> QED
      BY <1>3, <2>1, <3>1, <3>2
  <2>2. CASE i # 1
    <3>1. 1 \in 1..Len(q[i]) /\ 2 \in 1..Len(q[i])
      BY <1>3, <2>2
    <3>2. Len(f[i - 1]) + 1 = 2 * i - 2 /\ Len(f[i - 1]) + 2 = 2 * i - 1
      <4>1. PICK j : j = i - 1
        OBVIOUS
      <4>2. i \in Nat /\ j \in 0..n /\ j # 0 /\ i = j + 1
        BY <1>1, <2>2, <4>1
      <4>3. Len(f[j]) = 2 * j - 1
        BY <1>10, <4>2
      <4>4. 2 * j - 1 + 1 = 2 * i - 2 /\ 2 * j - 1 + 2 = 2 * i - 1
        BY <4>2
      <4> QED
        BY <4>1, <4>3, <4>4
    <3>3. f[n][Len(f[i - 1]) + 1] = q[i][1] /\ f[n][Len(f[i - 1]) + 2] = q[i][2]
      BY <1>11, <3>1
    <3> QED
      BY <1>3, <2>2, <3>2, <3>3
  <2> QED
    BY <2>1, <2>2
<1>13. n \in 0..n /\ \A i \in 2..n : i \in 1..n /\ i # 1
  BY <1>1
<1> QED
  BY <1>1, <1>4, <1>5, <1>6, <1>10, <1>12, <1>13 DEF IsList

(* Numbers that are shown the same make the same list.                     *)
LEMMA ListSame ==
    ASSUME NEW v, NEW w, IsSeq(v), IsSeq(w), Len(v) = Len(w),
           \A i \in 1..Len(v) : Shown(w[i]) = Shown(v[i]), NEW marks
    PROVE  ListOf(w, marks) = ListOf(v, marks)
<1>1. DOMAIN v = 1..Len(v) /\ DOMAIN w = 1..Len(v)
  BY SeqDomain
<1>2. [i \in DOMAIN w |-> (IF i = 1 THEN <<>> ELSE <<marks[i]>>) \o <<Num(Shown(w[i]))>>]
        = [i \in DOMAIN v |-> (IF i = 1 THEN <<>> ELSE <<marks[i]>>) \o <<Num(Shown(v[i]))>>]
  BY <1>1
<1> QED
  BY <1>2 DEF ListOf

(* The lists of the writers.                                               *)
CommaMarks(v) == [i \in DOMAIN v |-> Mark(",")]
SpaceMarks(v) == [i \in DOMAIN v |-> Mark(" ")]
PointMarks(v) == [i \in DOMAIN v |-> IF i % 2 = 0 THEN Mark(",") ELSE Mark(" ")]

(* What the writers of lists write is such a list.                         *)
LEMMA ListsAre ==
    ASSUME NEW v
    PROVE  /\ Listed(v, Comma) = ListOf(v, CommaMarks(v))
           /\ WriteViewbox(v) = ListOf(v, SpaceMarks(v))
           /\ WritePoints(v) = ListOf(v, PointMarks(v))
<1>1. Listed(v, Comma) = ListOf(v, CommaMarks(v))
  BY DEF Listed, ListOf, Comma, CommaMarks
<1>2. WriteViewbox(v) = ListOf(v, SpaceMarks(v))
  BY DEF Listed, ListOf, WriteViewbox, SpaceMarks
<1>3. WritePoints(v) = ListOf(v, PointMarks(v))
  BY DEF Listed, ListOf, WritePoints, PointMarks
<1> QED
  BY <1>1, <1>2, <1>3

-----------------------------------------------------------------------------
(* Where Find and Skip go to: the first place that is, or is not, of a     *)
(* kind.                                                                   *)
IsFind(text, i, kinds, j) ==
    /\ j \in i..(Len(text) + 1)
    /\ j <= Len(text) => text[j].kind \in kinds
    /\ \A k \in i..(j - 1) : text[k].kind \notin kinds

IsSkip(text, i, kinds, j) ==
    /\ j \in i..(Len(text) + 1)
    /\ j <= Len(text) => text[j].kind \notin kinds
    /\ \A k \in i..(j - 1) : text[k].kind \in kinds

(* The search for kinds of tokens stops at the first of them, and the skip *)
(* of kinds at the first of others.                                        *)
LEMMA FindIs ==
    ASSUME NEW text, IsSeq(text), NEW i \in 1..(Len(text) + 1), NEW kinds
    PROVE  /\ IsFind(text, i, kinds, Find(text, i, kinds))
           /\ IsSkip(text, i, kinds, Skip(text, i, kinds))
<1> DEFINE n == Len(text)
           T == {j \in i..n : text[j].kind \in kinds} \union {n + 1}
           U == {j \in i..n : text[j].kind \notin kinds} \union {n + 1}
<1>1. n \in Nat
  BY SeqDomain
<1>2. /\ T \subseteq i..(n + 1) /\ T # {} /\ T \in SUBSET Nat
      /\ U \subseteq i..(n + 1) /\ U # {} /\ U \in SUBSET Nat
  BY <1>1
<1>3. PICK f, g : f = Find(text, i, kinds) /\ g = Skip(text, i, kinds)
  OBVIOUS
<1>4. f = Min(T) /\ g = Min(U)
  BY <1>3 DEF Find, Skip
<1>5. f \in T /\ (\A k \in T : f <= k) /\ g \in U /\ (\A k \in U : g <= k)
  <2> HIDE DEF T, U
  <2> QED
    BY <1>2, <1>4, MinIs
<1>6. IsFind(text, i, kinds, f)
  BY <1>1, <1>5 DEF IsFind
<1>7. IsSkip(text, i, kinds, g)
  BY <1>1, <1>5 DEF IsSkip
<1> QED
  BY <1>3, <1>6, <1>7

(* There is one such place.                                                *)
LEMMA FindOnly ==
    ASSUME NEW text, IsSeq(text), NEW i \in 1..(Len(text) + 1), NEW kinds, NEW j
    PROVE  /\ IsFind(text, i, kinds, j) => Find(text, i, kinds) = j
           /\ IsSkip(text, i, kinds, j) => Skip(text, i, kinds) = j
<1>1. Len(text) \in Nat
  BY SeqDomain
<1>2. PICK f, g : f = Find(text, i, kinds) /\ g = Skip(text, i, kinds)
  OBVIOUS
<1>3. IsFind(text, i, kinds, f) /\ IsSkip(text, i, kinds, g)
  BY <1>2, FindIs
<1>4. IsFind(text, i, kinds, j) => f = j
  BY <1>1, <1>3 DEF IsFind
<1>5. IsSkip(text, i, kinds, j) => g = j
  BY <1>1, <1>3 DEF IsSkip
<1> QED
  BY <1>2, <1>4, <1>5

-----------------------------------------------------------------------------
(* What is parsed of a text of known tokens is such a value.               *)

KnownToken(t) == t.number \in (IF IsNum(t) THEN Whole ELSE Nat)

Known(text) == IsSeq(text) /\ \A i \in 1..Len(text) : KnownToken(text[i])

(* A known token is read as a float.                                       *)
LEMMA KnownAtof ==
    ASSUME NEW t, KnownToken(t)
    PROVE  Atof(t) \in Floats /\ Abs(Atof(t)) \in Floats \intersect Nat /\ t.number \in Int
<1>1. PICK x : x = Atof(t)
  OBVIOUS
<1>2. x \in Floats
  BY <1>1, AtofIs DEF KnownToken
<1>3. x \in Int /\ Abs(x) <= 1000000000 /\ Float(x) = x
  BY <1>2 DEF Floats
<1>4. Abs(x) \in Nat /\ Abs(Abs(x)) = Abs(x) /\ (x >= 0 => Abs(x) = x) /\ (x < 0 => Abs(x) = -x)
  BY <1>3 DEF Abs
<1>5. Float(Abs(x)) = Abs(x)
  <2>1. CASE x >= 0
    BY <1>3, <1>4, <2>1
  <2>2. CASE x < 0
    <3>1. PICK y : y = -x
      OBVIOUS
    <3>2. y \in Nat /\ y <= 1000000000 /\ x = -y
      BY <1>3, <1>4, <2>2, <3>1
    <3>3. Float(-y) = -Float(y)
      BY <3>2, RoundNegative
    <3>4. Float(y) \in Nat
      BY <3>2, FloatNat
    <3>5. Float(y) = y
      BY <1>3, <3>2, <3>3, <3>4
    <3> QED
      BY <1>4, <2>2, <3>1, <3>5
  <2> QED
    BY <1>3, <2>1, <2>2
<1>6. Abs(x) \in Floats
  BY <1>3, <1>4, <1>5 DEF Floats
<1>7. t.number \in Int
  BY DEF KnownToken, Whole
<1> QED
  BY <1>1, <1>2, <1>4, <1>6, <1>7

(* So is any place of a text, or behind it.                                *)
LEMMA KnownAt ==
    ASSUME NEW text, Known(text), NEW i \in Nat, i > 0
    PROVE  KnownToken(At(text, i))
<1>1. Len(text) \in Nat /\ \A k \in 1..Len(text) : KnownToken(text[k])
  BY SeqDomain DEF Known
<1>2. Mark("end").number = 0 /\ ~IsNum(Mark("end"))
  BY DEF Mark, Token, IsNum
<1>3. KnownToken(Mark("end"))
  BY <1>2 DEF KnownToken
<1> QED
  BY <1>1, <1>3 DEF At

(* The parser of enumerations makes a whole number,                        *)
LEMMA EnumParsed ==
    ASSUME NEW a, AttrType(a) = "enum", a \in AttrNames, NEW text
    PROVE  ParseEnum(a, text) \in Int
<1>1. PICK list : list = EnumNames(a)
  OBVIOUS
<1>2. a \in {"stroke-linecap", "display"}
  BY DEF AttrNames, AttrType
<1>3. DOMAIN list \subseteq Nat
  BY <1>1, <1>2 DEF EnumNames
<1>4. PICK found : found = {i \in DOMAIN list : text = <<Mark(list[i])>>}
  OBVIOUS
<1>5. found # {} => Min(found) \in Nat
  <2>1. found \in SUBSET Nat
    BY <1>3, <1>4
  <2> QED
    BY <2>1, MinIs
<1>6. ParseEnum(a, text) = IF found = {} THEN EnumDefault ELSE Min(found) - 1
  BY <1>1, <1>4 DEF ParseEnum
<1> QED
  BY <1>5, <1>6 DEF EnumDefault

(* that of lengths a length, and that of numbers a float,                  *)
LEMMA LengthParsed ==
    ASSUME NEW text, Known(text)
    PROVE  FineLength(ParseLength(text)) /\ ParseFloat(text) \in Floats
<1>1. Atof(At(text, 1)) \in Floats
  BY KnownAt, KnownAtof
<1>2. PICK units : units = IF IsNum(At(text, 1)) THEN At(text, 2) ELSE At(text, 1)
  OBVIOUS
<1>3. ParseLength(text) = [value |-> Atof(At(text, 1)),
                           units |-> IF units.kind \in Units THEN units.kind ELSE "user"]
  BY <1>2 DEF ParseLength
<1> QED
  BY <1>1, <1>3 DEF FineLength, ParseFloat

(* and that of aspect ratios an alignment.                                 *)
LEMMA AlignParsed ==
    ASSUME NEW text PROVE FineAlign(ParseAspectratio(text))
<1>1. PICK none : none <=> text = <<Mark("none")>>
  OBVIOUS
<1>2. PICK x, y, z : /\ x = ParseAlign(text, "xMid", "xMin", "xMax")
                     /\ y = ParseAlign(text, "yMid", "yMin", "yMax")
                     /\ z = ParseCrop(text)
  OBVIOUS
<1>3. ~none => x \in {"xMid", "xMin", "xMax"} /\ y \in {"yMid", "yMin", "yMax"}
  <2>1. ASSUME ~none PROVE x \in {"xMid", "xMin", "xMax"}
    BY <1>1, <1>2, <2>1 DEF ParseAlign
  <2>2. ASSUME ~none PROVE y \in {"yMid", "yMin", "yMax"}
    BY <1>1, <1>2, <2>2 DEF ParseAlign
  <2> QED
    BY <2>1, <2>2
<1>4. none => x = "none" /\ y = "none" /\ z = "none"
  <2>1. ASSUME none, NEW m, m # "none" PROVE ~Has(text, m)
    <3>1. Len(text) = 1 /\ text[1] = Mark("none") /\ DOMAIN text = 1..1
      BY <1>1, <2>1
    <3>2. Mark(m) # Mark("none")
      BY <2>1 DEF Mark, Token
    <3> QED
      BY <3>1, <3>2 DEF Has
  <2>2. \A m \in {"xMid", "xMin", "xMax", "yMid", "yMin", "yMax", "meet", "slice"} : m # "none"
    OBVIOUS
  <2>3. none => x = "none"
    BY <1>1, <1>2, <2>1, <2>2 DEF ParseAlign
  <2>4. none => y = "none"
    BY <1>1, <1>2, <2>1, <2>2 DEF ParseAlign
  <2>5. none => z = "none"
    BY <1>1, <1>2, <2>1, <2>2 DEF ParseCrop
  <2> QED
    BY <2>3, <2>4, <2>5
<1>5. ~none => z \in {"meet", "slice"}
  BY <1>1, <1>2 DEF ParseCrop
<1>6. ParseAspectratio(text) = [alignX |-> x, alignY |-> y, alignType |-> z]
  BY <1>2 DEF ParseAspectratio
<1> QED
  BY <1>3, <1>4, <1>5, <1>6 DEF FineAlign

(* A colour that is parsed.                                                *)
LEMMA ColorParsed ==
    ASSUME NEW text, Known(text), NameLen(ParseColor(text).name) \in Nat
    PROVE  FineColor(ParseColor(text))
<1>1. PICK str : str = SubSeq(text, Skip(text, 1, Space), Len(text))
  OBVIOUS
<1>2. PICK v : v = ParseColor(text)
  OBVIOUS
<1>3. CASE PlainColor(v)
  BY <1>2, <1>3 DEF PlainColor, FineColor
<1>4. CASE v = Url(UrlName(str))
  <2>1. PICK t : t = At(str, 2)
    OBVIOUS
  <2>2. PICK name : name = UrlName(str)
    OBVIOUS
  <2>3. t.number \in Int
    <3>1. Len(text) \in Nat /\ IsSeq(text)
      BY SeqDomain DEF Known
    <3>2. 1 \in 1..(Len(text) + 1)
      BY <3>1
    <3>3. Skip(text, 1, Space) \in 1..(Len(text) + 1)
      BY <3>1, <3>2, FindWithin
    <3>4. PICK m : m = Skip(text, 1, Space)
      OBVIOUS
    <3>5. m \in Nat /\ m >= 1 /\ Len(text) - m + 1 \in Nat
      BY <3>1, <3>3, <3>4
    <3>6. /\ Len(str) = IF m <= Len(text) THEN Len(text) - m + 1 ELSE 0
          /\ \A i \in 1..(Len(text) - m + 1) : str[i] = text[m + i - 1]
      BY <1>1, <3>1, <3>4, <3>5, SeqPart
    <3>7. CASE 2 <= Len(str)
      <4>1. t = text[m + 1] /\ m + 1 \in 1..Len(text)
        BY <2>1, <3>1, <3>5, <3>6, <3>7 DEF At
      <4> QED
        BY <4>1, KnownAtof DEF Known
    <3>8. CASE ~ (2 <= Len(str))
      BY <2>1, <3>8 DEF At, Mark, Token
    <3> QED
      BY <3>7, <3>8
  <2>4. CASE t.number = 0
    <3>1. name = <<>>
      BY <2>1, <2>2, <2>4 DEF UrlName
    <3>2. v = Url(v.name) /\ v.name = <<>>
      BY <1>4, <2>2, <3>1 DEF Url
    <3> QED
      BY <1>2, <3>2, NoSeq DEF FineColor, IsName
  <2>5. CASE t.number # 0
    <3>1. PICK k : k = Min({t.number, 127})
      OBVIOUS
    <3>2. name = <<Name(t.kind, k)>>
      BY <2>1, <2>2, <2>5, <3>1 DEF UrlName
    <3>3. PICK e : e = Name(t.kind, k)
      OBVIOUS
    <3>4. name = <<e>> /\ name[1] = e /\ name # <<>> /\ e.number = k /\ e.kind = t.kind
      BY <3>2, <3>3 DEF Name, Token
    <3>5. NameLen(name) = k
      BY <3>4 DEF NameLen
    <3>6. v = Url(v.name) /\ v.name = name
      BY <1>4, <2>2 DEF Url
    <3>7. k \in Nat
      BY <1>2, <3>5, <3>6
    <3>8. k # 0 /\ k < 128
      <4>1. t.number < 0 => Min({t.number, 127}) = t.number
        <5>1. t.number < 0 =>
                 \A x \in {t.number, 127} :
                    (\A y \in {t.number, 127} : x <= y) <=> x = t.number
          BY <2>3
        <5> QED
          BY <5>1 DEF Min
      <4>2. t.number > 0 => {t.number, 127} \in SUBSET Nat
        BY <2>3
      <4>3. t.number > 0 => k \in {t.number, 127} /\ k <= 127
        BY <3>1, <4>2, MinIs
      <4> QED
        BY <2>3, <2>5, <3>1, <3>7, <4>1, <4>3
    <3>9. IsName(name)
      BY <3>4, <3>7, <3>8 DEF IsName
    <3>10. name = <<Name(name[1].kind, NameLen(name))>>
      BY <3>2, <3>4, <3>5
    <3> QED
      BY <1>2, <3>5, <3>6, <3>8, <3>9, <3>10 DEF FineColor
  <2> QED
    BY <2>4, <2>5
<1> QED
  BY <1>1, <1>2, <1>3, <1>4, ParseColorCases, UrlNameIs

(* Where the numbers of a view box are.                                    *)
ViewPlaces(text, p) ==
    p = [k \in 1..4 |->
            IF k = 1 THEN 1
            ELSE Skip(text, IF IsNum(At(text, p[k - 1])) THEN p[k - 1] + 1 ELSE p[k - 1],
                      Commas \union {"%"})]

(* The parser of view boxes reads a number at each of them.                *)
LEMMA ViewboxIs ==
    ASSUME NEW text
    PROVE  \E p : ViewPlaces(text, p) /\ ParseViewbox(text) = [k \in 1..4 |-> Atof(At(text, p[k]))]
<1> DEFINE past(i) == IF IsNum(At(text, i)) THEN i + 1 ELSE i
           marks == Commas \union {"%"}
           IsPlace(g) == g = [k \in 1..4 |-> IF k = 1 THEN 1 ELSE Skip(text, past(g[k - 1]), marks)]
           place == CHOOSE g : IsPlace(g)
<1>1. ParseViewbox(text) = [k \in 1..4 |-> Atof(At(text, place[k]))]
  BY DEF ParseViewbox
<1>2. \E g : IsPlace(g)
  <2>1. PICK a, b, c : a = Skip(text, past(1), marks) /\ b = Skip(text, past(a), marks)
                       /\ c = Skip(text, past(b), marks)
    OBVIOUS
  <2>2. PICK g : g = <<1, a, b, c>>
    OBVIOUS
  <2>3. g = [k \in 1..4 |-> g[k]] /\ g[1] = 1 /\ g[2] = a /\ g[3] = b /\ g[4] = c
    BY <2>2
  <2> HIDE DEF past, marks
  <2>4. ASSUME NEW k \in 1..4 PROVE g[k] = IF k = 1 THEN 1 ELSE Skip(text, past(g[k - 1]), marks)
    <3>1. k = 1 \/ (k = 2 /\ k - 1 = 1) \/ (k = 3 /\ k - 1 = 2) \/ (k = 4 /\ k - 1 = 3)
      OBVIOUS
    <3> QED
      BY <2>1, <2>3, <3>1
  <2>5. IsPlace(g)
    BY <2>3, <2>4
  <2> HIDE DEF IsPlace
  <2> QED
    BY <2>5
<1>3. IsPlace(place)
  <2> HIDE DEF IsPlace
  <2> QED
    BY <1>2
<1> HIDE DEF place
<1>4. ViewPlaces(text, place)
  BY <1>3 DEF ViewPlaces
<1> QED
  BY <1>1, <1>4

(* What is behind the text is passed over as well.                         *)
LEMMA SkipNat ==
    ASSUME NEW text, Len(text) \in Nat, NEW i \in Nat, i > 0, NEW kinds
    PROVE  Skip(text, i, kinds) \in Nat /\ Skip(text, i, kinds) > 0
<1> DEFINE U == {j \in i..Len(text) : text[j].kind \notin kinds} \union {Len(text) + 1}
<1>1. U # {} /\ U \in SUBSET Nat /\ \A j \in U : j > 0
  OBVIOUS
<1>2. Skip(text, i, kinds) = Min(U)
  BY DEF Skip
<1> HIDE DEF U
<1> QED
  BY <1>1, <1>2, MinIs

(* So it makes four floats,                                                *)
LEMMA ViewboxParsed ==
    ASSUME NEW text, Known(text)
    PROVE  ParseViewbox(text) \in [1..4 -> Floats]
<1>1. PICK p : ViewPlaces(text, p) /\ ParseViewbox(text) = [k \in 1..4 |-> Atof(At(text, p[k]))]
  BY ViewboxIs
<1>2. Len(text) \in Nat
  BY SeqDomain DEF Known
<1>3. ASSUME NEW k \in 1..4, k = 1 \/ (p[k - 1] \in Nat /\ p[k - 1] > 0)
      PROVE  p[k] \in Nat /\ p[k] > 0
  <2>1. PICK i : i = IF IsNum(At(text, p[k - 1])) THEN p[k - 1] + 1 ELSE p[k - 1]
    OBVIOUS
  <2>2. p[k] = IF k = 1 THEN 1 ELSE Skip(text, i, Commas \union {"%"})
    BY <1>1, <2>1 DEF ViewPlaces
  <2>3. k # 1 => i \in Nat /\ i > 0
    BY <1>3, <2>1
  <2> QED
    BY <1>2, <2>2, <2>3, SkipNat
<1>4. p[1] \in Nat /\ p[1] > 0
  BY <1>3
<1>5. p[2] \in Nat /\ p[2] > 0
  BY <1>3, <1>4
<1>6. p[3] \in Nat /\ p[3] > 0
  BY <1>3, <1>5
<1>7. p[4] \in Nat /\ p[4] > 0
  BY <1>3, <1>6
<1>8. \A k \in 1..4 : p[k] \in Nat /\ p[k] > 0
  BY <1>4, <1>5, <1>6, <1>7
<1>9. \A k \in 1..4 : Atof(At(text, p[k])) \in Floats
  BY <1>8, KnownAt, KnownAtof
<1> QED
  BY <1>1, <1>9

-----------------------------------------------------------------------------
(* What is selected of a text is of the same tokens.                       *)
LEMMA SelectedType ==
    ASSUME NEW text, NEW S, text \in Seq(S), NEW places
    PROVE  Selected(text, places) \in Seq(S)
<1>1. PICK q : q = [i \in 1..Len(text) |-> IF i \in places THEN <<text[i]>> ELSE <<>>]
  OBVIOUS
<1>2. PICK n : n = Len(text)
  OBVIOUS
<1>3. n \in Nat /\ DOMAIN text = 1..n /\ \A i \in 1..n : text[i] \in S
  BY <1>2
<1>4. \A i \in 1..n : q[i] = IF i \in places THEN <<text[i]>> ELSE <<>>
  BY <1>1, <1>2
<1>5. q = [i \in 1..n |-> q[i]]
  BY <1>1, <1>2
<1>6. IsSeq(q) /\ Len(q) = n
  BY <1>3, <1>5, SeqMade
<1>7. \A i \in 1..n : IsSeq(q[i]) /\ q[i] \in Seq(S)
  <2> TAKE i \in 1..n
  <2>1. CASE i \in places
    <3>1. <<text[i]>> \in Seq(S)
      BY <1>3
    <3> QED
      BY <1>4, <2>1, <3>1, OneSeq
  <2>2. CASE i \notin places
    <3>1. <<>> \in Seq(S)
      OBVIOUS
    <3> QED
      BY <1>4, <2>2, <3>1, EmptyIsSeq
  <2> QED
    BY <2>1, <2>2
<1>8. Selected(text, places) = FlattenSeq(q)
  BY <1>1, <1>2, <1>3 DEF Selected
<1>9. PICK f : Joins(f, q, n) /\ \A k \in 0..n : IsSeq(f[k])
  BY <1>3, <1>7, JoinsExist
<1>10. FlattenSeq(q) = f[n]
  BY <1>6, <1>7, <1>9, FlattenAll
<1> DEFINE V == Seq(S)
<1>11. PICK T : T = {k \in 0..n : f[k] \in V}
  OBVIOUS
<1>12. 0 \in T
  <2>1. <<>> \in V /\ f[0] = <<>>
    BY <1>9 DEF Joins
  <2> HIDE DEF V
  <2> QED
    BY <1>3, <1>11, <2>1
<1>13. ASSUME NEW k \in 1..n, k - 1 \in T PROVE k \in T
  <2>1. PICK x, y : x = f[k - 1] /\ y = q[k]
    OBVIOUS
  <2>2. x \in V /\ y \in V
    <3>1. \A i \in 1..n : q[i] \in V
      BY <1>7
    <3> HIDE DEF V
    <3> QED
      BY <1>11, <1>13, <2>1, <3>1
  <2>3. x \o y \in Seq(S)
    BY <2>2
  <2>4. f[k] = x \o y
    BY <1>9, <2>1 DEF Joins
  <2>5. f[k] \in V
    BY <2>3, <2>4
  <2> HIDE DEF V
  <2> QED
    BY <1>3, <1>11, <2>5
<1> HIDE DEF V
<1>14. 0..n \subseteq T
  BY <1>3, <1>12, <1>13, Upwards
<1>15. n \in 0..n
  BY <1>3
<1>16. f[n] \in V
  BY <1>11, <1>14, <1>15
<1> QED
  BY <1>8, <1>10, <1>16 DEF V

(* So it is known when the text is.                                        *)
LEMMA SelectedKnown ==
    ASSUME NEW text, Known(text), NEW places
    PROVE  Known(Selected(text, places))
<1>1. PICK s : s = Selected(text, places)
  OBVIOUS
<1>2. text \in Seq(Range(text)) /\ DOMAIN text = 1..Len(text)
  BY SeqDomain DEF Known, IsSeq
<1>3. s \in Seq(Range(text))
  BY <1>1, <1>2, SelectedType
<1>4. IsSeq(s) /\ \A i \in 1..Len(s) : s[i] \in Range(text)
  BY <1>3, SeqOfAny
<1>5. \A t \in Range(text) : KnownToken(t)
  BY <1>2 DEF Known, Range
<1> QED
  BY <1>1, <1>4, <1>5 DEF Known

(* A sequence of which each element is in a set.                           *)
LEMMA SeqIn ==
    ASSUME NEW s, IsSeq(s), NEW S, \A i \in 1..Len(s) : s[i] \in S
    PROVE  s \in Seq(S)
<1>1. PICK n : n = Len(s)
  OBVIOUS
<1>2. n \in Nat /\ s = [i \in 1..n |-> s[i]]
  BY <1>1, SeqDomain
<1>3. s \in [1..n -> S]
  BY <1>1, <1>2
<1> QED
  BY <1>2, <1>3

(* The tokens of a known text as floats.                                   *)
LEMMA AtofSeq ==
    ASSUME NEW s, Known(s)
    PROVE  /\ [i \in DOMAIN s |-> Atof(s[i])] \in Seq(Floats)
           /\ Len([i \in DOMAIN s |-> Atof(s[i])]) = Len(s)
<1>1. PICK v : v = [i \in DOMAIN s |-> Atof(s[i])]
  OBVIOUS
<1>2. Len(s) \in Nat /\ DOMAIN s = 1..Len(s)
  BY SeqDomain DEF Known
<1>3. v = [i \in 1..Len(s) |-> v[i]]
  BY <1>1, <1>2
<1>4. IsSeq(v) /\ Len(v) = Len(s)
  BY <1>2, <1>3, SeqMade
<1>5. \A i \in 1..Len(v) : v[i] \in Floats
  BY <1>1, <1>2, <1>4, KnownAtof DEF Known
<1> QED
  BY <1>1, <1>4, <1>5, SeqIn

(* and the parser of points a sequence of them.                            *)
LEMMA PointsParsed ==
    ASSUME NEW text, Known(text) PROVE ParsePoints(text) \in Seq(Floats)
<1>1. Known(PathItems(text))
  BY SelectedKnown DEF PathItems
<1>2. ParsePoints(text) = [i \in DOMAIN PathItems(text) |-> Atof(PathItems(text)[i])]
  BY DEF ParsePoints
<1> QED
  BY <1>1, <1>2, AtofSeq

-----------------------------------------------------------------------------
(* The items of a list: where each begins, and where it ends.              *)
ItemFrom(text, i) == Skip(text, i, Commas)
ItemTo(text, i) == Find(text, ItemFrom(text, i), Commas)

ItemSet(text) ==
    {SubSeq(text, j, j + d - 1) : j \in 1..Len(text), d \in 1..Len(text)}

ItemsFrom(text, g) ==
    g = [i \in 1..(Len(text) + 1) |->
            IF ItemFrom(text, i) > Len(text) THEN <<>>
            ELSE <<SubSeq(text, ItemFrom(text, i), ItemTo(text, i) - 1)>> \o g[ItemTo(text, i)]]

(* An item is not empty, and within the text.                              *)
LEMMA ItemWithin ==
    ASSUME NEW text, IsSeq(text), NEW i \in 1..(Len(text) + 1)
    PROVE  \/ ItemFrom(text, i) = Len(text) + 1
           \/ /\ ItemFrom(text, i) \in i..Len(text)
              /\ ItemTo(text, i) \in (ItemFrom(text, i) + 1)..(Len(text) + 1)
<1>1. Len(text) \in Nat
  BY SeqDomain
<1>2. PICK j, k : j = ItemFrom(text, i) /\ k = ItemTo(text, i)
  OBVIOUS
<1>3. IsSkip(text, i, Commas, j)
  BY <1>2, FindIs DEF ItemFrom
<1>4. j \in i..(Len(text) + 1) /\ (j <= Len(text) => text[j].kind \notin Commas)
  BY <1>3 DEF IsSkip
<1>5. j \in 1..(Len(text) + 1)
  BY <1>1, <1>4
<1>6. IsFind(text, j, Commas, k)
  BY <1>2, <1>5, FindIs DEF ItemTo
<1>7. k \in j..(Len(text) + 1) /\ (k <= Len(text) => text[k].kind \in Commas)
  BY <1>6 DEF IsFind
<1>8. j <= Len(text) => k # j
  BY <1>4, <1>7
<1>9. j = Len(text) + 1 \/ (j \in i..Len(text) /\ k \in (j + 1)..(Len(text) + 1))
  BY <1>1, <1>4, <1>7, <1>8
<1> QED
  BY <1>2, <1>9

(* Items yields the list of them.                                          *)
LEMMA ItemsAre ==
    ASSUME NEW text, IsSeq(text)
    PROVE  \E g : /\ ItemsFrom(text, g)
                  /\ Items(text) = g[1]
                  /\ \A i \in 1..(Len(text) + 1) : g[i] \in Seq(ItemSet(text))
<1> DEFINE IsItems(g) ==
             g = [i \in 1..(Len(text) + 1) |->
                    LET from == Skip(text, i, Commas)
                        to   == Find(text, from, Commas)
                    IN  IF from > Len(text) THEN <<>>
                        ELSE <<SubSeq(text, from, to - 1)>> \o g[to]]
           items == CHOOSE g : IsItems(g)
<1>1. Items(text) = items[1]
  BY DEF Items
<1>2. \A g : IsItems(g) <=> ItemsFrom(text, g)
  BY DEF ItemsFrom, ItemFrom, ItemTo
<1> HIDE DEF IsItems
<1>3. PICK n : n = Len(text) + 1
  OBVIOUS
<1>4. n \in Nat /\ n > 0 /\ Len(text) \in Nat /\ n - 1 = Len(text)
  BY <1>3, SeqDomain
<1>5. PICK stop, piece, next :
         /\ stop = {i \in 1..n : ItemFrom(text, i) > Len(text)}
         /\ piece = [i \in 1..n |-> IF i \in stop THEN <<>>
                       ELSE <<SubSeq(text, ItemFrom(text, i), ItemTo(text, i) - 1)>>]
         /\ next = [i \in 1..n |-> ItemTo(text, i)]
  OBVIOUS
<1>6. IsPieces(n, stop, piece, next, ItemSet(text))
  <2>1. ASSUME NEW i \in 1..n
        PROVE  piece[i] \in Seq(ItemSet(text)) /\ (i \in stop \/ next[i] \in (i + 1)..n)
    <3>1. CASE i \in stop
      <4>1. <<>> \in Seq(ItemSet(text))
        OBVIOUS
      <4> QED
        BY <1>5, <3>1, <4>1
    <3>2. CASE i \notin stop
      <4>1. PICK j, k : j = ItemFrom(text, i) /\ k = ItemTo(text, i)
        OBVIOUS
      <4>2. ~ (j > Len(text))
        BY <1>5, <3>2, <4>1
      <4>3. i \in 1..(Len(text) + 1)
        BY <1>3
      <4>4. j = Len(text) + 1 \/ (j \in i..Len(text) /\ k \in (j + 1)..(Len(text) + 1))
        BY <4>1, <4>3, ItemWithin
      <4>5. j \in i..Len(text) /\ k \in (j + 1)..(Len(text) + 1)
        BY <1>4, <4>2, <4>4
      <4>6. PICK u : u = SubSeq(text, j, k - 1)
        OBVIOUS
      <4>7. j \in 1..Len(text) /\ k - j \in 1..Len(text) /\ k \in (i + 1)..n
        BY <1>3, <1>4, <4>5
      <4>8. u \in ItemSet(text)
        <5>1. PICK d : d = k - j
          OBVIOUS
        <5>2. j + d - 1 = k - 1 /\ d \in 1..Len(text)
          BY <1>4, <4>5, <4>7, <5>1
        <5>3. u = SubSeq(text, j, j + d - 1)
          BY <4>6, <5>2
        <5> QED
          BY <4>7, <5>2, <5>3 DEF ItemSet
      <4>9. <<u>> \in Seq(ItemSet(text))
        BY <4>8
      <4>10. piece[i] = <<u>> /\ next[i] = k
        BY <1>5, <3>2, <4>1, <4>6
      <4> QED
        BY <4>7, <4>9, <4>10
    <3> QED
      BY <3>1, <3>2
  <2> QED
    BY <1>4, <2>1 DEF IsPieces
<1>7. ASSUME NEW g PROVE Pieced(g, n, stop, piece, next) <=> ItemsFrom(text, g)
  <2>1. \A i \in 1..n : i \in stop <=> ItemFrom(text, i) > Len(text)
    BY <1>5
  <2>2. [i \in 1..n |-> IF i \in stop THEN piece[i] ELSE piece[i] \o g[next[i]]]
        = [i \in 1..n |->
            IF ItemFrom(text, i) > Len(text) THEN <<>>
            ELSE <<SubSeq(text, ItemFrom(text, i), ItemTo(text, i) - 1)>> \o g[ItemTo(text, i)]]
    BY <1>5, <2>1
  <2> QED
    BY <1>3, <2>2 DEF Pieced, ItemsFrom
<1>8. \E g : IsItems(g)
  <2>1. PICK g : Pieced(g, n, stop, piece, next)
    BY <1>6, PiecesExist
  <2> QED
    BY <1>2, <1>7, <2>1
<1>9. IsItems(items)
  BY <1>8
<1> HIDE DEF items
<1>10. ItemsFrom(text, items) /\ Pieced(items, n, stop, piece, next)
  BY <1>2, <1>7, <1>9
<1>11. \A i \in 1..n : items[i] \in Seq(ItemSet(text))
  BY <1>6, <1>10, PiecesType
<1> QED
  BY <1>1, <1>3, <1>10, <1>11

(* A part of a known text.                                                 *)
LEMMA PartKnown ==
    ASSUME NEW text, Known(text), NEW u \in ItemSet(text)
    PROVE  KnownToken(u[1])
<1>1. PICK j \in 1..Len(text), d \in 1..Len(text) : u = SubSeq(text, j, j + d - 1)
  BY DEF ItemSet
<1>2. Len(text) \in Nat /\ IsSeq(text)
  BY SeqDomain DEF Known
<1>3. PICK m : m = j + d - 1
  OBVIOUS
<1>4. j \in Int /\ m \in Int
  BY <1>2, <1>3
<1>8. j <= m
  BY <1>2, <1>3
<1>5. /\ Len(u) = IF j <= m THEN m - j + 1 ELSE 0
      /\ \A i \in 1..(m - j + 1) : u[i] = text[j + i - 1]
  BY <1>1, <1>3, <1>4, SeqPart
<1>6. 1 \in 1..(m - j + 1) /\ j + 1 - 1 = j
  BY <1>4, <1>8
<1>7. u[1] = text[j]
  BY <1>5, <1>6
<1> QED
  BY <1>7 DEF Known

(* A number there is no token for is zero.                                 *)
LEMMA ZeroFloat == 0 \in Floats /\ Float(0) = 0 /\ Shown(0) = 0
<1>1. Float(0) = 0
  <2>1. 0 \in Int /\ Abs(0) <= 1000000000
    BY DEF Abs
  <2>2. PICK u : u = Unit(0)
    OBVIOUS
  <2>3. u \in {1, 2, 4, 8, 16, 32, 64}
    BY <2>1, <2>2, UnitIs
  <2>4. RoundTo(0, u) = 0
    BY <2>3 DEF RoundTo, Abs
  <2> QED
    BY <2>2, <2>4 DEF Float
<1>2. Abs(0) <= 1000000000
  BY DEF Abs
<1>3. Shown(0) = 0
  BY DEF Shown, RoundTo, Abs
<1> QED
  BY <1>1, <1>2, <1>3 DEF Floats

(* A list of dashes.                                                       *)
LEMMA DashesParsed ==
    ASSUME NEW text, Known(text) PROVE FineDashes(ParseDasharray(text))
<1>1. PICK items : items = Items(text)
  OBVIOUS
<1>2. IsSeq(text) /\ Len(text) \in Nat
  BY SeqDomain DEF Known
<1>3. items \in Seq(ItemSet(text))
  <2>1. 1 \in 1..(Len(text) + 1)
    BY <1>2
  <2> QED
    BY <1>1, <1>2, <2>1, ItemsAre
<1>4. PICK n : n = Min({Len(items), MaxDashes})
  OBVIOUS
<1>5. n \in Nat /\ n <= Len(items) /\ n <= MaxDashes
  <2>1. {Len(items), MaxDashes} \in SUBSET Nat
    BY <1>3 DEF MaxDashes
  <2> QED
    BY <1>4, <2>1, MinIs
<1>6. PICK dashes : dashes = [i \in 1..n |-> Abs(Atof(items[i][1]))]
  OBVIOUS
<1>7. ASSUME NEW i \in 1..n PROVE dashes[i] \in Floats \intersect Nat
  <2>1. items[i] \in ItemSet(text)
    BY <1>3, <1>5
  <2>2. KnownToken(items[i][1])
    BY <2>1, PartKnown
  <2> QED
    BY <1>6, <2>2, KnownAtof
<1>8. dashes = [i \in 1..n |-> dashes[i]] /\ DOMAIN dashes = 1..n
  BY <1>6
<1>9. IsSeq(dashes) /\ Len(dashes) = n
  BY <1>5, <1>8, SeqMade
<1>10. dashes \in Seq(Floats \intersect Nat)
  BY <1>7, <1>9, SeqIn
<1>11. ParseDasharray(text) = IF At(text, 1).kind = "none" \/ \A i \in 1..n : dashes[i] = 0
                              THEN <<>> ELSE dashes
  BY <1>1, <1>4, <1>6, <1>8 DEF ParseDasharray
<1>12. FineDashes(<<>>)
  <2>1. <<>> \in Seq(Floats \intersect Nat) /\ Len(<<>>) = 0
    OBVIOUS
  <2> QED
    BY <2>1 DEF FineDashes, MaxDashes
<1>13. ASSUME ~ \A i \in 1..n : dashes[i] = 0 PROVE FineDashes(dashes)
  BY <1>5, <1>9, <1>10, <1>13 DEF FineDashes
<1> QED
  BY <1>11, <1>12, <1>13

-----------------------------------------------------------------------------
(* The functions of a transform.                                           *)
FunctionSet(text) == {Function(text, i) : i \in {j \in 1..Len(text) : Taken(text, j)}}

FunctionsFrom(text, g) ==
    g = [i \in 1..(Len(text) + 1) |->
            IF i > Len(text) THEN <<>>
            ELSE IF Taken(text, i) THEN <<Function(text, i)>> \o g[AfterFunction(text, i)]
            ELSE g[i + 1]]

(* Behind a function there is less of the text.                            *)
LEMMA FunctionWithin ==
    ASSUME NEW text, IsSeq(text), NEW i \in 1..Len(text), text[i].kind \in DOMAIN MaxArgs
    PROVE  AfterFunction(text, i) \in (i + 1)..(Len(text) + 1)
<1>1. Len(text) \in Nat /\ i \in 1..(Len(text) + 1) /\ i \in Nat
  BY SeqDomain
<1>2. PICK j, k : j = ArgsOpen(text, i) /\ k = ArgsClose(text, i)
  OBVIOUS
<1>3. IsFind(text, i, {"("}, j)
  BY <1>1, <1>2, FindIs DEF ArgsOpen
<1>4. j \in i..(Len(text) + 1) /\ (j <= Len(text) => text[j].kind = "(")
  BY <1>3 DEF IsFind
<1>5. j \in 1..(Len(text) + 1)
  BY <1>1, <1>4
<1>6. IsFind(text, j, {")"}, k)
  BY <1>2, <1>5, FindIs DEF ArgsClose
<1>7. k \in j..(Len(text) + 1)
  BY <1>6 DEF IsFind
<1>8. "(" \notin DOMAIN MaxArgs
  BY DEF MaxArgs
<1>9. j # i
  BY <1>1, <1>4, <1>8
<1>10. AfterFunction(text, i) = IF k > Len(text) THEN i + 1 ELSE k
  BY <1>2 DEF AfterFunction
<1> QED
  BY <1>1, <1>4, <1>7, <1>9, <1>10

(* TransformList yields the list of them.                                  *)
LEMMA FunctionsAre ==
    ASSUME NEW text, IsSeq(text)
    PROVE  \E g : /\ FunctionsFrom(text, g)
                  /\ TransformList(text) = g[1]
                  /\ \A i \in 1..(Len(text) + 1) : g[i] \in Seq(FunctionSet(text))
<1> DEFINE list == CHOOSE g : FunctionsFrom(text, g)
<1>1. TransformList(text) = list[1]
  BY DEF TransformList, FunctionsFrom
<1>2. PICK n : n = Len(text) + 1
  OBVIOUS
<1>3. n \in Nat /\ n > 0 /\ Len(text) \in Nat /\ n - 1 = Len(text)
  BY <1>2, SeqDomain
<1>5. PICK stop, piece, next :
         /\ stop = {n}
         /\ piece = [i \in 1..n |-> IF i # n /\ Taken(text, i) THEN <<Function(text, i)>> ELSE <<>>]
         /\ next = [i \in 1..n |-> IF Taken(text, i) THEN AfterFunction(text, i) ELSE i + 1]
  OBVIOUS
<1> DEFINE S == FunctionSet(text)
           V == Seq(S)
<1>6. <<>> \in V /\ \A i \in 1..n : i # n /\ Taken(text, i) => <<Function(text, i)>> \in V
  <2>1. \A i \in 1..n : i # n /\ Taken(text, i) => Function(text, i) \in S
    BY <1>2, <1>3 DEF FunctionSet
  <2> HIDE DEF S
  <2> QED
    BY <2>1
<1>7. \A u, v \in V : u \o v \in V
  OBVIOUS
<1>8. IsPieces(n, stop, piece, next, S)
  <2>1. ASSUME NEW i \in 1..n
        PROVE  piece[i] \in V /\ (i \in stop \/ next[i] \in (i + 1)..n)
    <3>1. piece[i] \in V
      <4> HIDE DEF V
      <4> QED
        BY <1>5, <1>6
    <3>2. CASE i # n
      <4>1. i \in 1..Len(text) /\ i + 1 \in (i + 1)..n
        BY <1>2, <1>3, <3>2
      <4>2. Taken(text, i) => AfterFunction(text, i) \in (i + 1)..n
        BY <1>2, <4>1, FunctionWithin DEF Taken
      <4> QED
        BY <1>5, <3>1, <4>1, <4>2
    <3> QED
      BY <1>5, <3>1, <3>2
  <2> QED
    BY <1>3, <2>1 DEF IsPieces
<1> HIDE DEF S, V
<1>9. \E g : FunctionsFrom(text, g)
  <2>1. PICK g : Pieced(g, n, stop, piece, next)
    BY <1>8, PiecesExist
  <2>2. \A i \in 1..n : g[i] \in V
    BY <1>8, <2>1, PiecesType DEF V
  <2>3. \A i \in 1..n : g[i] = IF i > Len(text) THEN <<>>
            ELSE IF Taken(text, i) THEN <<Function(text, i)>> \o g[AfterFunction(text, i)]
            ELSE g[i + 1]
    <3> TAKE i \in 1..n
    <3>1. g[i] = IF i \in stop THEN piece[i] ELSE piece[i] \o g[next[i]]
      BY <2>1 DEF Pieced
    <3>2. CASE i = n
      <4>1. i > Len(text) /\ i \in stop /\ piece[i] = <<>>
        BY <1>2, <1>3, <1>5, <3>2
      <4> QED
        BY <3>1, <4>1
    <3>3. CASE i # n /\ Taken(text, i)
      <4>1. ~ (i > Len(text)) /\ i \notin stop
        BY <1>2, <1>3, <1>5, <3>3
      <4>2. piece[i] = <<Function(text, i)>> /\ next[i] = AfterFunction(text, i)
        BY <1>5, <3>3
      <4> QED
        BY <3>1, <3>3, <4>1, <4>2
    <3>4. CASE i # n /\ ~Taken(text, i)
      <4>1. ~ (i > Len(text)) /\ i \notin stop /\ i + 1 \in 1..n
        BY <1>2, <1>3, <1>5, <3>4
      <4>2. piece[i] = <<>> /\ next[i] = i + 1
        BY <1>5, <3>4
      <4>3. IsSeq(g[i + 1])
        BY <2>2, <4>1, SeqOfAny DEF V
      <4>4. <<>> \o g[i + 1] = g[i + 1]
        BY <4>3, NoneJoined
      <4> QED
        BY <3>1, <3>4, <4>1, <4>2, <4>4
    <3> QED
      BY <3>2, <3>3, <3>4
  <2>4. g = [i \in 1..n |-> g[i]]
    BY <2>1 DEF Pieced
  <2>5. g = [i \in 1..n |-> IF i > Len(text) THEN <<>>
            ELSE IF Taken(text, i) THEN <<Function(text, i)>> \o g[AfterFunction(text, i)]
            ELSE g[i + 1]]
    BY ONLY <2>3, <2>4
  <2>6. FunctionsFrom(text, g)
    BY <1>2, <2>5 DEF FunctionsFrom
  <2> QED
    BY <2>6
<1>11. FunctionsFrom(text, list)
  BY <1>9
<1> HIDE DEF list
<1>12. PICK T : T = {i \in 1..n : list[i] \in V}
  OBVIOUS
<1>13. ASSUME NEW i \in 1..n, \A j \in (i + 1)..n : j \in T
       PROVE  i \in T
  <2>1. list[i] = IF i > Len(text) THEN <<>>
            ELSE IF Taken(text, i) THEN <<Function(text, i)>> \o list[AfterFunction(text, i)]
            ELSE list[i + 1]
    BY <1>2, <1>11 DEF FunctionsFrom
  <2>2. CASE i = n
    <3>1. i > Len(text)
      BY <1>2, <1>3, <2>2
    <3> QED
      BY <1>6, <1>12, <2>1, <3>1
  <2>3. CASE i # n /\ Taken(text, i)
    <3>1. ~ (i > Len(text)) /\ i \in 1..Len(text)
      BY <1>2, <1>3, <2>3
    <3>2. AfterFunction(text, i) \in (i + 1)..n
      BY <1>2, <2>3, <3>1, FunctionWithin DEF Taken
    <3>3. list[AfterFunction(text, i)] \in V /\ <<Function(text, i)>> \in V
      BY <1>6, <1>12, <1>13, <2>3, <3>2
    <3> QED
      BY <1>7, <1>12, <2>1, <2>3, <3>1, <3>3
  <2>4. CASE i # n /\ ~Taken(text, i)
    <3>1. ~ (i > Len(text)) /\ i + 1 \in (i + 1)..n
      BY <1>2, <1>3, <2>4
    <3>2. list[i + 1] \in V
      BY <1>12, <1>13, <3>1
    <3> QED
      BY <1>12, <2>1, <2>4, <3>1, <3>2
  <2> QED
    BY <2>2, <2>3, <2>4
<1>14. 1..n \subseteq T
  BY <1>3, <1>13, Downwards
<1>15. \A i \in 1..n : list[i] \in Seq(FunctionSet(text))
  BY <1>12, <1>14 DEF V, S
<1> QED
  BY <1>1, <1>2, <1>11, <1>15

(* A function that is taken has as many arguments as it may have.          *)
LEMMA FunctionFine ==
    ASSUME NEW text, Known(text), NEW f \in FunctionSet(text)
    PROVE  /\ f.type \in DOMAIN MaxArgs
           /\ f.args \in Seq(Floats)
           /\ Len(f.args) <= MaxArgs[f.type]
<1>1. PICK i \in 1..Len(text) : Taken(text, i) /\ f = Function(text, i)
  BY DEF FunctionSet
<1>2. PICK s : s = ArgTokens(text, i)
  OBVIOUS
<1>3. Known(<<>>)
  BY EmptyIsSeq DEF Known
<1>4. Known(s)
  BY <1>2, <1>3, SelectedKnown DEF ArgTokens
<1>5. PICK v : v = [k \in DOMAIN s |-> Atof(s[k])]
  OBVIOUS
<1>6. v \in Seq(Floats) /\ Len(v) = Len(s)
  BY <1>4, <1>5, AtofSeq
<1>7. f.type = text[i].kind /\ f.args = v
  BY <1>1, <1>2, <1>5 DEF Function
<1>8. text[i].kind \in DOMAIN MaxArgs /\ Len(s) <= MaxArgs[text[i].kind]
  BY <1>1, <1>2 DEF Taken
<1> QED
  BY <1>6, <1>7, <1>8

(* Nothing multiplied is nothing.                                          *)
LEMMA ZeroProduct ==
    ASSUME NEW m \in [1..6 -> Int] PROVE Premultiply(Zero, m) = Zero
<1>1. \A i \in 1..6 : m[i] \in Int
  OBVIOUS
<1>2. PICK a, b, c, d, e, f : a = m[1] /\ b = m[2] /\ c = m[3] /\ d = m[4] /\ e = m[5] /\ f = m[6]
  OBVIOUS
<1>3. a \in Int /\ b \in Int /\ c \in Int /\ d \in Int /\ e \in Int /\ f \in Int
  BY <1>1, <1>2
<1>4. Multiply(m, Zero) = <<a * 0 + b * 0, a * 0 + b * 0, c * 0 + d * 0, c * 0 + d * 0,
                            e * 0 + f * 0 + 0, e * 0 + f * 0 + 0>>
  BY <1>2 DEF Multiply, Zero
<1>5. a * 0 = 0 /\ b * 0 = 0 /\ c * 0 = 0 /\ d * 0 = 0 /\ e * 0 = 0 /\ f * 0 = 0
  BY <1>3
<1>6. Multiply(m, Zero) = <<0, 0, 0, 0, 0, 0>>
  BY <1>4, <1>5
<1> QED
  BY <1>6 DEF Premultiply, Zero

(* The matrix of zeros has six floats.                                     *)
LEMMA ZeroIsFine == Zero \in Seq(Floats) /\ Len(Zero) = 6
<1>1. PICK z : z = 0
  OBVIOUS
<1>2. z \in Floats
  BY <1>1, ZeroFloat
<1>3. <<z, z, z, z, z, z>> \in Seq(Floats) /\ Len(<<z, z, z, z, z, z>>) = 6
  BY <1>2
<1> QED
  BY <1>1, <1>3 DEF Zero

(* A transform that is parsed: one function, or the matrix of nothing.     *)
LEMMA TransformParsed ==
    ASSUME NEW text, Known(text), TransformList(text) # <<>>,
           \A f \in Range(TransformList(text)) : MatrixOf(f) \in [1..6 -> Int]
    PROVE  FineTransform(ParseTransform(text))
<1>1. PICK list : list = TransformList(text)
  OBVIOUS
<1>2. IsSeq(text) /\ Len(text) \in Nat
  BY SeqDomain DEF Known
<1>3. list \in Seq(FunctionSet(text))
  <2>1. 1 \in 1..(Len(text) + 1)
    BY <1>2
  <2> QED
    BY <1>1, <1>2, <2>1, FunctionsAre
<1>4. PICK n : n = Len(list)
  OBVIOUS
<1>5. n \in Nat /\ DOMAIN list = 1..n /\ \A i \in 1..n : list[i] \in FunctionSet(text)
  BY <1>3, <1>4
<1>6. n # 0
  BY <1>1, <1>3, <1>4
<1>7. n \in 1..n /\ 1 \in 1..n
  BY <1>5, <1>6
<1>8. CASE n = 1
  <2>1. PICK f : f = list[1]
    OBVIOUS
  <2>2. f \in FunctionSet(text)
    BY <1>5, <1>7, <2>1
  <2>3. /\ f.type \in DOMAIN MaxArgs
        /\ f.args \in Seq(Floats)
        /\ Len(f.args) <= MaxArgs[f.type]
    BY <2>2, FunctionFine
  <2>4. PICK m : m = MatrixOf(f)
    OBVIOUS
  <2>5. f.type = "matrix" => m = IF Len(f.args) = 6 THEN f.args ELSE Zero
    BY <2>4 DEF MatrixOf, Matrix
  <2>6. f.type = "matrix" => m \in Seq(Floats) /\ Len(m) = 6
    BY <2>3, <2>5, ZeroIsFine
  <2>7. ParseTransform(text) = [type |-> f.type, args |-> f.args, xform |-> m]
    BY <1>1, <1>4, <1>8, <2>1, <2>4 DEF ParseTransform
  <2> QED
    BY <2>3, <2>6, <2>7 DEF FineTransform
<1>9. CASE n # 1
  <2>1. PICK m : m = MatrixOf(list[n])
    OBVIOUS
  <2>2. m \in [1..6 -> Int]
    <3>1. list[n] \in Range(list)
      BY <1>5, <1>7 DEF Range
    <3> QED
      BY <1>1, <2>1, <3>1
  <2>3. ParseTransform(text) = [type |-> "matrix", args |-> <<>>, xform |-> Premultiply(Zero, m)]
    BY <1>1, <1>4, <1>9, <2>1 DEF ParseTransform
  <2>4. Premultiply(Zero, m) = Zero
    BY <2>2, ZeroProduct
  <2>5. ParseTransform(text) = [type |-> "matrix", args |-> <<>>, xform |-> Zero]
    BY <2>3, <2>4
  <2>6. "matrix" \in DOMAIN MaxArgs
    BY DEF MaxArgs
  <2> QED
    BY <2>5, <2>6, ZeroIsFine DEF FineTransform
<1> QED
  BY <1>8, <1>9

-----------------------------------------------------------------------------
(* The operations that the parser of paths makes have the arguments that   *)
(* their commands have, and it never has more than that.                   *)
OpSet == {op \in [code : Letters, args : Seq(Floats)] : Len(op.args) = ArgCount(op.code)}

ScanSet ==
    {st \in [code : Codes, args : Seq(Floats), ops : Seq(OpSet), fault : BOOLEAN] :
        st.args = <<>> \/ Len(st.args) < ArgCount(st.code)}

(* These are operations that are fine.                                     *)
LEMMA OpSetFine ==
    ASSUME NEW op \in OpSet PROVE FineOp(op)
  BY DEF OpSet, FineOp, Op

(* No command has more than seven arguments, and only closing has none.    *)
LEMMA CountOf ==
    ASSUME NEW code \in Codes
    PROVE  /\ ArgCount(code) \in 0..7
           /\ ArgCount(code) = 0 <=> code \in {"none", "Z"}
  BY DEF Codes, Letters, ArgCount

(* Each item of a path leaves the parser in a state of the kind.           *)
LEMMA ItemScanned ==
    ASSUME NEW st \in ScanSet, NEW t, Atof(t) \in Floats
    PROVE  PathItem(st, t) \in ScanSet
<1>1. /\ st \in [code : Codes, args : Seq(Floats), ops : Seq(OpSet), fault : BOOLEAN]
      /\ st.code \in Codes /\ st.args \in Seq(Floats) /\ st.ops \in Seq(OpSet)
      /\ st.fault \in BOOLEAN
      /\ st.args = <<>> \/ Len(st.args) < ArgCount(st.code)
  BY DEF ScanSet
<1>2. st.args = <<>> => PathCommand(st, t.kind) \in ScanSet
  <2> DEFINE code == Opcode(t.kind)
             ops == IF code = "Z" THEN Append(st.ops, Op(code, <<>>)) ELSE st.ops
  <2>1. code \in Codes
    BY DEF Opcode, Codes, Letters
  <2> HIDE DEF code
  <2>2. ops \in Seq(OpSet)
    <3>1. code = "Z" => Op(code, <<>>) \in OpSet
      <4>1. <<>> \in Seq(Floats) /\ Len(<<>>) = 0
        OBVIOUS
      <4>2. ArgCount("Z") = 0 /\ "Z" \in Letters
        BY DEF ArgCount, Letters
      <4> QED
        BY <4>1, <4>2 DEF Op, OpSet
    <3> QED
      BY <1>1, <3>1, AppendProperties
  <2>3. PathCommand(st, t.kind) = [st EXCEPT !.code = code, !.ops = ops]
    BY DEF PathCommand, code
  <2> HIDE DEF ops
  <2> QED
    BY <1>1, <2>1, <2>2, <2>3 DEF ScanSet
<1>3. PathNumber(st, Atof(t)) \in ScanSet
  <2>1. PICK args, ops : args = Append(st.args, Atof(t)) /\ ops = Append(st.ops, Op(st.code, args))
    OBVIOUS
  <2>2. args \in Seq(Floats) /\ Len(args) = Len(st.args) + 1 /\ Len(st.args) \in Nat
    BY <1>1, <2>1, AppendProperties
  <2>3. ArgCount(st.code) \in 0..7 /\ (ArgCount(st.code) = 0 <=> st.code \in {"none", "Z"})
    BY <1>1, CountOf
  <2>4. CASE ArgCount(st.code) = 0
    <3>1. PathNumber(st, Atof(t)) = [st EXCEPT !.fault = TRUE]
      BY <2>4 DEF PathNumber
    <3> QED
      BY <1>1, <3>1 DEF ScanSet
  <2>5. CASE ArgCount(st.code) # 0 /\ ArgCount(st.code) = Len(args)
    <3>1. Op(st.code, args) \in OpSet
      <4>1. st.code \in Letters
        BY <1>1, <2>3, <2>5 DEF Codes
      <4> QED
        BY <2>2, <2>5, <4>1 DEF Op, OpSet
    <3>2. ops \in Seq(OpSet)
      BY <1>1, <2>1, <3>1, AppendProperties
    <3>3. PathNumber(st, Atof(t)) = [st EXCEPT !.args = <<>>, !.ops = ops]
      BY <2>1, <2>5 DEF PathNumber
    <3>4. <<>> \in Seq(Floats)
      OBVIOUS
    <3> QED
      BY <1>1, <3>2, <3>3, <3>4 DEF ScanSet
  <2>6. CASE ArgCount(st.code) # 0 /\ ArgCount(st.code) # Len(args)
    <3>1. PathNumber(st, Atof(t)) = [st EXCEPT !.args = args]
      BY <2>1, <2>6 DEF PathNumber
    <3>2. Len(args) < ArgCount(st.code)
      <4>1. st.args = <<>> => Len(st.args) = 0
        OBVIOUS
      <4> QED
        BY <1>1, <2>2, <2>3, <2>6, <4>1
    <3> QED
      BY <1>1, <2>2, <3>1, <3>2 DEF ScanSet
  <2> QED
    BY <2>4, <2>5, <2>6
<1> QED
  BY <1>2, <1>3 DEF PathItem

FirstScan == [code |-> "none", args |-> <<>>, ops |-> <<>>, fault |-> FALSE]

(* The states of the parser of paths as it takes one item after another.   *)
Scanned(g, items) ==
    /\ g[0] = FirstScan
    /\ \A k \in 1..Len(items) : g[k] = PathItem(g[k - 1], items[k])

(* They are there, and in each set that an item does not lead out of.      *)
LEMMA ScanPathIn ==
    ASSUME NEW text, IsSeq(text), NEW items, items = PathItems(text), NEW V, FirstScan \in V,
           \A k \in 1..Len(items) : \A st \in V : PathItem(st, items[k]) \in V
    PROVE  \E g : /\ Scanned(g, items)
                  /\ ScanPath(text) = g[Len(items)]
                  /\ \A k \in 0..Len(items) : g[k] \in V
<1> DEFINE n == Len(items)
           G == [k \in 1..n |-> [st \in V |-> PathItem(st, items[k])]]
           IsScan(g) ==
              g = [i \in 0..n |->
                     IF i = 0 THEN [code |-> "none", args |-> <<>>, ops |-> <<>>, fault |-> FALSE]
                     ELSE PathItem(g[i - 1], items[i])]
           scan == CHOOSE g : IsScan(g)
<1>1. n \in Nat
  BY PathItemsIsSeq, SeqDomain
<1>2. ScanPath(text) = scan[n]
  BY DEF ScanPath
<1>3. IsSteps(n, V, FirstScan, G)
  <2>1. \A k \in 1..n : \A st \in V : PathItem(st, items[k]) \in V
    OBVIOUS
  <2> HIDE DEF n
  <2>2. G \in [1..n -> [V -> V]]
    BY <2>1
  <2> HIDE DEF G
  <2> QED
    BY <1>1, <2>2 DEF IsSteps
<1>4. PICK f : Steps(f, n, V, FirstScan, G)
  <2> HIDE DEF n, G
  <2> QED
    BY <1>3, StepRecursion
<1>5. /\ f \in [0..n -> V] /\ f[0] = FirstScan
      /\ \A k \in 1..n : f[k] = PathItem(f[k - 1], items[k])
  <2>1. \A k \in 1..n : \A st \in V : G[k][st] = PathItem(st, items[k])
    OBVIOUS
  <2> HIDE DEF G
  <2> QED
    BY <1>4, <2>1 DEF Steps
<1>6. \A g : IsScan(g) <=>
         g = [i \in 0..n |-> IF i = 0 THEN FirstScan ELSE PathItem(g[i - 1], items[i])]
  BY DEF FirstScan
<1>7. \E g : IsScan(g)
  <2>1. \A i \in 0..n : f[i] = IF i = 0 THEN FirstScan ELSE PathItem(f[i - 1], items[i])
    BY <1>5
  <2>2. f = [i \in 0..n |-> f[i]]
    BY <1>5
  <2>3. f = [i \in 0..n |-> IF i = 0 THEN FirstScan ELSE PathItem(f[i - 1], items[i])]
    BY ONLY <2>1, <2>2
  <2> HIDE DEF IsScan
  <2> QED
    BY <1>6, <2>3
<1>8. IsScan(scan)
  <2> HIDE DEF IsScan
  <2> QED
    BY <1>7
<1> HIDE DEF scan, IsScan
<1>9. scan = [i \in 0..n |-> IF i = 0 THEN FirstScan ELSE PathItem(scan[i - 1], items[i])]
  BY <1>6, <1>8
<1>10. scan[0] = FirstScan /\ \A k \in 1..n : scan[k] = PathItem(scan[k - 1], items[k])
  BY <1>1, <1>9
<1>11. PICK T : T = {i \in 0..n : scan[i] \in V}
  OBVIOUS
<1>12. 0 \in T
  BY <1>1, <1>10, <1>11
<1>13. ASSUME NEW i \in 1..n, i - 1 \in T PROVE i \in T
  <2>1. scan[i - 1] \in V /\ scan[i] = PathItem(scan[i - 1], items[i])
    BY <1>10, <1>11, <1>13
  <2>2. scan[i] \in V
    BY <2>1
  <2> QED
    BY <1>11, <2>2
<1>14. 0..n \subseteq T
  <2> HIDE DEF n
  <2> QED
    BY <1>1, <1>12, <1>13, Upwards
<1>15. \A k \in 0..n : scan[k] \in V
  BY <1>11, <1>14
<1>16. Scanned(scan, items)
  BY <1>10 DEF Scanned
<1> QED
  BY <1>2, <1>15, <1>16

(* A path that is parsed.                                                  *)
LEMMA PathParsed ==
    ASSUME NEW text, Known(text) PROVE FinePath(ParsePath(text))
<1>1. PICK items : items = PathItems(text)
  OBVIOUS
<1>2. Known(items) /\ IsSeq(text)
  BY <1>1, SelectedKnown DEF PathItems, Known
<1>3. FirstScan \in ScanSet
  <2>1. <<>> \in Seq(Floats) /\ <<>> \in Seq(OpSet)
    OBVIOUS
  <2> QED
    BY <2>1 DEF FirstScan, ScanSet, Codes
<1>4. \A k \in 1..Len(items) : \A st \in ScanSet : PathItem(st, items[k]) \in ScanSet
  BY <1>2, KnownAtof, ItemScanned DEF Known
<1>5. PICK g : /\ ScanPath(text) = g[Len(items)]
               /\ \A k \in 0..Len(items) : g[k] \in ScanSet
  <2> PICK V : V = ScanSet
    OBVIOUS
  <2> QED
    BY <1>1, <1>2, <1>3, <1>4, ScanPathIn
<1>6. Len(items) \in 0..Len(items)
  <2>1. Len(items) \in Nat
    BY <1>2, SeqDomain DEF Known
  <2> QED
    BY <2>1
<1>7. ParsePath(text) \in Seq(OpSet)
  BY <1>5, <1>6 DEF ParsePath, ScanSet
<1>8. PICK v : v = ParsePath(text)
  OBVIOUS
<1>9. IsSeq(v) /\ \A i \in 1..Len(v) : v[i] \in OpSet
  BY <1>7, <1>8, SeqOfAny
<1> QED
  BY <1>8, <1>9, OpSetFine DEF FinePath

-----------------------------------------------------------------------------
(* What is read of a text of the source is such a value.                   *)
LEMMA ParsedFine ==
    ASSUME NEW a \in AttrNames, NEW text, IsSeq(text), TextKnown(a, text)
    PROVE  Fine(a, ParseText(a, text))
<1>1. Known(text)
  BY SeqDomain DEF TextKnown, Known, KnownToken
<1>2. AttrType(a) \in Types
  BY AttrTypes
<1>3. CASE AttrType(a) = "enum"
  BY <1>3, EnumParsed DEF ParseText, Fine
<1>4. CASE AttrType(a) = "id"
  BY <1>4 DEF ParseText, Fine, TextKnown
<1>5. CASE AttrType(a) = "length"
  BY <1>1, <1>5, LengthParsed DEF ParseText, Fine
<1>6. CASE AttrType(a) = "color"
  <2>1. NameLen(ParseColor(text).name) \in Nat
    BY <1>6 DEF TextKnown
  <2> QED
    BY <1>1, <1>6, <2>1, ColorParsed DEF ParseText, Fine
<1>7. CASE AttrType(a) = "transform"
  <2>1. /\ TransformList(text) # <<>>
        /\ \A f \in Range(TransformList(text)) : MatrixOf(f) \in [1..6 -> Int]
    BY <1>7 DEF TextKnown
  <2> QED
    BY <1>1, <1>7, <2>1, TransformParsed DEF ParseText, Fine
<1>8. CASE AttrType(a) = "dasharray"
  BY <1>1, <1>8, DashesParsed DEF ParseText, Fine
<1>9. CASE AttrType(a) = "float"
  BY <1>1, <1>9, LengthParsed DEF ParseText, Fine
<1>10. CASE AttrType(a) = "viewbox"
  BY <1>1, <1>10, ViewboxParsed DEF ParseText, Fine
<1>11. CASE AttrType(a) = "aspectratio"
  BY <1>11, AlignParsed DEF ParseText, Fine
<1>12. CASE AttrType(a) = "path"
  BY <1>1, <1>12, PathParsed DEF ParseText, Fine
<1>13. CASE AttrType(a) = "points"
  BY <1>1, <1>13, PointsParsed DEF ParseText, Fine
<1> QED
  BY <1>2, <1>3, <1>4, <1>5, <1>6, <1>7, <1>8, <1>9, <1>10, <1>11, <1>12, <1>13 DEF Types

-----------------------------------------------------------------------------
(* What is selected of a text, when the places are counted.                *)
Counts(c, places, n) ==
    /\ c[0] = 0
    /\ \A i \in 0..n : c[i] \in Nat
    /\ \A i \in 1..n : c[i] = c[i - 1] + (IF i \in places THEN 1 ELSE 0)

(* What is selected is the sequence that has each selected token at its    *)
(* count.                                                                  *)
LEMMA SelectedIs ==
    ASSUME NEW text, IsSeq(text), NEW places, NEW c, Counts(c, places, Len(text)),
           NEW v, IsSeq(v), Len(v) = c[Len(text)],
           \A i \in 1..Len(text) : i \in places => v[c[i]] = text[i]
    PROVE  Selected(text, places) = v
<1>1. PICK q : q = [i \in 1..Len(text) |-> IF i \in places THEN <<text[i]>> ELSE <<>>]
  OBVIOUS
<1>2. PICK n : n = Len(text)
  OBVIOUS
<1>3. n \in Nat /\ DOMAIN text = 1..n
  BY <1>2, SeqDomain
<1>4. \A i \in 1..n : q[i] = IF i \in places THEN <<text[i]>> ELSE <<>>
  BY <1>1, <1>2
<1>5. q = [i \in 1..n |-> q[i]]
  BY <1>1, <1>2
<1>6. IsSeq(q) /\ Len(q) = n
  BY <1>3, <1>5, SeqMade
<1>7. \A i \in 1..n : IsSeq(q[i])
  <2> TAKE i \in 1..n
  <2>1. IsSeq(<<text[i]>>) /\ IsSeq(<<>>)
    BY OneSeq, EmptyIsSeq
  <2>2. q[i] = <<text[i]>> \/ q[i] = <<>>
    BY <1>4
  <2> QED
    BY <2>1, <2>2
<1>8. Selected(text, places) = FlattenSeq(q)
  BY <1>1, <1>2, <1>3 DEF Selected
<1>9. PICK f : Joins(f, q, n) /\ \A k \in 0..n : IsSeq(f[k])
  BY <1>3, <1>7, JoinsExist
<1>10. FlattenSeq(q) = f[n]
  BY <1>6, <1>7, <1>9, FlattenAll
<1>11. PICK T : T = {k \in 0..n : Len(f[k]) = c[k] /\ \A x \in 1..c[k] : f[k][x] = v[x]}
  OBVIOUS
<1>12. 0 \in T
  <2>1. f[0] = <<>> /\ c[0] = 0
    BY <1>9 DEF Joins, Counts
  <2>2. Len(f[0]) = 0
    BY <2>1, EmptyIsSeq
  <2> QED
    BY <1>3, <1>11, <2>1, <2>2
<1>13. ASSUME NEW k \in 1..n, k - 1 \in T PROVE k \in T
  <2>1. PICK j, s, t : j = k - 1 /\ s = f[j] /\ t = q[k]
    OBVIOUS
  <2>2. f[k] = s \o t
    BY <1>9, <2>1 DEF Joins
  <2>3. j \in 0..n /\ k \in 0..n
    BY <1>3, <2>1
  <2>4. IsSeq(s) /\ IsSeq(t)
    BY <1>7, <1>9, <2>1, <2>3
  <2>5. Len(s) = c[j] /\ \A x \in 1..c[j] : s[x] = v[x]
    BY <1>11, <1>13, <2>1
  <2>6. c[j] \in Nat /\ c[k] \in Nat /\ c[k] = c[j] + (IF k \in places THEN 1 ELSE 0)
    BY <1>2, <2>1, <2>3 DEF Counts
  <2>7. CASE k \notin places
    <3>1. t = <<>>
      BY <1>4, <2>1, <2>7
    <3>2. f[k] = s
      BY <2>2, <2>4, <3>1, NoneJoined
    <3>3. c[k] = c[j]
      BY <2>6, <2>7
    <3> QED
      BY <1>11, <2>3, <2>5, <3>2, <3>3
  <2>8. CASE k \in places
    <3>1. t = <<text[k]>>
      BY <1>4, <2>1, <2>8
    <3>2. Len(t) = 1 /\ t[1] = text[k]
      BY <3>1, OneSeq
    <3>3. PICK u : u = f[k]
      OBVIOUS
    <3>4. JoinOf(u, s, t)
      BY <2>2, <2>4, <3>3, JoinIs
    <3>5. c[k] = c[j] + 1
      BY <2>6, <2>8
    <3>6. Len(u) = c[k]
      BY <2>5, <3>2, <3>4, <3>5 DEF JoinOf
    <3>7. v[c[k]] = text[k]
      BY <1>2, <2>8
    <3>8. u[c[j] + 1] = text[k]
      <4>1. 1 \in 1..Len(t)
        BY <3>2
      <4>2. u[Len(s) + 1] = t[1]
        BY <3>4, <4>1 DEF JoinOf
      <4> QED
        BY <2>5, <3>2, <4>2
    <3>9. ASSUME NEW x \in 1..c[k] PROVE u[x] = v[x]
      <4>1. x \in 1..c[j] \/ x = c[j] + 1
        BY <2>6, <3>5
      <4>2. x \in 1..c[j] => u[x] = s[x]
        BY <2>5, <3>4 DEF JoinOf
      <4> QED
        BY <2>5, <3>5, <3>7, <3>8, <4>1, <4>2
    <3> QED
      BY <1>11, <2>3, <3>3, <3>6, <3>9
  <2> QED
    BY <2>7, <2>8
<1>14. 0..n \subseteq T
  BY <1>3, <1>12, <1>13, Upwards
<1>15. n \in T
  BY <1>3, <1>14
<1>16. Len(f[n]) = Len(v) /\ \A x \in 1..Len(v) : f[n][x] = v[x]
  BY <1>2, <1>11, <1>15
<1>17. IsSeq(f[n])
  BY <1>3, <1>9
<1> QED
  BY <1>8, <1>10, <1>16, <1>17, SeqSame

(* The numbers of a list that is written.                                  *)
Shows(v) == [k \in 1..Len(v) |-> Num(Shown(v[k]))]

(* They are a sequence.                                                    *)
LEMMA ShowsIs ==
    ASSUME NEW v, IsSeq(v)
    PROVE  /\ IsSeq(Shows(v)) /\ Len(Shows(v)) = Len(v)
           /\ \A k \in 1..Len(v) : Shows(v)[k] = Num(Shown(v[k]))
<1>1. PICK s : s = Shows(v)
  OBVIOUS
<1>2. s = [k \in 1..Len(v) |-> s[k]] /\ \A k \in 1..Len(v) : s[k] = Num(Shown(v[k]))
  BY <1>1 DEF Shows
<1>3. Len(v) \in Nat
  BY SeqDomain
<1> QED
  BY <1>1, <1>2, <1>3, SeqMade

(* They are selected from it.                                              *)
LEMMA ListSelected ==
    ASSUME NEW v, IsSeq(v), NEW marks, NEW t, IsList(t, v, marks), NEW places,
           \A i \in 1..Len(t) : i \in places <=> i % 2 = 1
    PROVE  Selected(t, places) = Shows(v)
<1>1. PICK m, n : m = Len(v) /\ n = Len(t)
  OBVIOUS
<1>2. /\ m \in Nat /\ n \in Nat /\ IsSeq(t)
      /\ n = IF m = 0 THEN 0 ELSE 2 * m - 1
  BY <1>1, SeqDomain DEF IsList
<1>3. PICK c : c = [i \in 0..n |-> (i + 1) \div 2]
  OBVIOUS
<1>4. c[n] = m
  <2>1. n \in 0..n
    BY <1>2
  <2>2. (n + 1) \div 2 = m
    BY <1>2
  <2> QED
    BY <1>3, <2>1, <2>2
<1>5. Counts(c, places, n)
  <2>1. c[0] = 0 /\ \A i \in 0..n : c[i] \in Nat
    BY <1>2, <1>3
  <2>2. ASSUME NEW i \in 1..n PROVE c[i] = c[i - 1] + (IF i \in places THEN 1 ELSE 0)
    <3>1. i \in 0..n /\ i - 1 \in 0..n
      BY <1>2
    <3>2. c[i] = (i + 1) \div 2 /\ c[i - 1] = i \div 2
      BY <1>3, <3>1
    <3>3. (i + 1) \div 2 = i \div 2 + (IF i % 2 = 1 THEN 1 ELSE 0)
      BY <1>2
    <3> QED
      BY <1>1, <3>2, <3>3
  <2> QED
    BY <2>1, <2>2 DEF Counts
<1>6. ASSUME NEW i \in 1..n, i \in places PROVE Shows(v)[c[i]] = t[i]
  <2>1. i % 2 = 1
    BY <1>1, <1>6
  <2>2. PICK k : k = (i + 1) \div 2
    OBVIOUS
  <2>3. k \in 1..m /\ 2 * k - 1 = i /\ c[i] = k
    <3>1. i \in 0..n
      BY <1>2
    <3>2. c[i] = k
      BY <1>3, <2>2, <3>1
    <3> QED
      BY <1>2, <2>1, <2>2, <3>2
  <2>4. t[2 * k - 1] = Num(Shown(v[k]))
    BY <1>1, <2>3 DEF IsList
  <2>5. Shows(v)[k] = Num(Shown(v[k]))
    BY <1>1, <2>3, ShowsIs
  <2> QED
    BY <2>3, <2>4, <2>5
<1>7. IsSeq(Shows(v)) /\ Len(Shows(v)) = c[n]
  BY <1>1, <1>4, ShowsIs
<1>8. PICK w : w = Shows(v)
  OBVIOUS
<1>9. IsSeq(w) /\ Len(w) = c[Len(t)] /\ Counts(c, places, Len(t))
  BY <1>1, <1>5, <1>7, <1>8
<1>10. \A i \in 1..Len(t) : i \in places => w[c[i]] = t[i]
  BY <1>1, <1>6, <1>8
<1> QED
  BY <1>2, <1>8, <1>9, <1>10, SelectedIs

(* A number is read as a float.                                            *)
LEMMA NumIs ==
    ASSUME NEW x
    PROVE  /\ IsNum(Num(x)) /\ Num(x).kind = "number" /\ Num(x).number = x
           /\ Atof(Num(x)) = Float(x)
  BY DEF Atof, Num, Token, IsNum

(* As floats again they are shown as they were.                            *)
LEMMA ShownAgain ==
    ASSUME NEW v \in Seq(Floats)
    PROVE  LET w == [k \in DOMAIN Shows(v) |-> Atof(Shows(v)[k])]
           IN  /\ IsSeq(w) /\ Len(w) = Len(v)
               /\ \A k \in 1..Len(v) : Shown(w[k]) = Shown(v[k])
<1>1. PICK s, w : s = Shows(v) /\ w = [k \in DOMAIN s |-> Atof(s[k])]
  OBVIOUS
<1>2. IsSeq(v) /\ Len(v) \in Nat /\ \A k \in 1..Len(v) : v[k] \in Floats
  BY SeqOfAny
<1>3. IsSeq(s) /\ Len(s) = Len(v) /\ \A k \in 1..Len(v) : s[k] = Num(Shown(v[k]))
  BY <1>1, <1>2, ShowsIs
<1>4. DOMAIN s = 1..Len(v)
  BY <1>3, SeqDomain
<1>5. w = [k \in 1..Len(v) |-> w[k]]
  BY <1>1, <1>4
<1>6. IsSeq(w) /\ Len(w) = Len(v)
  BY <1>2, <1>5, SeqMade
<1>7. ASSUME NEW k \in 1..Len(v) PROVE Shown(w[k]) = Shown(v[k])
  <2>1. w[k] = Atof(s[k])
    BY <1>1, <1>4
  <2>2. Atof(s[k]) = Float(Shown(v[k]))
    <3>1. s[k] = Num(Shown(v[k]))
      BY <1>3
    <3> QED
      BY <3>1, NumIs
  <2> QED
    BY <1>2, <2>1, <2>2, FloatAgain
<1> QED
  BY <1>1, <1>6, <1>7

-----------------------------------------------------------------------------
(* What is written as text, and read again, is written the same.           *)
LEMMA EnumAgain ==
    ASSUME NEW a \in AttrNames, AttrType(a) = "enum", NEW v \in Int, NEW t, t = WriteEnum(a, v)
    PROVE  WriteEnum(a, ParseEnum(a, t)) = t
<1>1. PICK list, m, r, k : list = EnumNames(a) /\ m = Len(list) /\ r = v % m /\ k = r + 1
  OBVIOUS
<1>2. a \in {"stroke-linecap", "display"}
  BY DEF AttrNames, AttrType
<1>3. /\ m \in {2, 3} /\ DOMAIN list = 1..m
      /\ \A i, j \in 1..m : list[i] = list[j] => i = j
  <2>1. CASE a = "display"
    <3>1. list = <<"inline", "none">>
      BY <1>1, <2>1 DEF EnumNames
    <3>2. m = 2 /\ DOMAIN list = 1..2 /\ list[1] = "inline" /\ list[2] = "none"
      BY <1>1, <3>1
    <3> QED
      BY <3>2
  <2>2. CASE a = "stroke-linecap"
    <3>1. list = <<"butt", "round", "square">>
      BY <1>1, <2>2 DEF EnumNames
    <3>2. m = 3 /\ DOMAIN list = 1..3 /\ list[1] = "butt" /\ list[2] = "round" /\ list[3] = "square"
      BY <1>1, <3>1
    <3> QED
      BY <3>2
  <2> QED
    BY <1>2, <2>1, <2>2
<1>4. r \in 0..(m - 1) /\ k \in 1..m /\ r % m = r /\ k \in Nat /\ k - 1 = r
  BY <1>1, <1>3
<1>5. EnumModulus(a) = m
  BY <1>1 DEF EnumModulus
<1>6. t = <<Mark(list[k])>>
  BY <1>1, <1>5 DEF WriteEnum
<1>7. PICK found : found = {i \in DOMAIN list : t = <<Mark(list[i])>>}
  OBVIOUS
<1>8. found = {k}
  <2>1. \A i \in 1..m : t = <<Mark(list[i])>> <=> i = k
    <3> TAKE i \in 1..m
    <3>1. t[1] = Mark(list[k])
      BY <1>6
    <3>2. t = <<Mark(list[i])>> => t[1] = Mark(list[i])
      OBVIOUS
    <3>3. Mark(list[i]) = Mark(list[k]) => list[i] = list[k]
      BY DEF Mark, Token
    <3> QED
      BY <1>3, <1>4, <1>6, <3>1, <3>2, <3>3
  <2> QED
    BY <1>3, <1>4, <1>7, <2>1
<1>9. Min(found) = k
  <2>1. found \in SUBSET Nat /\ found # {}
    BY <1>4, <1>8
  <2> QED
    BY <1>8, <2>1, MinIs
<1>10. ParseEnum(a, t) = IF found = {} THEN EnumDefault ELSE Min(found) - 1
  BY <1>1, <1>7 DEF ParseEnum
<1>11. ParseEnum(a, t) = r
  BY <1>4, <1>8, <1>9, <1>10
<1>12. WriteEnum(a, r) = <<Mark(list[(r % m) + 1])>>
  BY <1>1, <1>5 DEF WriteEnum
<1> QED
  BY <1>1, <1>4, <1>6, <1>11, <1>12

(* So does a length,                                                       *)
LEMMA LengthAgain ==
    ASSUME NEW v, FineLength(v), NEW t, t = WriteLength(v)
    PROVE  WriteLength(ParseLength(t)) = t
<1>1. v.value \in Floats /\ v.units \in Units \union {"user"}
  BY DEF FineLength
<1>2. PICK x, y, first, rest :
         /\ x = Shown(v.value) /\ y = Float(x) /\ first = <<Num(x)>>
         /\ rest = IF v.units = "user" THEN <<>> ELSE <<Mark(v.units)>>
  OBVIOUS
<1>3. t = first \o rest
  BY <1>2 DEF WriteLength
<1>4. IsSeq(first) /\ Len(first) = 1 /\ first[1] = Num(x)
  BY <1>2, OneSeq
<1>5. /\ IsSeq(rest)
      /\ v.units = "user" => Len(rest) = 0
      /\ v.units # "user" => Len(rest) = 1 /\ rest[1] = Mark(v.units)
  BY <1>2, OneSeq, EmptyIsSeq
<1>6. JoinOf(t, first, rest)
  BY <1>3, <1>4, <1>5, JoinIs
<1>7. t[1] = Num(x) /\ Len(t) = 1 + Len(rest)
  BY <1>4, <1>6 DEF JoinOf
<1>8. v.units # "user" => t[2] = Mark(v.units)
  <2>1. ASSUME v.units # "user" PROVE t[1 + 1] = rest[1]
    <3>1. 1 \in 1..Len(rest)
      BY <1>5, <2>1
    <3> QED
      BY <1>4, <1>6, <3>1 DEF JoinOf
  <2> QED
    BY <1>5, <2>1
<1>9. At(t, 1) = Num(x)
  BY <1>5, <1>7 DEF At
<1>10. At(t, 2) = IF v.units = "user" THEN Mark("end") ELSE Mark(v.units)
  <2>1. v.units = "user" => Len(t) = 1
    BY <1>5, <1>7
  <2>2. ASSUME v.units # "user" PROVE Len(t) = 2
    <3>1. Len(rest) = 1
      BY <1>5, <2>2
    <3> QED
      BY <1>7, <3>1
  <2> QED
    BY <1>8, <2>1, <2>2 DEF At
<1>11. PICK kind : kind = At(t, 2).kind
  OBVIOUS
<1>12. (IF kind \in Units THEN kind ELSE "user") = v.units
  <2>1. kind = IF v.units = "user" THEN "end" ELSE v.units
    BY <1>10, <1>11 DEF Mark, Token
  <2>2. "end" \notin Units /\ "user" \notin Units
    BY DEF Units
  <2> QED
    BY <1>1, <2>1, <2>2
<1>13. ParseLength(t) = [value |-> y, units |-> v.units]
  <2>1. IsNum(At(t, 1)) /\ Atof(At(t, 1)) = y
    BY <1>2, <1>9, NumIs
  <2> QED
    BY <1>11, <1>12, <2>1 DEF ParseLength
<1>14. Shown(y) = x
  BY <1>1, <1>2, FloatAgain
<1> QED
  BY <1>2, <1>3, <1>13, <1>14 DEF WriteLength

(* a single number,                                                        *)
LEMMA FloatTextAgain ==
    ASSUME NEW v \in Floats, NEW t, t = WriteFloat(v)
    PROVE  WriteFloat(ParseFloat(t)) = t
<1>1. t = <<Num(v)>>
  BY DEF WriteFloat
<1>2. Len(t) = 1 /\ t[1] = Num(v)
  BY <1>1, OneSeq
<1>3. At(t, 1) = Num(v)
  BY <1>2 DEF At
<1>4. ParseFloat(t) = Float(v)
  BY <1>3, NumIs DEF ParseFloat
<1>5. Float(v) = v
  BY DEF Floats
<1> QED
  BY <1>4, <1>5

(* and the list of points: each number shows again as it was shown.        *)
LEMMA PointsAgain ==
    ASSUME NEW v \in Seq(Floats), NEW t, t = WritePoints(v)
    PROVE  WritePoints(ParsePoints(t)) = t
<1>1. PICK marks : marks = PointMarks(v)
  OBVIOUS
<1>2. IsSeq(v) /\ DOMAIN v = 1..Len(v) /\ Len(v) \in Nat
  BY SeqOfAny, SeqDomain
<1>3. t = ListOf(v, marks)
  BY <1>1, ListsAre
<1>4. IsList(t, v, marks)
  BY <1>2, <1>3, ListIs
<1>5. PICK places : places = {i \in DOMAIN t : t[i].kind \notin Commas}
  OBVIOUS
<1>6. ASSUME NEW i \in 1..Len(t) PROVE i \in places <=> i % 2 = 1
  <2>1. IsSeq(t) /\ Len(t) = (IF Len(v) = 0 THEN 0 ELSE 2 * Len(v) - 1)
    BY <1>4 DEF IsList
  <2>2. i \in DOMAIN t
    BY <2>1, SeqDomain
  <2>3. CASE i % 2 = 1
    <3>1. PICK k : k = (i + 1) \div 2
      OBVIOUS
    <3>2. k \in 1..Len(v) /\ 2 * k - 1 = i
      BY <1>2, <2>1, <2>3, <3>1
    <3>3. t[i] = Num(Shown(v[k]))
      BY <1>4, <3>2 DEF IsList
    <3>4. t[i].kind = "number"
      BY <3>3, NumIs
    <3>5. "number" \notin Commas
      BY DEF Commas
    <3> QED
      BY <1>5, <2>2, <2>3, <3>4, <3>5
  <2>4. CASE i % 2 # 1
    <3>1. PICK k : k = (i + 2) \div 2
      OBVIOUS
    <3>2. k \in 2..Len(v) /\ 2 * k - 2 = i /\ k \in 1..Len(v)
      BY <1>2, <2>1, <2>4, <3>1
    <3>3. t[i] = marks[k]
      BY <1>4, <3>2 DEF IsList
    <3>4. marks[k] = Mark(",") \/ marks[k] = Mark(" ")
      BY <1>1, <1>2, <3>2 DEF PointMarks
    <3>5. t[i].kind \in Commas
      <4>1. Mark(",").kind = "," /\ Mark(" ").kind = " "
        BY DEF Mark, Token
      <4> QED
        BY <3>3, <3>4, <4>1 DEF Commas
    <3> QED
      BY <1>5, <2>4, <3>5
  <2> QED
    BY <2>3, <2>4
<1>7. PathItems(t) = Shows(v)
  <2>1. Selected(t, places) = Shows(v)
    BY <1>2, <1>4, <1>6, ListSelected
  <2> QED
    BY <1>5, <2>1 DEF PathItems
<1>8. PICK w : w = [k \in DOMAIN Shows(v) |-> Atof(Shows(v)[k])]
  OBVIOUS
<1>9. ParsePoints(t) = w
  BY <1>7, <1>8 DEF ParsePoints
<1>10. IsSeq(w) /\ Len(w) = Len(v) /\ \A k \in 1..Len(v) : Shown(w[k]) = Shown(v[k])
  BY <1>8, ShownAgain
<1>11. ListOf(w, marks) = ListOf(v, marks)
  BY <1>2, <1>10, ListSame
<1>12. PointMarks(w) = marks
  <2>1. DOMAIN w = DOMAIN v
    BY <1>2, <1>10, SeqDomain
  <2> QED
    BY <1>1, <2>1 DEF PointMarks
<1>13. WritePoints(w) = ListOf(w, PointMarks(w))
  BY ListsAre
<1> QED
  BY <1>3, <1>9, <1>11, <1>12, <1>13

(* A mark is of its kind.                                                  *)
LEMMA MarkIs ==
    ASSUME NEW m PROVE Mark(m).kind = m /\ Mark(m).number = 0
  BY DEF Mark, Token

(* A view box is read again as it was written,                             *)
LEMMA ViewboxAgain ==
    ASSUME NEW v \in [1..4 -> Floats], NEW t, t = WriteViewbox(v)
    PROVE  WriteViewbox(ParseViewbox(t)) = t
<1>1. PICK marks : marks = SpaceMarks(v)
  OBVIOUS
<1>2. IsSeq(v) /\ Len(v) = 4 /\ DOMAIN v = 1..4
  <2>1. v = [k \in 1..4 |-> v[k]]
    OBVIOUS
  <2> QED
    BY <2>1, SeqMade
<1>3. t = ListOf(v, marks)
  BY <1>1, ListsAre
<1>4. IsList(t, v, marks)
  BY <1>2, <1>3, ListIs
<1>5. IsSeq(t) /\ Len(t) = 7
  BY <1>2, <1>4 DEF IsList
<1>6. \A k \in 1..4 : t[2 * k - 1] = Num(Shown(v[k]))
  BY <1>2, <1>4 DEF IsList
<1>7. \A k \in 2..4 : t[2 * k - 2] = Mark(" ")
  <2> TAKE k \in 2..4
  <2>1. t[2 * k - 2] = marks[k]
    BY <1>2, <1>4 DEF IsList
  <2>2. k \in DOMAIN v
    BY <1>2
  <2> QED
    BY <1>1, <2>1, <2>2 DEF SpaceMarks
<1>8. PICK p : ViewPlaces(t, p) /\ ParseViewbox(t) = [k \in 1..4 |-> Atof(At(t, p[k]))]
  BY ViewboxIs
<1>9. PICK kinds : kinds = Commas \union {"%"}
  OBVIOUS
<1>10. ASSUME NEW k \in 1..4 PROVE At(t, 2 * k - 1) = Num(Shown(v[k])) /\ IsNum(At(t, 2 * k - 1))
  <2>1. 2 * k - 1 <= Len(t)
    BY <1>5
  <2>2. At(t, 2 * k - 1) = Num(Shown(v[k]))
    BY <1>6, <2>1 DEF At
  <2> QED
    BY <2>2, NumIs
<1>11. ASSUME NEW k \in 2..4 PROVE Skip(t, 2 * k - 2, kinds) = 2 * k - 1
  <2>1. PICK i, j : i = 2 * k - 2 /\ j = 2 * k - 1
    OBVIOUS
  <2>2. i \in 1..(Len(t) + 1) /\ j = i + 1 /\ j \in i..(Len(t) + 1) /\ j <= Len(t) /\ j - 1 = i
    BY <1>5, <2>1
  <2>3. t[j].kind \notin kinds
    <3>1. t[j].kind = "number"
      <4>1. k \in 1..4
        OBVIOUS
      <4> QED
        BY <1>6, <2>1, <4>1, NumIs
    <3> QED
      BY <1>9, <3>1 DEF Commas
  <2>4. \A m \in i..(j - 1) : t[m].kind \in kinds
    <3> TAKE m \in i..(j - 1)
    <3>1. m = i
      BY <2>2
    <3>2. t[m].kind = " "
      BY <1>7, <2>1, <3>1, MarkIs
    <3> QED
      BY <1>9, <3>2 DEF Commas
  <2>5. IsSkip(t, i, kinds, j)
    BY <2>2, <2>3, <2>4 DEF IsSkip
  <2> QED
    BY <1>5, <2>1, <2>2, <2>5, FindOnly
<1>12. p[1] = 1
  BY <1>8 DEF ViewPlaces
<1>13. ASSUME NEW k \in 2..4, p[k - 1] = 2 * (k - 1) - 1
       PROVE  p[k] = 2 * k - 1
  <2>1. PICK j : j = k - 1
    OBVIOUS
  <2>2. j \in 1..4 /\ 2 * j - 1 + 1 = 2 * k - 2 /\ k \in 1..4 /\ k # 1
    BY <2>1
  <2>3. p[j] = 2 * j - 1
    BY <1>13, <2>1
  <2>4. p[k] = Skip(t, IF IsNum(At(t, p[j])) THEN p[j] + 1 ELSE p[j], kinds)
    BY <1>8, <1>9, <2>1, <2>2 DEF ViewPlaces
  <2>5. IsNum(At(t, p[j]))
    BY <1>10, <2>2, <2>3
  <2>6. p[k] = Skip(t, 2 * k - 2, kinds)
    BY <2>2, <2>3, <2>4, <2>5
  <2> QED
    BY <1>11, <2>6
<1>14. p[2] = 3
  BY <1>12, <1>13
<1>15. p[3] = 5
  BY <1>13, <1>14
<1>16. p[4] = 7
  BY <1>13, <1>15
<1>17. \A k \in 1..4 : p[k] = 2 * k - 1
  BY <1>12, <1>14, <1>15, <1>16
<1>18. PICK w : w = ParseViewbox(t)
  OBVIOUS
<1>19. \A k \in 1..4 : w[k] = Float(Shown(v[k]))
  <2> TAKE k \in 1..4
  <2>1. w[k] = Atof(At(t, p[k]))
    BY <1>8, <1>18
  <2>2. At(t, p[k]) = Num(Shown(v[k]))
    BY <1>10, <1>17
  <2> QED
    BY <2>1, <2>2, NumIs
<1>20. w = [k \in 1..4 |-> w[k]]
  BY <1>8, <1>18
<1>21. IsSeq(w) /\ Len(w) = 4 /\ DOMAIN w = 1..4
  BY <1>20, SeqMade
<1>22. \A k \in 1..4 : Shown(w[k]) = Shown(v[k])
  <2> TAKE k \in 1..4
  <2>1. v[k] \in Floats
    OBVIOUS
  <2> QED
    BY <1>19, <2>1, FloatAgain
<1>23. ListOf(w, marks) = ListOf(v, marks)
  BY <1>2, <1>21, <1>22, ListSame
<1>24. SpaceMarks(w) = marks
  BY <1>1, <1>2, <1>21 DEF SpaceMarks
<1>25. WriteViewbox(w) = ListOf(w, SpaceMarks(w))
  BY ListsAre
<1> QED
  BY <1>3, <1>18, <1>23, <1>24, <1>25

(* and so is an alignment.                                                 *)
LEMMA AlignAgain ==
    ASSUME NEW v, FineAlign(v), NEW t, t = WriteAspectratio(v)
    PROVE  WriteAspectratio(ParseAspectratio(t)) = t
<1>1. PICK x, y, z : x = v.alignX /\ y = v.alignY /\ z = v.alignType
  OBVIOUS
<1>2. CASE x = "none"
  <2>1. t = <<Mark("none")>>
    BY <1>1, <1>2 DEF WriteAspectratio
  <2>2. ParseAspectratio(t).alignType = "none"
    <3>1. ParseCrop(t) = "none"
      <4>1. t[1] = Mark("none") /\ DOMAIN t = 1..1
        BY <2>1
      <4>2. Mark("slice") # Mark("none")
        BY DEF Mark, Token
      <4>3. ~Has(t, "slice")
        BY <4>1, <4>2 DEF Has
      <4> QED
        BY <2>1, <4>3 DEF ParseCrop
    <3> QED
      BY <3>1 DEF ParseAspectratio
  <2> QED
    BY <2>1, <2>2 DEF WriteAspectratio
<1>3. CASE x # "none"
  <2>1. /\ x \in {"xMid", "xMin", "xMax"} /\ y \in {"yMid", "yMin", "yMax"}
        /\ z \in {"meet", "slice"}
    BY <1>1, <1>3 DEF FineAlign
  <2>2. t = <<Mark(x), Mark(y), Mark(" "), Mark(z)>>
    BY <1>1, <2>1 DEF WriteAspectratio
  <2>3. /\ Len(t) = 4 /\ DOMAIN t = 1..4
        /\ t[1] = Mark(x) /\ t[2] = Mark(y) /\ t[3] = Mark(" ") /\ t[4] = Mark(z)
    <3>1. PICK p, q, r, s : p = Mark(x) /\ q = Mark(y) /\ r = Mark(" ") /\ s = Mark(z)
      OBVIOUS
    <3>2. t = <<p, q, r, s>>
      BY <2>2, <3>1
    <3>3. /\ Len(t) = 4 /\ DOMAIN t = 1..4
          /\ t[1] = p /\ t[2] = q /\ t[3] = r /\ t[4] = s
      BY <3>2
    <3> QED
      BY <3>1, <3>3
  <2>4. \A m : Has(t, m) <=> (m = x \/ m = y \/ m = " " \/ m = z)
    <3> TAKE m
    <3>1. \A k : Mark(k) = Mark(m) <=> k = m
      <4> TAKE k
      <4>1. Mark(k).kind = k /\ Mark(m).kind = m
        BY MarkIs
      <4> QED
        BY <4>1
    <3>2. Has(t, m) <=> \E i \in 1..4 : t[i] = Mark(m)
      BY <2>3 DEF Has
    <3>3. (\E i \in 1..4 : t[i] = Mark(m)) <=>
             (t[1] = Mark(m) \/ t[2] = Mark(m) \/ t[3] = Mark(m) \/ t[4] = Mark(m))
      OBVIOUS
    <3>4. /\ t[1] = Mark(m) <=> x = m
          /\ t[2] = Mark(m) <=> y = m
          /\ t[3] = Mark(m) <=> " " = m
          /\ t[4] = Mark(m) <=> z = m
      BY <2>3, <3>1
    <3> QED
      BY <3>2, <3>3, <3>4
  <2>5. t # <<Mark("none")>>
    <3>1. PICK u : u = <<Mark("none")>>
      OBVIOUS
    <3>2. Len(u) = 1
      BY <3>1, OneSeq
    <3>3. CASE t = u
      <4>1. Len(t) = 1 /\ Len(t) = 4
        BY <2>3, <3>2, <3>3
      <4> QED
        BY <4>1
    <3> QED
      BY <3>1, <3>3
  <2>6. ParseAlign(t, "xMid", "xMin", "xMax") = x
    <3>1. Has(t, "xMid") <=> x = "xMid"
      BY <2>1, <2>4
    <3>2. Has(t, "xMin") <=> x = "xMin"
      BY <2>1, <2>4
    <3>3. Has(t, "xMax") <=> x = "xMax"
      BY <2>1, <2>4
    <3> QED
      BY <2>1, <2>5, <3>1, <3>2, <3>3 DEF ParseAlign
  <2>7. ParseAlign(t, "yMid", "yMin", "yMax") = y
    <3>1. Has(t, "yMid") <=> y = "yMid"
      BY <2>1, <2>4
    <3>2. Has(t, "yMin") <=> y = "yMin"
      BY <2>1, <2>4
    <3>3. Has(t, "yMax") <=> y = "yMax"
      BY <2>1, <2>4
    <3> QED
      BY <2>1, <2>5, <3>1, <3>2, <3>3 DEF ParseAlign
  <2>8. ParseCrop(t) = z
    <3>1. Has(t, "meet") <=> z = "meet"
      BY <2>1, <2>4
    <3>2. Has(t, "slice") <=> z = "slice"
      BY <2>1, <2>4
    <3> QED
      BY <2>1, <2>5, <3>1, <3>2 DEF ParseCrop
  <2>9. ParseAspectratio(t) = [alignX |-> x, alignY |-> y, alignType |-> z]
    BY <2>6, <2>7, <2>8 DEF ParseAspectratio
  <2>10. ParseAspectratio(t) = v
    BY <1>1, <2>9 DEF FineAlign
  <2> QED
    BY <2>10
<1> QED
  BY <1>2, <1>3

(* A colour of 24 bits has six digits.                                     *)
LEMMA SixDigits ==
    ASSUME NEW word, word \subseteq 0..23
    PROVE  Max({6} \union {i \div 4 + 1 : i \in word}) = 6
<1>1. PICK D : D = {6} \union {i \div 4 + 1 : i \in word}
  OBVIOUS
<1>2. \A i \in word : i \div 4 + 1 \in 0..6
  <2>1. \A i \in 0..23 : i \div 4 + 1 \in 0..6
    OBVIOUS
  <2> QED
    BY <2>1
<1>3. D \subseteq 0..6 /\ 6 \in D /\ D # {}
  BY <1>1, <1>2
<1>4. PICK m : m = Max(D)
  OBVIOUS
<1>5. m \in D /\ \A n \in D : n <= m
  BY <1>3, <1>4, MaxIs
<1>6. m \in 0..6 /\ 6 <= m
  BY <1>3, <1>5
<1>7. m = 6
  BY <1>6
<1> QED
  BY <1>1, <1>4, <1>7

(* A colour of 24 bits is read again as it was, and so is a paint server.  *)
LEMMA ColorAgain ==
    ASSUME NEW v, FineColor(v), v.word \subseteq 0..23, NEW t, t = WriteColor(v)
    PROVE  ParseColor(t) = v
<1>1. CASE v = NoColor
  <2>1. t = <<Mark("none")>>
    BY <1>1 DEF WriteColor, NoColor
  <2>2. IsSeq(t) /\ Len(t) = 1 /\ t[1] = Mark("none")
    BY <2>1, OneSeq
  <2>3. SubSeq(t, Skip(t, 1, Space), Len(t)) = t
    <3>1. t[1].kind \notin Space
      BY <2>2, NoneIs
    <3>2. Len(t) > 0
      BY <2>2
    <3> QED
      BY <2>2, <3>1, <3>2, SkipNothing
  <2>4. At(t, 1).kind = "none"
    BY <2>2, MarkIs DEF At
  <2> QED
    BY <1>1, <2>1, <2>3, <2>4 DEF ParseColor
<1>2. ASSUME NEW word, v = Rgba(word) PROVE ParseColor(t) = v
  <2>1. v.type = "rgba" /\ v.word = word
    BY <1>2 DEF Rgba
  <2>2. t = <<Hex(6, word)>>
    BY <2>1, SixDigits DEF WriteColor
  <2>3. IsSeq(t) /\ Len(t) = 1 /\ t[1] = Hex(6, word)
    BY <2>2, OneSeq
  <2>4. SubSeq(t, Skip(t, 1, Space), Len(t)) = t
    <3>1. t[1].kind \notin Space
      BY <2>3, HexIs
    <3>2. Len(t) > 0
      BY <2>3
    <3> QED
      BY <2>3, <3>1, <3>2, SkipNothing
  <2>5. t[1].kind = "#" /\ t[1].number = 6 /\ t[1].word = word
    BY <2>3 DEF Hex, Token
  <2>6. At(t, 1) = t[1]
    BY <2>3 DEF At
  <2>7. t # <<Mark("none")>>
    <3>1. <<Mark("none")>>[1].kind = "none"
      BY MarkIs
    <3> QED
      BY <2>5, <3>1
  <2>8. ParseColor(t) = ParseColorHex(t[1])
    BY <2>4, <2>5, <2>6, <2>7 DEF ParseColor
  <2> QED
    BY <1>2, <2>5, <2>8 DEF ParseColorHex
<1>3. CASE v # NoColor /\ ~ \E word : v = Rgba(word)
  <2>1. /\ v = Url(v.name) /\ IsName(v.name) /\ NameLen(v.name) < 128
        /\ v.name = <<>> \/ v.name = <<Name(v.name[1].kind, NameLen(v.name))>>
    BY <1>3 DEF FineColor
  <2>2. PICK name, k : name = v.name /\ k = NameLen(name)
    OBVIOUS
  <2>3. IsSeq(name) /\ k \in Nat /\ (name # <<>> => k > 0) /\ k < 128
    <3>1. name # <<>> => k = name[1].number
      BY <2>2 DEF NameLen
    <3>2. name # <<>> => name[1].number \in Nat \ {0}
      BY <2>1, <2>2 DEF IsName
    <3> QED
      BY <2>1, <2>2, <3>1, <3>2, NameHasLength
  <2>4. v.type = "url"
    <3>1. Url(name).type = "url"
      BY DEF Url
    <3> QED
      BY <2>1, <2>2, <3>1
  <2>5. t = <<Mark("url(#")>> \o name \o <<Mark(")")>>
    BY <2>2, <2>4 DEF WriteColor
  <2>6. PICK a, b, c : a = <<Mark("url(#")>> /\ b = a \o name /\ c = <<Mark(")")>>
    OBVIOUS
  <2>7. t = b \o c
    BY <2>5, <2>6
  <2>8. IsSeq(a) /\ Len(a) = 1 /\ a[1] = Mark("url(#") /\ IsSeq(c) /\ Len(c) = 1 /\ c[1] = Mark(")")
    BY <2>6, OneSeq
  <2>9. JoinOf(b, a, name)
    BY <2>3, <2>6, <2>8, JoinIs
  <2>10. JoinOf(t, b, c)
    <3>1. IsSeq(b) /\ IsSeq(c)
      BY <2>8, <2>9 DEF JoinOf
    <3> QED
      BY <2>7, <3>1, JoinIs
  <2>11. IsSeq(t) /\ Len(t) = 2 + Len(name) /\ Len(name) \in Nat
    BY <2>3, <2>8, <2>9, <2>10, SeqDomain DEF JoinOf
  <2>12. t[1] = Mark("url(#")
    <3>1. 1 \in 1..Len(a) /\ 1 \in 1..Len(b)
      BY <2>8, <2>9, <2>11 DEF JoinOf
    <3>2. b[1] = a[1]
      BY <2>9, <3>1 DEF JoinOf
    <3>3. t[1] = b[1]
      BY <2>10, <3>1 DEF JoinOf
    <3> QED
      BY <2>8, <3>2, <3>3
  <2>13. At(t, 2) = IF name = <<>> THEN Mark(")") ELSE name[1]
    <3>1. At(t, 2) = t[2]
      BY <2>11 DEF At
    <3>2. CASE name = <<>>
      <4>1. Len(name) = 0
        BY <3>2
      <4>2. Len(b) = 1
        BY <2>8, <2>9, <4>1 DEF JoinOf
      <4>3. 1 \in 1..Len(c)
        BY <2>8
      <4>4. t[Len(b) + 1] = c[1]
        BY <2>10, <4>3 DEF JoinOf
      <4>5. t[2] = c[1]
        BY <4>2, <4>4
      <4> QED
        BY <2>8, <3>1, <3>2, <4>5
    <3>3. CASE name # <<>>
      <4>1. Len(name) # 0
        BY <2>3, <3>3, EmptyIsSeq
      <4>2. 1 \in 1..Len(name) /\ 2 \in 1..Len(b)
        BY <2>8, <2>9, <2>11, <4>1 DEF JoinOf
      <4>3. b[Len(a) + 1] = name[1]
        BY <2>9, <4>2 DEF JoinOf
      <4>4. t[2] = b[2]
        BY <2>10, <4>2 DEF JoinOf
      <4> QED
        BY <2>8, <3>1, <3>3, <4>3, <4>4
    <3> QED
      BY <3>2, <3>3
  <2>14. UrlName(t) = name
    <3>1. CASE name = <<>>
      <4>1. At(t, 2).number = 0
        BY <2>13, <3>1, MarkIs
      <4> QED
        BY <3>1, <4>1 DEF UrlName
    <3>2. CASE name # <<>>
      <4>1. PICK e, kind : e = name[1] /\ kind = e.kind
        OBVIOUS
      <4>2. name = <<Name(kind, k)>>
        BY <2>1, <2>2, <3>2, <4>1
      <4>3. At(t, 2) = e /\ e.number = k
        BY <2>2, <2>13, <3>2, <4>1 DEF NameLen
      <4>4. Min({k, 127}) = k
        <5>1. {k, 127} \in SUBSET Nat
          BY <2>3
        <5>2. Min({k, 127}) \in {k, 127} /\ \A n \in {k, 127} : Min({k, 127}) <= n
          BY <5>1, MinIs
        <5> QED
          BY <2>3, <5>2
      <4>5. k # 0
        BY <2>3, <3>2
      <4> QED
        BY <4>1, <4>2, <4>3, <4>4, <4>5 DEF UrlName
    <3> QED
      BY <3>1, <3>2
  <2>15. t[1].kind = "url(#" /\ t[1].kind \notin Space
    <3>1. t[1].kind = "url(#"
      BY <2>12, MarkIs
    <3> QED
      BY <3>1 DEF Space
  <2>16. SubSeq(t, Skip(t, 1, Space), Len(t)) = t
    <3>1. Len(t) > 0
      BY <2>11
    <3> QED
      BY <2>11, <2>15, <3>1, SkipNothing
  <2>17. At(t, 1).kind = "url(#"
    BY <2>11, <2>15 DEF At
  <2>18. t # <<Mark("none")>>
    <3>1. <<Mark("none")>>[1].kind = "none"
      BY MarkIs
    <3> QED
      BY <2>15, <3>1
  <2>19. ParseColor(t) = ParseColorUrl(t)
    BY <2>16, <2>17, <2>18 DEF ParseColor
  <2> QED
    BY <2>1, <2>2, <2>14, <2>19, UrlNameIs
<1> QED
  BY <1>1, <1>2, <1>3

-----------------------------------------------------------------------------
(* The items of a list of numbers, from the one behind the kth.            *)
ItemsBehind(u, v, k) ==
    /\ IsSeq(u)
    /\ Len(u) = Len(v) - k
    /\ \A j \in 1..(Len(v) - k) : u[j][1] = Num(Shown(v[k + j]))

(* An item before them, and they are one more.                             *)
LEMMA ItemBefore ==
    ASSUME NEW v, NEW k \in 1..Len(v), Len(v) \in Nat, NEW u, ItemsBehind(u, v, k),
           NEW x, x[1] = Num(Shown(v[k])), NEW s, PutBefore(s, x, u)
    PROVE  ItemsBehind(s, v, k - 1)
<1>1. Prefixed(s, x, u)
  BY Prepended DEF ItemsBehind
<1>2. IsSeq(s) /\ Len(s) = Len(v) - (k - 1)
  BY <1>1 DEF Prefixed, ItemsBehind
<1>3. ASSUME NEW j \in 1..(Len(v) - (k - 1)) PROVE s[j][1] = Num(Shown(v[k - 1 + j]))
  <2>1. CASE j = 1
    <3>1. k - 1 + j = k
      BY <2>1
    <3> QED
      BY <1>1, <2>1, <3>1 DEF Prefixed
  <2>2. CASE j # 1
    <3>1. PICK m : m = j - 1
      OBVIOUS
    <3>2. m \in 1..(Len(v) - k) /\ j = m + 1 /\ k - 1 + j = k + m
      BY <2>2, <3>1
    <3>3. m \in 1..Len(u)
      BY <3>2 DEF ItemsBehind
    <3>4. s[m + 1] = u[m]
      BY <1>1, <3>3 DEF Prefixed
    <3>5. u[m][1] = Num(Shown(v[k + m]))
      BY <3>2 DEF ItemsBehind
    <3> QED
      BY <3>2, <3>4, <3>5
  <2> QED
    BY <2>1, <2>2
<1> QED
  BY <1>2, <1>3 DEF ItemsBehind

(* The items of a list with commas are its numbers.                        *)
LEMMA ListItems ==
    ASSUME NEW v, IsSeq(v), v # <<>>, NEW t, IsList(t, v, CommaMarks(v))
    PROVE  ItemsBehind(Items(t), v, 0)
<1>1. PICK n : n = Len(v)
  OBVIOUS
<1>2. n \in Nat /\ n > 0 /\ DOMAIN v = 1..n
  BY <1>1, SeqDomain, EmptyIsSeq
<1>3. IsSeq(t) /\ Len(t) = 2 * n - 1
  BY <1>1, <1>2 DEF IsList
<1>4. \A k \in 1..n : t[2 * k - 1] = Num(Shown(v[k]))
  BY <1>1 DEF IsList
<1>5. \A k \in 2..n : t[2 * k - 2] = Mark(",")
  <2> TAKE k \in 2..n
  <2>1. t[2 * k - 2] = CommaMarks(v)[k]
    BY <1>1 DEF IsList
  <2>2. k \in DOMAIN v
    BY <1>2
  <2> QED
    BY <2>1, <2>2 DEF CommaMarks
<1>6. PICK g : ItemsFrom(t, g) /\ Items(t) = g[1]
  BY <1>3, ItemsAre
<1>7. ASSUME NEW k \in 1..n, NEW i \in 1..(2 * n), i = 2 * k - 1 \/ i = 2 * k - 2
      PROVE  ItemFrom(t, i) = 2 * k - 1 /\ ItemTo(t, i) = 2 * k
  <2>1. PICK j : j = 2 * k - 1
    OBVIOUS
  <2>2. j \in 1..Len(t) /\ j \in 1..(Len(t) + 1) /\ j \in i..(Len(t) + 1) /\ i \in 1..(Len(t) + 1)
    <3>1. i <= j /\ j \in Nat
      BY <1>7, <2>1
    <3>2. 1 <= j /\ j <= Len(t) /\ i \in Nat
      BY <1>2, <1>3, <2>1
    <3> QED
      BY <1>2, <1>3, <3>1, <3>2
  <2>3. t[j].kind = "number"
    BY <1>4, <2>1, NumIs
  <2>4. t[j].kind \notin Commas
    BY <2>3 DEF Commas
  <2>5. \A m \in i..(j - 1) : t[m].kind \in Commas
    <3> TAKE m \in i..(j - 1)
    <3>1. m = 2 * k - 2 /\ k \in 2..n
      BY <1>7, <2>1
    <3>2. t[m] = Mark(",")
      BY <1>5, <3>1
    <3>3. t[m].kind = ","
      BY <3>2, MarkIs
    <3> QED
      BY <3>3 DEF Commas
  <2>6. IsSkip(t, i, Commas, j)
    BY <2>2, <2>4, <2>5 DEF IsSkip
  <2>7. ItemFrom(t, i) = j
    BY <1>3, <2>2, <2>6, FindOnly DEF ItemFrom
  <2>8. PICK e : e = j + 1
    OBVIOUS
  <2>9. Find(t, j, Commas) = e
    <3>1. e \in j..(Len(t) + 1) /\ e - 1 = j
      BY <1>2, <1>3, <2>2, <2>8
    <3>2. ASSUME e <= Len(t) PROVE t[e].kind \in Commas
      <4>1. PICK m : m = k + 1
        OBVIOUS
      <4>2. m \in 2..n /\ e = 2 * m - 2
        BY <1>2, <1>3, <2>1, <2>8, <3>2, <4>1
      <4>3. t[e] = Mark(",")
        BY <1>5, <4>2
      <4>4. t[e].kind = ","
        BY <4>3, MarkIs
      <4> QED
        BY <4>4 DEF Commas
    <3>3. \A m \in j..(e - 1) : t[m].kind \notin Commas
      <4> TAKE m \in j..(e - 1)
      <4>1. m = j
        BY <2>2, <3>1, <1>3
      <4> QED
        BY <2>4, <4>1
    <3>4. IsFind(t, j, Commas, e)
      BY <3>1, <3>2, <3>3 DEF IsFind
    <3> QED
      BY <1>3, <2>2, <3>4, FindOnly
  <2>10. e = 2 * k
    BY <2>1, <2>8
  <2> QED
    BY <2>1, <2>7, <2>9, <2>10 DEF ItemTo
<1>8. ASSUME NEW k \in 1..n, NEW i \in 1..(2 * n), i = 2 * k - 1 \/ i = 2 * k - 2
      PROVE  \E x : x[1] = Num(Shown(v[k])) /\ PutBefore(g[i], x, g[2 * k])
  <2>1. ItemFrom(t, i) = 2 * k - 1 /\ ItemTo(t, i) = 2 * k
    BY <1>7, <1>8
  <2>2. i \in 1..(Len(t) + 1) /\ ~(2 * k - 1 > Len(t)) /\ 2 * k - 1 <= 2 * k - 1
    BY <1>2, <1>3
  <2>3. g[i] = IF ItemFrom(t, i) > Len(t) THEN <<>>
               ELSE <<SubSeq(t, ItemFrom(t, i), ItemTo(t, i) - 1)>> \o g[ItemTo(t, i)]
    BY <1>6, <2>2 DEF ItemsFrom
  <2>4. PICK j : j = 2 * k - 1
    OBVIOUS
  <2>5. j \in Int /\ 2 * k - 1 = j /\ j + 1 - 1 = j
    BY <2>4
  <2>6. g[i] = <<SubSeq(t, j, j)>> \o g[2 * k]
    BY <2>1, <2>2, <2>3, <2>5
  <2>7. SubSeq(t, j, j)[1] = t[j]
    <3>1. 1 \in 1..(j - j + 1) /\ j + 1 - 1 = j
      BY <2>5
    <3>2. SubSeq(t, j, j)[1] = t[j + 1 - 1]
      BY <2>5, <3>1, SeqPart
    <3> QED
      BY <3>1, <3>2
  <2>8. t[j] = Num(Shown(v[k]))
    BY <1>4, <2>4
  <2> QED
    BY <2>6, <2>7, <2>8 DEF PutBefore
<1>9. g[2 * n] = <<>>
  <2>1. PICK j : j = 2 * n
    OBVIOUS
  <2>2. j = Len(t) + 1 /\ j \in 1..(Len(t) + 1) /\ ~(j <= Len(t)) /\ j > Len(t)
    BY <1>2, <1>3, <2>1
  <2>3. \A m \in j..(j - 1) : t[m].kind \in Commas
    BY <2>2
  <2>4. IsSkip(t, j, Commas, j)
    BY <2>2, <2>3 DEF IsSkip
  <2>5. ItemFrom(t, j) = j
    BY <1>3, <2>2, <2>4, FindOnly DEF ItemFrom
  <2>6. g[j] = IF ItemFrom(t, j) > Len(t) THEN <<>>
               ELSE <<SubSeq(t, ItemFrom(t, j), ItemTo(t, j) - 1)>> \o g[ItemTo(t, j)]
    BY <1>6, <2>2 DEF ItemsFrom
  <2> QED
    BY <2>1, <2>2, <2>5, <2>6
<1>10. PICK T : T = {k \in 1..n : ItemsBehind(g[2 * k], v, k)}
  OBVIOUS
<1>11. \A k \in 1..n : (\A m \in (k + 1)..n : m \in T) => k \in T
  <2> TAKE k \in 1..n
  <2> HAVE \A m \in (k + 1)..n : m \in T
  <2>1. CASE k = n
    <3>1. ItemsBehind(<<>>, v, n)
      <4>1. Len(v) - n = 0
        BY <1>1, <1>2
      <4> QED
        BY <4>1, EmptyIsSeq DEF ItemsBehind
    <3> QED
      BY <1>9, <1>10, <2>1, <3>1
  <2>2. CASE k # n
    <3>1. PICK m : m = k + 1
      OBVIOUS
    <3>2. m \in (k + 1)..n /\ m \in 1..n /\ 2 * k = 2 * m - 2 /\ 2 * k \in 1..(2 * n) /\ m - 1 = k
      BY <1>2, <2>2, <3>1
    <3>3. ItemsBehind(g[2 * m], v, m)
      BY <1>10, <3>2
    <3>4. PICK x : x[1] = Num(Shown(v[m])) /\ PutBefore(g[2 * k], x, g[2 * m])
      BY <1>8, <3>2
    <3>5. ItemsBehind(g[2 * k], v, m - 1)
      BY <1>1, <1>2, <3>2, <3>3, <3>4, ItemBefore
    <3> QED
      BY <1>10, <3>2, <3>5
  <2> QED
    BY <2>1, <2>2
<1>12. 1..n \subseteq T
  BY <1>2, <1>11, Downwards
<1>13. ItemsBehind(g[2], v, 1)
  <2>1. 1 \in T
    BY <1>2, <1>12
  <2>2. 2 * 1 = 2
    OBVIOUS
  <2> QED
    BY <1>10, <2>1, <2>2
<1>14. PICK x : x[1] = Num(Shown(v[1])) /\ PutBefore(g[1], x, g[2])
  <2>1. 1 \in 1..n /\ 1 \in 1..(2 * n) /\ 1 = 2 * 1 - 1 /\ 2 * 1 = 2
    BY <1>2
  <2> QED
    BY <1>8, <2>1
<1>15. ItemsBehind(g[1], v, 1 - 1)
  <2>1. 1 \in 1..Len(v) /\ Len(v) \in Nat
    BY <1>1, <1>2
  <2> QED
    BY <1>13, <1>14, <2>1, ItemBefore
<1> QED
  BY <1>6, <1>15

(* So the dashes are read again as they were written.                      *)
LEMMA DashesAgain ==
    ASSUME NEW v, FineDashes(v), NEW t, t = WriteDasharray(v)
    PROVE  WriteDasharray(ParseDasharray(t)) = t
<1>1. CASE v = <<>>
  <2>1. t = <<Mark("none")>>
    BY <1>1 DEF WriteDasharray
  <2>2. At(t, 1).kind = "none"
    <3>1. Len(t) = 1 /\ t[1] = Mark("none")
      BY <2>1, OneSeq
    <3> QED
      BY <3>1, MarkIs DEF At
  <2>3. ParseDasharray(t) = <<>>
    BY <2>2 DEF ParseDasharray
  <2> QED
    BY <2>1, <2>3 DEF WriteDasharray
<1>2. CASE v # <<>>
  <2>1. IsSeq(v)
    BY SeqOfAny DEF FineDashes
  <2>2. PICK n : n = Len(v)
    OBVIOUS
  <2>3. n \in Nat /\ n > 0 /\ n <= 8 /\ DOMAIN v = 1..n
    <3>1. n # 0
      BY <1>2, <2>1, <2>2, EmptyIsSeq
    <3> QED
      BY <2>1, <2>2, <3>1, SeqDomain DEF FineDashes, MaxDashes
  <2>4. PICK marks : marks = CommaMarks(v)
    OBVIOUS
  <2>5. t = ListOf(v, marks)
    BY <1>2, <2>4, ListsAre DEF WriteDasharray
  <2>6. IsList(t, v, marks)
    BY <2>1, <2>5, ListIs
  <2>7. PICK items : items = Items(t)
    OBVIOUS
  <2>8. ItemsBehind(items, v, 0)
    BY <1>2, <2>1, <2>4, <2>6, <2>7, ListItems
  <2>9. Len(items) = n /\ \A j \in 1..n : items[j][1] = Num(Shown(v[j]))
    <3>1. Len(v) - 0 = n /\ \A j \in 1..n : 0 + j = j
      BY <2>2, <2>3
    <3> QED
      BY <2>8, <3>1 DEF ItemsBehind
  <2>10. Min({Len(items), MaxDashes}) = n
    <3>1. {n, 8} \in SUBSET Nat /\ {n, 8} # {}
      BY <2>3
    <3>2. Min({n, 8}) \in {n, 8} /\ \A m \in {n, 8} : Min({n, 8}) <= m
      BY <3>1, MinIs
    <3>3. Min({n, 8}) = n
      BY <2>3, <3>2
    <3> QED
      BY <2>9, <3>3 DEF MaxDashes
  <2>11. PICK w : w = [i \in 1..n |-> Abs(Atof(items[i][1]))]
    OBVIOUS
  <2>12. ASSUME NEW i \in 1..n
         PROVE  v[i] \in Floats /\ w[i] = Float(Shown(v[i]))
    <3>1. v[i] \in Floats /\ v[i] \in Nat
      <4>1. v \in Seq(Floats \intersect Nat)
        BY DEF FineDashes
      <4> QED
        BY <2>2, <4>1
    <3>2. v[i] <= 1000000000 /\ Float(v[i]) = v[i]
      BY <3>1 DEF Floats, Abs
    <3>3. Shown(v[i]) \in Nat /\ Shown(v[i]) <= 1000000000
      BY <3>1, <3>2, ShownAgainNat
    <3>4. Float(Shown(v[i])) \in Nat
      BY <3>3, FloatNat
    <3>5. Atof(items[i][1]) = Float(Shown(v[i]))
      BY <2>9, NumIs
    <3>6. Abs(Float(Shown(v[i]))) = Float(Shown(v[i]))
      BY <3>4 DEF Abs
    <3> QED
      BY <2>11, <3>1, <3>5, <3>6
  <2>13. \A i \in 1..n : Shown(w[i]) = Shown(v[i])
    BY <2>12, FloatAgain
  <2>14. w = [i \in 1..n |-> w[i]]
    BY <2>11
  <2>15. IsSeq(w) /\ Len(w) = n /\ DOMAIN w = 1..n
    BY <2>3, <2>14, SeqMade
  <2>16. PICK i \in 1..n : v[i] # 0
    BY <1>2, <2>2 DEF FineDashes
  <2>17. w[i] # 0
    <3>1. Shown(v[i]) # 0
      BY <2>12, <2>16, FloatAgain
    <3> QED
      BY <2>13, <3>1, ZeroFloat
  <2>18. At(t, 1).kind # "none"
    <3>1. 1 \in 1..Len(v) /\ 2 * 1 - 1 = 1 /\ 1 <= Len(t)
      BY <2>2, <2>3, <2>6 DEF IsList
    <3>2. t[1] = Num(Shown(v[1]))
      BY <2>6, <3>1 DEF IsList
    <3>3. At(t, 1).kind = "number"
      BY <3>1, <3>2, NumIs DEF At
    <3> QED
      BY <3>3
  <2>19. ParseDasharray(t) = w
    BY <2>7, <2>10, <2>11, <2>15, <2>17, <2>18 DEF ParseDasharray
  <2>20. w # <<>>
    BY <2>3, <2>15, EmptyIsSeq
  <2>21. ListOf(w, marks) = ListOf(v, marks)
    BY <2>1, <2>2, <2>13, <2>15, ListSame
  <2>22. CommaMarks(w) = marks
    BY <2>3, <2>4, <2>15 DEF CommaMarks
  <2>23. WriteDasharray(w) = ListOf(w, CommaMarks(w))
    BY <2>20, ListsAre DEF WriteDasharray
  <2> QED
    BY <2>5, <2>19, <2>21, <2>22, <2>23
<1> QED
  BY <1>1, <1>2

-----------------------------------------------------------------------------
(* The text of a function, of which l is the list of arguments.            *)
IsFunctionText(t, type, l) ==
    /\ IsSeq(t) /\ Len(t) = Len(l) + 3
    /\ t[1] = Mark(type) /\ t[2] = Mark("(") /\ t[Len(l) + 3] = Mark(")")
    /\ \A j \in 1..Len(l) : t[j + 2] = l[j]

(* This is where its parts are.                                            *)
LEMMA FunctionTextIs ==
    ASSUME NEW type, NEW l, IsSeq(l), NEW t, t = <<Mark(type), Mark("(")>> \o l \o <<Mark(")")>>
    PROVE  IsFunctionText(t, type, l)
<1>1. PICK x, y, z : x = Mark(type) /\ y = Mark("(") /\ z = Mark(")")
  OBVIOUS
<1>2. PICK a, b, c : a = <<x, y>> /\ b = a \o l /\ c = <<z>>
  OBVIOUS
<1>3. Len(a) = 2 /\ a[1] = x /\ a[2] = y /\ IsSeq(a)
  <2>1. a \in Seq({x, y})
    BY <1>2
  <2> QED
    BY <1>2, <2>1, SeqOfAny
<1>4. IsSeq(c) /\ Len(c) = 1 /\ c[1] = z
  BY <1>2, OneSeq
<1>5. JoinOf(b, a, l)
  BY <1>2, <1>3, JoinIs
<1>6. t = b \o c
  BY <1>1, <1>2
<1>7. JoinOf(t, b, c)
  <2>1. IsSeq(b) /\ IsSeq(c)
    BY <1>4, <1>5 DEF JoinOf
  <2> QED
    BY <1>6, <2>1, JoinIs
<1>8. PICK n : n = Len(l)
  OBVIOUS
<1>9. n \in Nat /\ Len(b) = n + 2 /\ IsSeq(t) /\ Len(t) = n + 3
  <2>1. n \in Nat
    BY <1>8, SeqDomain
  <2>2. Len(b) = n + 2
    BY <1>3, <1>5, <1>8, <2>1 DEF JoinOf
  <2>3. IsSeq(t) /\ Len(t) = Len(b) + Len(c)
    BY <1>7 DEF JoinOf
  <2> QED
    BY <1>4, <2>1, <2>2, <2>3
<1>10. t[1] = x /\ t[2] = y
  <2>1. 1 \in 1..Len(b) /\ 2 \in 1..Len(b) /\ 1 \in 1..Len(a) /\ 2 \in 1..Len(a)
    BY <1>3, <1>9
  <2>2. b[1] = a[1] /\ b[2] = a[2]
    BY <1>5, <2>1 DEF JoinOf
  <2>3. t[1] = b[1] /\ t[2] = b[2]
    BY <1>7, <2>1 DEF JoinOf
  <2> QED
    BY <1>3, <2>2, <2>3
<1>11. t[n + 3] = z
  <2>1. 1 \in 1..Len(c) /\ Len(b) + 1 = n + 3
    BY <1>4, <1>9
  <2>2. t[Len(b) + 1] = c[1]
    BY <1>7, <2>1 DEF JoinOf
  <2> QED
    BY <1>4, <2>1, <2>2
<1>12. ASSUME NEW j \in 1..n PROVE t[j + 2] = l[j]
  <2>1. j \in 1..Len(l) /\ j + 2 \in 1..Len(b) /\ Len(a) + j = j + 2
    BY <1>3, <1>8, <1>9
  <2>2. b[Len(a) + j] = l[j]
    BY <1>5, <2>1 DEF JoinOf
  <2>3. t[j + 2] = b[j + 2]
    BY <1>7, <2>1 DEF JoinOf
  <2> QED
    BY <2>1, <2>2, <2>3
<1> QED
  BY <1>1, <1>8, <1>9, <1>10, <1>11, <1>12 DEF IsFunctionText

(* Its parentheses are the only ones.                                      *)
LEMMA FunctionPlaces ==
    ASSUME NEW v, IsSeq(v), NEW l, IsList(l, v, CommaMarks(v)), NEW type \in DOMAIN MaxArgs,
           NEW t, IsFunctionText(t, type, l)
    PROVE  /\ ArgsOpen(t, 1) = 2
           /\ ArgsClose(t, 1) = Len(t)
           /\ ArgTokens(t, 1) = Shows(v)
<1>1. PICK m, n, r : m = Len(v) /\ n = Len(l) /\ r = Len(t)
  OBVIOUS
<1>2. /\ m \in Nat /\ n \in Nat /\ IsSeq(l) /\ IsSeq(t)
      /\ n = IF m = 0 THEN 0 ELSE 2 * m - 1
      /\ r = n + 3
  BY <1>1, SeqDomain DEF IsList, IsFunctionText
<1>3. /\ t[1] = Mark(type) /\ t[2] = Mark("(") /\ t[r] = Mark(")")
      /\ \A j \in 1..n : t[j + 2] = l[j]
  BY <1>1, <1>2 DEF IsFunctionText
<1>4. ASSUME NEW j \in 1..n PROVE l[j].kind = IF j % 2 = 1 THEN "number" ELSE ","
  <2>1. CASE j % 2 = 1
    <3>1. PICK k : k = (j + 1) \div 2
      OBVIOUS
    <3>2. k \in 1..m /\ 2 * k - 1 = j
      BY <1>2, <2>1, <3>1
    <3>3. l[j] = Num(Shown(v[k]))
      BY <1>1, <3>2 DEF IsList
    <3> QED
      BY <2>1, <3>3, NumIs
  <2>2. CASE j % 2 # 1
    <3>1. PICK k : k = (j + 2) \div 2
      OBVIOUS
    <3>2. k \in 2..m /\ 2 * k - 2 = j /\ k \in 1..m
      BY <1>2, <2>2, <3>1
    <3>3. l[j] = CommaMarks(v)[k]
      BY <1>1, <3>2 DEF IsList
    <3>4. k \in DOMAIN v
      BY <1>1, <3>2, SeqDomain
    <3>5. l[j] = Mark(",")
      BY <3>3, <3>4 DEF CommaMarks
    <3> QED
      BY <2>2, <3>5, MarkIs
  <2> QED
    BY <2>1, <2>2
<1>5. ASSUME NEW i \in 2..r PROVE t[i].kind \in {"(", ")", "number", ","} /\ (t[i].kind = ")" <=> i = r)
  <2>1. CASE i = 2
    BY <1>2, <1>3, <2>1, MarkIs
  <2>2. CASE i = r
    BY <1>2, <1>3, <2>2, MarkIs
  <2>3. CASE i # 2 /\ i # r
    <3>1. PICK j : j = i - 2
      OBVIOUS
    <3>2. j \in 1..n /\ j + 2 = i
      BY <1>2, <2>3, <3>1
    <3>3. t[i] = l[j]
      BY <1>3, <3>2
    <3> QED
      BY <1>4, <2>3, <3>2, <3>3
  <2> QED
    BY <2>1, <2>2, <2>3
<1>6. ArgsOpen(t, 1) = 2
  <2>1. PICK i, j : i = 1 /\ j = 2
    OBVIOUS
  <2>2. i \in 1..(Len(t) + 1) /\ j \in i..(Len(t) + 1) /\ j - 1 = i
    BY <1>1, <1>2, <2>1
  <2>3. t[j].kind \in {"("}
    BY <1>3, <2>1, MarkIs
  <2>4. \A k \in i..(j - 1) : t[k].kind \notin {"("}
    <3> TAKE k \in i..(j - 1)
    <3>1. k = 1
      BY <2>1, <2>2
    <3>2. t[k].kind = type
      BY <1>3, <3>1, MarkIs
    <3>3. type # "("
      BY DEF MaxArgs
    <3> QED
      BY <3>2, <3>3
  <2>5. IsFind(t, i, {"("}, j)
    BY <2>2, <2>3, <2>4 DEF IsFind
  <2> QED
    BY <1>2, <2>1, <2>2, <2>5, FindOnly DEF ArgsOpen
<1>7. ArgsClose(t, 1) = r
  <2>1. PICK i : i = 2
    OBVIOUS
  <2>2. i \in 1..(Len(t) + 1) /\ r \in i..(Len(t) + 1)
    BY <1>1, <1>2, <2>1
  <2>3. t[r].kind \in {")"}
    BY <1>3, MarkIs
  <2>4. \A k \in i..(r - 1) : t[k].kind \notin {")"}
    <3> TAKE k \in i..(r - 1)
    <3>1. k \in 2..r /\ k # r
      BY <1>2, <2>1
    <3> QED
      BY <1>5, <3>1
  <2>5. IsFind(t, i, {")"}, r)
    BY <2>2, <2>3, <2>4 DEF IsFind
  <2> QED
    BY <1>2, <1>6, <2>1, <2>2, <2>5, FindOnly DEF ArgsClose
<1>8. PICK places : places = {j \in 2..r : IsNum(t[j])}
  OBVIOUS
<1>9. ArgTokens(t, 1) = Selected(t, places)
  <2>1. ~(r > r)
    BY <1>2
  <2> QED
    BY <1>1, <1>6, <1>7, <1>8, <2>1 DEF ArgTokens
<1>10. ASSUME NEW i \in 1..r PROVE i \in places <=> i > 2 /\ i < r /\ i % 2 = 1
  <2>1. CASE i < 3 \/ i = r
    <3>1. i = 2 => t[i].kind = "("
      BY <1>3, MarkIs
    <3>2. i = r => t[i].kind = ")"
      BY <1>3, MarkIs
    <3> QED
      BY <1>2, <1>8, <2>1, <3>1, <3>2 DEF IsNum
  <2>2. CASE i >= 3 /\ i # r
    <3>1. PICK j : j = i - 2
      OBVIOUS
    <3>2. j \in 1..n /\ j + 2 = i /\ (j % 2 = 1 <=> i % 2 = 1) /\ i \in 2..r /\ i > 2 /\ i < r
      BY <1>2, <2>2, <3>1
    <3>3. t[i] = l[j]
      BY <1>3, <3>2
    <3>4. t[i].kind = "number" <=> j % 2 = 1
      BY <1>4, <3>2, <3>3
    <3> QED
      BY <1>8, <3>2, <3>4 DEF IsNum
  <2> QED
    BY <1>2, <2>1, <2>2
<1>11. PICK c : c = [i \in 0..r |-> IF i <= 2 THEN 0 ELSE IF i = r THEN m ELSE (i - 1) \div 2]
  OBVIOUS
<1>12. c[r] = m
  <2>1. r \in 0..r /\ ~(r <= 2)
    BY <1>2
  <2> QED
    BY <1>11, <2>1
<1>13. Counts(c, places, r)
  <2>1. c[0] = 0 /\ \A i \in 0..r : c[i] \in Nat
    BY <1>2, <1>11
  <2>2. ASSUME NEW i \in 1..r PROVE c[i] = c[i - 1] + (IF i \in places THEN 1 ELSE 0)
    <3>1. i \in 0..r /\ i - 1 \in 0..r
      BY <1>2
    <3>2. /\ c[i] = IF i <= 2 THEN 0 ELSE IF i = r THEN m ELSE (i - 1) \div 2
          /\ c[i - 1] = IF i - 1 <= 2 THEN 0 ELSE IF i - 1 = r THEN m ELSE (i - 2) \div 2
      <4>1. i - 1 - 1 = i - 2
        OBVIOUS
      <4> QED
        BY <1>11, <3>1, <4>1
    <3>3. CASE i <= 2
      <4>1. i \notin places
        BY <1>10, <3>3
      <4> QED
        BY <3>2, <3>3, <4>1
    <3>4. CASE i = r
      <4>1. i \notin places
        BY <1>10, <3>4, <1>2
      <4>2. c[i] = m
        BY <1>12, <3>4
      <4>3. c[i - 1] = m
        BY <1>2, <3>2, <3>4
      <4> QED
        BY <1>2, <4>1, <4>2, <4>3
    <3>5. CASE i > 2 /\ i # r
      <4>1. c[i] = (i - 1) \div 2 /\ c[i - 1] = (i - 2) \div 2
        BY <1>2, <3>2, <3>5
      <4>2. i \in places <=> i % 2 = 1
        BY <1>2, <1>10, <3>5
      <4>3. (i - 1) \div 2 = (i - 2) \div 2 + (IF i % 2 = 1 THEN 1 ELSE 0)
        BY <3>5
      <4> QED
        BY <4>1, <4>2, <4>3
    <3> QED
      BY <1>2, <3>3, <3>4, <3>5
  <2> QED
    BY <2>1, <2>2 DEF Counts
<1>14. PICK w : w = Shows(v)
  OBVIOUS
<1>15. IsSeq(w) /\ Len(w) = m /\ \A k \in 1..m : w[k] = Num(Shown(v[k]))
  BY <1>1, <1>14, ShowsIs
<1>16. ASSUME NEW i \in 1..r, i \in places PROVE w[c[i]] = t[i]
  <2>1. i > 2 /\ i < r /\ i % 2 = 1
    BY <1>10, <1>16
  <2>2. PICK k : k = (i - 1) \div 2
    OBVIOUS
  <2>3. k \in 1..m /\ k \in 1..Len(v) /\ 2 * k - 1 = i - 2 /\ i \in 0..r
    <3>1. k \in 1..m /\ 2 * k - 1 = i - 2
      BY <1>2, <2>1, <2>2
    <3> QED
      BY <1>1, <3>1
  <2>4. c[i] = k
    BY <1>2, <1>11, <2>1, <2>2, <2>3
  <2>5. PICK j : j = i - 2
    OBVIOUS
  <2>6. j \in 1..n /\ j + 2 = i /\ 2 * k - 1 = j
    BY <1>2, <2>1, <2>3, <2>5
  <2>7. t[i] = l[j]
    BY <1>3, <2>6
  <2>8. l[j] = Num(Shown(v[k]))
    BY <2>3, <2>6 DEF IsList
  <2> QED
    BY <1>15, <2>3, <2>4, <2>7, <2>8
<1>17. Counts(c, places, Len(t)) /\ Len(w) = c[Len(t)]
  BY <1>1, <1>12, <1>13, <1>15
<1>18. \A i \in 1..Len(t) : i \in places => w[c[i]] = t[i]
  BY <1>1, <1>16
<1>19. Selected(t, places) = w
  BY <1>2, <1>15, <1>17, <1>18, SelectedIs
<1> QED
  BY <1>1, <1>6, <1>7, <1>9, <1>14, <1>19

(* So it is read as that function.                                         *)
LEMMA OneFunction ==
    ASSUME NEW v, IsSeq(v), NEW l, IsList(l, v, CommaMarks(v)), NEW type \in DOMAIN MaxArgs,
           Len(v) <= MaxArgs[type], NEW t, IsFunctionText(t, type, l)
    PROVE  TransformList(t) = <<Function(t, 1)>>
<1>1. PICK r : r = Len(t)
  OBVIOUS
<1>2. r \in Nat /\ r > 2 /\ IsSeq(t) /\ t[1].kind = type /\ t[r].kind = ")"
  <2>1. Len(l) \in Nat
    BY SeqDomain DEF IsList
  <2> QED
    BY <1>1, <2>1, MarkIs DEF IsFunctionText
<1>3. ArgsOpen(t, 1) = 2 /\ ArgsClose(t, 1) = r /\ ArgTokens(t, 1) = Shows(v)
  BY <1>1, FunctionPlaces
<1>4. Len(Shows(v)) = Len(v)
  BY ShowsIs
<1>5. Taken(t, 1)
  BY <1>2, <1>3, <1>4 DEF Taken
<1>6. AfterFunction(t, 1) = r
  <2>1. ~(r > r)
    BY <1>2
  <2> QED
    BY <1>1, <1>3, <2>1 DEF AfterFunction
<1>7. ~Taken(t, r)
  <2>1. ")" \notin DOMAIN MaxArgs
    BY DEF MaxArgs
  <2> QED
    BY <1>2, <2>1 DEF Taken
<1>8. PICK g : FunctionsFrom(t, g) /\ TransformList(t) = g[1]
  BY <1>2, FunctionsAre
<1>9. \A i \in 1..(r + 1) : g[i] = IF i > r THEN <<>>
            ELSE IF Taken(t, i) THEN <<Function(t, i)>> \o g[AfterFunction(t, i)]
            ELSE g[i + 1]
  BY <1>1, <1>8 DEF FunctionsFrom
<1>10. g[r + 1] = <<>>
  <2>1. r + 1 \in 1..(r + 1) /\ r + 1 > r
    BY <1>2
  <2> QED
    BY <1>9, <2>1
<1>11. g[r] = <<>>
  <2>1. r \in 1..(r + 1) /\ ~(r > r)
    BY <1>2
  <2> QED
    BY <1>7, <1>9, <1>10, <2>1
<1>12. g[1] = <<Function(t, 1)>> \o <<>>
  <2>1. 1 \in 1..(r + 1) /\ ~(1 > r)
    BY <1>2
  <2> QED
    BY <1>5, <1>6, <1>9, <1>11, <2>1
<1>13. IsSeq(<<Function(t, 1)>>)
  BY OneSeq
<1> QED
  BY <1>8, <1>12, <1>13, NoneJoined

(* So a transform is read again as the function that was written.          *)
LEMMA TransformAgain ==
    ASSUME NEW v, FineTransform(v), NEW t, t = WriteTransform(v)
    PROVE  WriteTransform(ParseTransform(t)) = t
<1>1. PICK type, a : type = v.type /\ a = IF type = "matrix" THEN v.xform ELSE v.args
  OBVIOUS
<1>2. type \in DOMAIN MaxArgs /\ a \in Seq(Floats) /\ Len(a) <= MaxArgs[type]
  <2>1. type \in DOMAIN MaxArgs
    BY <1>1 DEF FineTransform
  <2>2. CASE type = "matrix"
    <3>1. a \in Seq(Floats) /\ Len(a) = 6
      BY <1>1, <2>2 DEF FineTransform
    <3>2. MaxArgs["matrix"] = 6
      BY DEF MaxArgs
    <3> QED
      BY <2>1, <2>2, <3>1, <3>2
  <2>3. CASE type # "matrix"
    BY <1>1, <2>1, <2>3 DEF FineTransform
  <2> QED
    BY <2>2, <2>3
<1>3. type = "matrix" => Len(a) = 6
  BY <1>1 DEF FineTransform
<1>4. IsSeq(a) /\ Len(a) \in Nat
  BY <1>2, SeqOfAny
<1>5. PICK marks, l : marks = CommaMarks(a) /\ l = ListOf(a, marks)
  OBVIOUS
<1>6. IsList(l, a, CommaMarks(a))
  BY <1>4, <1>5, ListIs
<1>7. IsSeq(l)
  BY <1>6 DEF IsList
<1>8. t = <<Mark(type), Mark("(")>> \o l \o <<Mark(")")>>
  <2>1. Listed(a, Comma) = l
    BY <1>5, ListsAre
  <2> QED
    BY <1>1, <2>1 DEF WriteTransform
<1>9. IsFunctionText(t, type, l)
  BY <1>7, <1>8, FunctionTextIs
<1>10. TransformList(t) = <<Function(t, 1)>>
  BY <1>2, <1>4, <1>6, <1>9, OneFunction
<1>11. ArgTokens(t, 1) = Shows(a)
  BY <1>2, <1>4, <1>6, <1>9, FunctionPlaces
<1>12. PICK s, w : s = Shows(a) /\ w = [k \in DOMAIN s |-> Atof(s[k])]
  OBVIOUS
<1>13. IsSeq(w) /\ Len(w) = Len(a) /\ \A k \in 1..Len(a) : Shown(w[k]) = Shown(a[k])
  BY <1>2, <1>12, ShownAgain
<1>14. PICK f : f = Function(t, 1)
  OBVIOUS
<1>15. f.type = type /\ f.args = w
  <2>1. t[1].kind = type
    BY <1>9, MarkIs DEF IsFunctionText
  <2>2. [k \in DOMAIN ArgTokens(t, 1) |-> Atof(ArgTokens(t, 1)[k])] = w
    BY <1>11, <1>12
  <2> QED
    BY <1>14, <2>1, <2>2 DEF Function
<1>16. PICK list : list = TransformList(t)
  OBVIOUS
<1>17. Len(list) = 1 /\ list[1] = f
  BY <1>10, <1>14, <1>16, OneSeq
<1>18. ParseTransform(t) = [type |-> f.type, args |-> f.args, xform |-> MatrixOf(f)]
  BY <1>16, <1>17 DEF ParseTransform
<1>19. PICK p : p = ParseTransform(t)
  OBVIOUS
<1>20. p.type = type /\ p.args = w /\ p.xform = MatrixOf(f)
  BY <1>15, <1>18, <1>19
<1>21. (IF p.type = "matrix" THEN p.xform ELSE p.args) = w
  <2>1. CASE type = "matrix"
    <3>1. Len(w) = 6
      BY <1>3, <1>13, <2>1
    <3>2. Matrix("matrix", w) = w
      BY <3>1 DEF Matrix
    <3>3. MatrixOf(f) = w
      BY <1>15, <2>1, <3>2 DEF MatrixOf
    <3> QED
      BY <1>20, <3>3
  <2>2. CASE type # "matrix"
    BY <1>20, <2>2
  <2> QED
    BY <2>1, <2>2
<1>22. Listed(w, Comma) = l
  <2>1. ListOf(w, marks) = ListOf(a, marks)
    BY <1>4, <1>13, ListSame
  <2>2. CommaMarks(w) = marks
    <3>1. DOMAIN w = 1..Len(a) /\ DOMAIN a = 1..Len(a)
      BY <1>4, <1>13, SeqDomain
    <3> QED
      BY <1>5, <3>1 DEF CommaMarks
  <2>3. Listed(w, Comma) = ListOf(w, CommaMarks(w))
    BY ListsAre
  <2> QED
    BY <1>5, <2>1, <2>2, <2>3
<1>23. WriteTransform(p) = <<Mark(type), Mark("(")>> \o l \o <<Mark(")")>>
  BY <1>20, <1>21, <1>22 DEF WriteTransform
<1> QED
  BY <1>8, <1>19, <1>23

-----------------------------------------------------------------------------
(* The items of a path are those of its parts, one after the other.        *)
Kinds(text) == {i \in DOMAIN text : text[i].kind \notin Commas}
ItemsAt(text) == [i \in DOMAIN text |-> IF i \in Kinds(text) THEN <<text[i]>> ELSE <<>>]

(* Each token but commas and spaces is an item.                            *)
LEMMA ItemsAtIs ==
    ASSUME NEW a, IsSeq(a), NEW m, m = ItemsAt(a)
    PROVE  /\ IsSeq(m) /\ Len(m) = Len(a)
           /\ \A i \in 1..Len(a) : m[i] = IF a[i].kind \in Commas THEN <<>> ELSE <<a[i]>>
           /\ \A i \in DOMAIN m : IsSeq(m[i])
           /\ PathItems(a) = FlattenSeq(m)
<1>1. Len(a) \in Nat /\ DOMAIN a = 1..Len(a)
  BY SeqDomain
<1>2. m = [i \in 1..Len(a) |-> m[i]]
  BY <1>1 DEF ItemsAt
<1>3. IsSeq(m) /\ Len(m) = Len(a) /\ DOMAIN m = 1..Len(a)
  BY <1>1, <1>2, SeqMade
<1>4. \A i \in 1..Len(a) : m[i] = IF a[i].kind \in Commas THEN <<>> ELSE <<a[i]>>
  BY <1>1 DEF ItemsAt, Kinds
<1>5. \A i \in DOMAIN m : IsSeq(m[i])
  <2> TAKE i \in DOMAIN m
  <2>1. m[i] = <<>> \/ m[i] = <<a[i]>>
    BY <1>3, <1>4
  <2> QED
    BY <2>1, OneSeq, EmptyIsSeq
<1>6. PathItems(a) = FlattenSeq(m)
  BY DEF PathItems, Selected, ItemsAt, Kinds
<1> QED
  BY <1>3, <1>4, <1>5, <1>6

(* The items of two texts, one behind the other, are those of both.        *)
LEMMA PathItemsJoined ==
    ASSUME NEW a, NEW b, IsSeq(a), IsSeq(b)
    PROVE  /\ PathItems(a \o b) = PathItems(a) \o PathItems(b)
           /\ IsSeq(PathItems(a))
<1>1. PICK c, x, y, z : c = a \o b /\ x = ItemsAt(a) /\ y = ItemsAt(b) /\ z = ItemsAt(c)
  OBVIOUS
<1>2. JoinOf(c, a, b)
  BY <1>1, JoinIs
<1>3. /\ IsSeq(x) /\ Len(x) = Len(a)
      /\ \A i \in 1..Len(a) : x[i] = IF a[i].kind \in Commas THEN <<>> ELSE <<a[i]>>
      /\ \A i \in DOMAIN x : IsSeq(x[i])
      /\ PathItems(a) = FlattenSeq(x)
  BY <1>1, ItemsAtIs
<1>4. /\ IsSeq(y) /\ Len(y) = Len(b)
      /\ \A i \in 1..Len(b) : y[i] = IF b[i].kind \in Commas THEN <<>> ELSE <<b[i]>>
      /\ \A i \in DOMAIN y : IsSeq(y[i])
      /\ PathItems(b) = FlattenSeq(y)
  BY <1>1, ItemsAtIs
<1>5. IsSeq(c)
  BY <1>2 DEF JoinOf
<1>6. /\ IsSeq(z) /\ Len(z) = Len(c)
      /\ \A i \in 1..Len(c) : z[i] = IF c[i].kind \in Commas THEN <<>> ELSE <<c[i]>>
      /\ PathItems(c) = FlattenSeq(z)
  BY <1>1, <1>5, ItemsAtIs
<1>7. PICK u : u = x \o y
  OBVIOUS
<1>8. JoinOf(u, x, y)
  BY <1>3, <1>4, <1>7, JoinIs
<1>9. Len(a) \in Nat /\ Len(b) \in Nat /\ Len(c) = Len(a) + Len(b) /\ Len(u) = Len(c)
  BY <1>2, <1>3, <1>4, <1>8, SeqDomain DEF JoinOf
<1>10. ASSUME NEW i \in 1..Len(c) PROVE z[i] = u[i]
  <2>1. CASE i <= Len(a)
    <3>1. i \in 1..Len(a) /\ i \in 1..Len(x)
      BY <1>3, <1>9, <2>1
    <3>2. c[i] = a[i] /\ u[i] = x[i]
      BY <1>2, <1>8, <3>1 DEF JoinOf
    <3> QED
      BY <1>3, <1>6, <3>1, <3>2
  <2>2. CASE i > Len(a)
    <3>1. PICK j : j = i - Len(a)
      OBVIOUS
    <3>2. j \in 1..Len(b) /\ j \in 1..Len(y) /\ i = Len(a) + j
      BY <1>4, <1>9, <2>2, <3>1
    <3>3. c[Len(a) + j] = b[j] /\ u[Len(x) + j] = y[j]
      BY <1>2, <1>8, <3>2 DEF JoinOf
    <3>4. c[i] = b[j] /\ u[i] = y[j]
      BY <1>3, <3>2, <3>3
    <3> QED
      BY <1>4, <1>6, <3>2, <3>4
  <2> QED
    BY <1>9, <2>1, <2>2
<1>11. z = u
  <2>1. IsSeq(u)
    BY <1>8 DEF JoinOf
  <2> QED
    BY <1>6, <1>9, <1>10, <2>1, SeqSame
<1>12. FlattenSeq(u) = FlattenSeq(x) \o FlattenSeq(y)
  BY <1>3, <1>4, <1>7, FlattenJoined
<1>13. IsSeq(FlattenSeq(x))
  BY <1>3, FlattenIsSeq
<1> QED
  BY <1>1, <1>3, <1>4, <1>6, <1>11, <1>12, <1>13

(* The items of nothing, and of one token.                                 *)
LEMMA PathItemOne ==
    ASSUME NEW x
    PROVE  /\ PathItems(<<>>) = <<>>
           /\ PathItems(<<x>>) = IF x.kind \in Commas THEN <<>> ELSE <<x>>
<1>1. PathItems(<<>>) = <<>>
  <2>1. PICK a, m : a = <<>> /\ m = ItemsAt(a)
    OBVIOUS
  <2>2. IsSeq(a) /\ Len(a) = 0
    BY <2>1, EmptyIsSeq
  <2>3. IsSeq(m) /\ Len(m) = Len(a) /\ PathItems(a) = FlattenSeq(m)
    BY <2>1, <2>2, ItemsAtIs
  <2>4. m = <<>>
    BY <2>2, <2>3, EmptyIsSeq
  <2>5. \A i \in 1..Len(a) : m[i] = <<a[i]>>
    BY <2>2
  <2>6. FlattenSeq(m) = a
    BY <2>2, <2>3, <2>5, FlattenSingles
  <2> QED
    BY <2>1, <2>3, <2>6
<1>2. PathItems(<<x>>) = IF x.kind \in Commas THEN <<>> ELSE <<x>>
  <2>1. PICK a, m, y : a = <<x>> /\ m = ItemsAt(a) /\ y = IF x.kind \in Commas THEN <<>> ELSE <<x>>
    OBVIOUS
  <2>2. IsSeq(a) /\ Len(a) = 1 /\ a[1] = x
    BY <2>1, OneSeq
  <2>3. /\ IsSeq(m) /\ Len(m) = Len(a) /\ PathItems(a) = FlattenSeq(m)
        /\ \A i \in 1..Len(a) : m[i] = IF a[i].kind \in Commas THEN <<>> ELSE <<a[i]>>
    BY <2>1, <2>2, ItemsAtIs
  <2>4. m[1] = y
    <3>1. 1 \in 1..Len(a)
      BY <2>2
    <3> QED
      BY <2>1, <2>2, <2>3, <3>1
  <2>5. m = <<y>>
    <3>1. PICK o : o = <<y>>
      OBVIOUS
    <3>2. IsSeq(o) /\ Len(o) = 1 /\ o[1] = y
      BY <3>1, OneSeq
    <3>3. \A i \in 1..Len(m) : m[i] = o[i]
      BY <2>2, <2>3, <2>4, <3>2
    <3> QED
      BY <2>2, <2>3, <3>1, <3>2, <3>3, SeqSame
  <2>6. IsSeq(y)
    BY <2>1, OneSeq, EmptyIsSeq
  <2>7. FlattenSeq(<<y>>) = y
    BY <2>6, FlattenOne
  <2> QED
    BY <2>1, <2>3, <2>5, <2>7
<1> QED
  BY <1>1, <1>2

-----------------------------------------------------------------------------
(* What is written of an operation, and the items of it.                   *)
Repeated(v, i) == i > 1 /\ v[i].code = v[i - 1].code
PathPiece(v, i) ==
    <<Mark(IF Repeated(v, i) THEN " " ELSE v[i].code)>> \o Listed(v[i].args, Comma)
OpItems(v, i) ==
    (IF Repeated(v, i) THEN <<>> ELSE <<Mark(v[i].code)>>) \o Shows(v[i].args)

(* The items of a list of arguments are its numbers; arguments that show   *)
(* the same are listed the same.                                           *)
LEMMA ArgsListed ==
    ASSUME NEW v \in Seq(Floats), NEW l, l = Listed(v, Comma)
    PROVE  /\ IsSeq(l) /\ PathItems(l) = Shows(v)
           /\ \A w : IsSeq(w) /\ Len(w) = Len(v) /\ (\A i \in 1..Len(v) : Shown(w[i]) = Shown(v[i]))
                 => Listed(w, Comma) = l
<1>1. IsSeq(v) /\ Len(v) \in Nat /\ DOMAIN v = 1..Len(v)
  BY SeqOfAny
<1>2. PICK marks : marks = CommaMarks(v)
  OBVIOUS
<1>3. l = ListOf(v, marks)
  BY <1>2, ListsAre
<1>4. IsList(l, v, marks)
  BY <1>1, <1>3, ListIs
<1>5. /\ IsSeq(l) /\ Len(l) = IF Len(v) = 0 THEN 0 ELSE 2 * Len(v) - 1
      /\ DOMAIN l = 1..Len(l)
  BY <1>4, SeqDomain DEF IsList
<1>6. ASSUME NEW i \in 1..Len(l) PROVE i \in Kinds(l) <=> i % 2 = 1
  <2>1. CASE i % 2 = 1
    <3>1. PICK k : k = (i + 1) \div 2
      OBVIOUS
    <3>2. k \in 1..Len(v) /\ 2 * k - 1 = i
      BY <1>1, <1>5, <2>1, <3>1
    <3>3. l[i] = Num(Shown(v[k]))
      BY <1>4, <3>2 DEF IsList
    <3>4. l[i].kind = "number"
      BY <3>3, NumIs
    <3> QED
      BY <1>5, <2>1, <3>4 DEF Kinds, Commas
  <2>2. CASE i % 2 # 1
    <3>1. PICK k : k = (i + 2) \div 2
      OBVIOUS
    <3>2. k \in 2..Len(v) /\ 2 * k - 2 = i /\ k \in 1..Len(v)
      BY <1>1, <1>5, <2>2, <3>1
    <3>3. l[i] = marks[k]
      BY <1>4, <3>2 DEF IsList
    <3>4. k \in DOMAIN v
      BY <1>1, <3>2
    <3>5. l[i] = Mark(",")
      BY <1>2, <3>3, <3>4 DEF CommaMarks
    <3>6. l[i].kind = ","
      BY <3>5, MarkIs
    <3> QED
      BY <2>2, <3>6 DEF Kinds, Commas
  <2> QED
    BY <2>1, <2>2
<1>7. Selected(l, Kinds(l)) = Shows(v)
  BY <1>1, <1>4, <1>6, ListSelected
<1>8. PathItems(l) = Shows(v)
  BY <1>7 DEF PathItems, Kinds
<1>9. ASSUME NEW w, IsSeq(w), Len(w) = Len(v), \A i \in 1..Len(v) : Shown(w[i]) = Shown(v[i])
      PROVE  Listed(w, Comma) = l
  <2>1. DOMAIN w = DOMAIN v
    BY <1>1, <1>9, SeqDomain
  <2>2. CommaMarks(w) = marks
    BY <1>2, <2>1 DEF CommaMarks
  <2>3. ListOf(w, marks) = ListOf(v, marks)
    BY <1>1, <1>9, ListSame
  <2>4. Listed(w, Comma) = ListOf(w, CommaMarks(w))
    BY ListsAre
  <2> QED
    BY <1>3, <2>2, <2>3, <2>4
<1> QED
  BY <1>5, <1>8, <1>9

(* The items of what is written of an operation.                           *)
LEMMA PieceItems ==
    ASSUME NEW v, NEW i, FineOp(v[i])
    PROVE  /\ IsSeq(PathPiece(v, i))
           /\ PathItems(PathPiece(v, i)) = OpItems(v, i)
           /\ IsSeq(OpItems(v, i))
<1>1. PICK x, y, l, s : /\ x = Mark(IF Repeated(v, i) THEN " " ELSE v[i].code)
                        /\ y = <<x>>
                        /\ l = Listed(v[i].args, Comma)
                        /\ s = Shows(v[i].args)
  OBVIOUS
<1>2. v[i].args \in Seq(Floats) /\ v[i].code \in Letters
  BY DEF FineOp
<1>3. IsSeq(l) /\ PathItems(l) = s
  BY <1>1, <1>2, ArgsListed
<1>4. IsSeq(y)
  BY <1>1, OneSeq
<1>5. PathPiece(v, i) = y \o l
  BY <1>1 DEF PathPiece
<1>6. IsSeq(y \o l)
  BY <1>3, <1>4, SeqJoined
<1>7. PathItems(y \o l) = PathItems(y) \o PathItems(l) /\ IsSeq(PathItems(y \o l))
  BY <1>3, <1>4, <1>6, PathItemsJoined
<1>8. PathItems(y) = IF Repeated(v, i) THEN <<>> ELSE <<Mark(v[i].code)>>
  <2>1. x.kind = IF Repeated(v, i) THEN " " ELSE v[i].code
    BY <1>1, MarkIs
  <2>2. v[i].code \notin Commas /\ " " \in Commas
    BY <1>2 DEF Letters, Commas
  <2>3. PathItems(y) = IF x.kind \in Commas THEN <<>> ELSE <<x>>
    BY <1>1, PathItemOne
  <2> QED
    BY <1>1, <2>1, <2>2, <2>3
<1>9. OpItems(v, i) = PathItems(y) \o PathItems(l)
  BY <1>1, <1>3, <1>8 DEF OpItems
<1> QED
  BY <1>5, <1>6, <1>7, <1>9

(* The items of what is written of a path.                                 *)
LEMMA WrittenItems ==
    ASSUME NEW v, FinePath(v)
    PROVE  \E h : /\ Joins(h, [i \in 1..Len(v) |-> OpItems(v, i)], Len(v))
                  /\ \A k \in 0..Len(v) : IsSeq(h[k])
                  /\ IsSeq(WritePath(v))
                  /\ PathItems(WritePath(v)) = h[Len(v)]
<1>1. PICK n : n = Len(v)
  OBVIOUS
<1>2. n \in Nat /\ DOMAIN v = 1..n /\ IsSeq(v) /\ \A i \in 1..n : FineOp(v[i])
  BY <1>1, SeqDomain DEF FinePath
<1>3. PICK p, q : p = [i \in 1..n |-> PathPiece(v, i)] /\ q = [i \in 1..n |-> OpItems(v, i)]
  OBVIOUS
<1>4. \A i \in 1..n : /\ IsSeq(p[i]) /\ IsSeq(q[i]) /\ PathItems(p[i]) = q[i]
                      /\ p[i] = PathPiece(v, i)
  BY <1>2, <1>3, PieceItems
<1>5. PICK f : Joins(f, p, n) /\ \A k \in 0..n : IsSeq(f[k])
  BY <1>2, <1>4, JoinsExist
<1>6. PICK h : Joins(h, q, n) /\ \A k \in 0..n : IsSeq(h[k])
  BY <1>2, <1>4, JoinsExist
<1>7. p = [i \in 1..n |-> p[i]]
  BY <1>3
<1>8. IsSeq(p) /\ Len(p) = n /\ DOMAIN p = 1..n
  BY <1>2, <1>7, SeqMade
<1>9. WritePath(v) = FlattenSeq(p)
  BY <1>2, <1>3 DEF WritePath, PathPiece, Repeated
<1>10. FlattenSeq(p) = f[n]
  BY <1>4, <1>5, <1>8, FlattenAll
<1>11. PICK T : T = {k \in 0..n : PathItems(f[k]) = h[k]}
  OBVIOUS
<1>12. 0 \in T
  <2>1. f[0] = <<>> /\ h[0] = <<>>
    BY <1>5, <1>6 DEF Joins
  <2>2. PathItems(f[0]) = h[0]
    <3>1. PathItems(<<>>) = <<>>
      BY PathItemOne
    <3> QED
      BY <2>1, <3>1
  <2>3. 0 \in 0..n
    BY <1>2
  <2> QED
    BY <1>11, <2>2, <2>3
<1>13. \A k \in 1..n : k - 1 \in T => k \in T
  <2> TAKE k \in 1..n
  <2> HAVE k - 1 \in T
  <2>1. PICK j : j = k - 1
    OBVIOUS
  <2>2. j \in 0..n /\ k \in 0..n
    BY <1>2, <2>1
  <2>3. f[k] = f[j] \o p[k] /\ h[k] = h[j] \o q[k]
    BY <1>5, <1>6, <2>1 DEF Joins
  <2>4. PathItems(f[j]) = h[j]
    <3>1. j \in T
      BY <2>1
    <3> QED
      BY <1>11, <3>1
  <2>5. IsSeq(f[j]) /\ IsSeq(p[k])
    BY <1>4, <1>5, <2>2
  <2>6. PathItems(f[j] \o p[k]) = PathItems(f[j]) \o PathItems(p[k])
    BY <2>5, PathItemsJoined
  <2> QED
    BY <1>4, <1>11, <2>2, <2>3, <2>4, <2>6
<1>14. 0..n \subseteq T
  BY <1>2, <1>12, <1>13, Upwards
<1>15. PathItems(f[n]) = h[n]
  BY <1>2, <1>11, <1>14
<1>16. IsSeq(f[n])
  BY <1>2, <1>5
<1> QED
  BY <1>1, <1>3, <1>6, <1>9, <1>10, <1>15, <1>16

-----------------------------------------------------------------------------
(* The first k of a sequence, and one more.                                *)
FirstPart(w, k) == [i \in 1..k |-> w[i]]

(* It is a sequence of its own.                                            *)
LEMMA FirstPartIs ==
    ASSUME NEW w, NEW k \in Nat
    PROVE  /\ IsSeq(FirstPart(w, k)) /\ Len(FirstPart(w, k)) = k
           /\ \A i \in 1..k : FirstPart(w, k)[i] = w[i]
<1>1. PICK s : s = FirstPart(w, k)
  OBVIOUS
<1>2. s = [i \in 1..k |-> s[i]] /\ \A i \in 1..k : s[i] = w[i]
  BY <1>1 DEF FirstPart
<1> QED
  BY <1>1, <1>2, SeqMade

(* One more is one more at the end,                                        *)
LEMMA FirstAppended ==
    ASSUME NEW w, NEW k \in Nat, k > 0, NEW x, x = w[k]
    PROVE  Append(FirstPart(w, k - 1), x) = FirstPart(w, k)
<1>1. PICK j, s, t, u : j = k - 1 /\ s = FirstPart(w, j) /\ t = FirstPart(w, k) /\ u = Append(s, x)
  OBVIOUS
<1>2. j \in Nat /\ k = j + 1
  BY <1>1
<1>3. IsSeq(s) /\ Len(s) = j /\ \A i \in 1..j : s[i] = w[i]
  BY <1>1, <1>2, FirstPartIs
<1>4. IsSeq(t) /\ Len(t) = k /\ \A i \in 1..k : t[i] = w[i]
  BY <1>1, FirstPartIs
<1>5. IsSeq(u) /\ Len(u) = j + 1 /\ (\A i \in 1..j : u[i] = s[i]) /\ u[j + 1] = x
  BY <1>1, <1>3, SeqAppended
<1>6. ASSUME NEW i \in 1..k PROVE u[i] = t[i]
  <2>1. i \in 1..j \/ i = j + 1
    BY <1>2
  <2> QED
    BY <1>2, <1>3, <1>4, <1>5, <2>1
<1>7. u = t
  BY <1>2, <1>4, <1>5, <1>6, SeqSame
<1> QED
  BY <1>1, <1>7

(* and the first 0 are none.                                               *)
LEMMA FirstNone == ASSUME NEW w PROVE FirstPart(w, 0) = <<>>
<1>1. IsSeq(FirstPart(w, 0)) /\ Len(FirstPart(w, 0)) = 0
  BY FirstPartIs
<1> QED
  BY <1>1, EmptyIsSeq

-----------------------------------------------------------------------------
(* How the items of an operation are scanned.                              *)
Scan(code, args, ops) == [code |-> code, args |-> args, ops |-> ops, fault |-> FALSE]

(* A state of the parser of which fields are changed.                     *)
ScanFields == {"code", "args", "ops", "fault"}

HasFields(s, code, args, ops) ==
    /\ s = [f \in ScanFields |-> s[f]]
    /\ s["code"] = code /\ s["args"] = args /\ s["ops"] = ops /\ s["fault"] = FALSE

(* A state of the parser is known by its fields.                           *)
LEMMA ScanIs ==
    ASSUME NEW code, NEW args, NEW ops, NEW s, HasFields(s, code, args, ops)
    PROVE  s = Scan(code, args, ops)
<1>1. PICK t : t = Scan(code, args, ops)
  OBVIOUS
<1>2. t = [f \in ScanFields |-> t[f]]
  BY <1>1 DEF Scan, ScanFields
<1>3. \A f \in ScanFields : s[f] = t[f]
  BY <1>1 DEF Scan, ScanFields, HasFields
<1>4. s = [f \in ScanFields |-> s[f]]
  BY DEF HasFields
<1> QED
  BY <1>1, <1>2, <1>3, <1>4

WithCode(s, c, o) == [s EXCEPT !.code = c, !.ops = o]
WithOp(s, a, o) == [s EXCEPT !.args = a, !.ops = o]
WithArgs(s, a) == [s EXCEPT !.args = a]

(* What a step changes of it.                                              *)
LEMMA ScanChanged ==
    ASSUME NEW code, NEW args, NEW ops, NEW s, s = Scan(code, args, ops)
    PROVE  /\ \A c, o : WithCode(s, c, o) = Scan(c, args, o)
           /\ \A a, o : WithOp(s, a, o) = Scan(code, a, o)
           /\ \A a : WithArgs(s, a) = Scan(code, a, ops)
<1> SUFFICES ASSUME NEW c, NEW a, NEW o
             PROVE  /\ WithCode(s, c, o) = Scan(c, args, o)
                    /\ WithOp(s, a, o) = Scan(code, a, o)
                    /\ WithArgs(s, a) = Scan(code, a, ops)
  OBVIOUS
<1>1. PICK u : u = [s EXCEPT !.code = c, !.ops = o]
  OBVIOUS
<1>2. PICK v : v = [s EXCEPT !.args = a, !.ops = o]
  OBVIOUS
<1>3. PICK w : w = [s EXCEPT !.args = a]
  OBVIOUS
<1>4. s = [f \in ScanFields |-> s[f]]
  BY DEF Scan, ScanFields
<1>5. s["code"] = code /\ s["args"] = args /\ s["ops"] = ops /\ s["fault"] = FALSE
  BY DEF Scan
<1>6. u = Scan(c, args, o)
  <2>1. u = [f \in ScanFields |-> u[f]]
    <3>1. u = [f \in DOMAIN s |-> u[f]]
      BY <1>1
    <3>2. DOMAIN s = ScanFields
      BY DEF Scan, ScanFields
    <3> QED
      BY <3>1, <3>2
  <2>2. u["code"] = c /\ u["args"] = args /\ u["ops"] = o /\ u["fault"] = FALSE
    BY <1>1, <1>4, <1>5 DEF ScanFields
  <2> QED
    <3>1. HasFields(u, c, args, o)
      BY <2>1, <2>2 DEF HasFields
    <3> QED
      BY <3>1, ScanIs
<1>7. v = Scan(code, a, o)
  <2>1. v = [f \in ScanFields |-> v[f]]
    <3>1. v = [f \in DOMAIN s |-> v[f]]
      BY <1>2
    <3>2. DOMAIN s = ScanFields
      BY DEF Scan, ScanFields
    <3> QED
      BY <3>1, <3>2
  <2>2. v["code"] = code /\ v["args"] = a /\ v["ops"] = o /\ v["fault"] = FALSE
    BY <1>2, <1>4, <1>5 DEF ScanFields
  <2> QED
    <3>1. HasFields(v, code, a, o)
      BY <2>1, <2>2 DEF HasFields
    <3> QED
      BY <3>1, ScanIs
<1>8. w = Scan(code, a, ops)
  <2>1. w = [f \in ScanFields |-> w[f]]
    <3>1. w = [f \in DOMAIN s |-> w[f]]
      BY <1>3
    <3>2. DOMAIN s = ScanFields
      BY DEF Scan, ScanFields
    <3> QED
      BY <3>1, <3>2
  <2>2. w["code"] = code /\ w["args"] = a /\ w["ops"] = ops /\ w["fault"] = FALSE
    BY <1>3, <1>4, <1>5 DEF ScanFields
  <2> QED
    <3>1. HasFields(w, code, a, ops)
      BY <2>1, <2>2 DEF HasFields
    <3> QED
      BY <3>1, ScanIs
<1> QED
  BY <1>1, <1>2, <1>3, <1>6, <1>7, <1>8 DEF WithCode, WithOp, WithArgs

(* A command is the one from then on, and closing is an operation of its   *)
(* own.                                                                    *)
LEMMA CommandScanned ==
    ASSUME NEW c, NEW ops, NEW code \in Letters
    PROVE  PathItem(Scan(c, <<>>, ops), Mark(code)) =
               Scan(code, <<>>, IF code = "Z" THEN Append(ops, Op("Z", <<>>)) ELSE ops)
<1>1. Mark(code).kind = code /\ code # "number" /\ code # "z"
  BY MarkIs DEF Letters
<1>2. ~IsNum(Mark(code)) /\ Opcode(code) = code
  BY <1>1 DEF IsNum, Opcode
<1>3. PICK st : st = Scan(c, <<>>, ops)
  OBVIOUS
<1>4. PathItem(st, Mark(code)) = PathCommand(st, code)
  BY <1>1, <1>2, <1>3 DEF PathItem, Scan
<1>5. PathCommand(st, code) =
         Scan(code, <<>>, IF code = "Z" THEN Append(ops, Op("Z", <<>>)) ELSE ops)
  <2>1. PICK o : o = IF code = "Z" THEN Append(ops, Op("Z", <<>>)) ELSE ops
    OBVIOUS
  <2>2. st.ops = ops
    BY <1>3 DEF Scan
  <2>3. (IF code = "Z" THEN Append(ops, Op(code, <<>>)) ELSE ops) = o
    BY <2>1
  <2>4. PathCommand(st, code) = [st EXCEPT !.code = code, !.ops = o]
    BY <1>2, <2>2, <2>3 DEF PathCommand
  <2>5. WithCode(st, code, o) = Scan(code, <<>>, o)
    BY <1>3, ScanChanged
  <2> QED
    BY <2>1, <2>4, <2>5 DEF WithCode
<1> QED
  BY <1>3, <1>4, <1>5

(* The state behind the jth number of an operation.                        *)
ScanAfter(code, w, ops, count, j) ==
    IF j = count THEN Scan(code, <<>>, Append(ops, Op(code, FirstPart(w, count))))
    ELSE Scan(code, FirstPart(w, j), ops)

(* A number is an argument more, and the last one makes the operation.     *)
LEMMA NumberScanned ==
    ASSUME NEW code, NEW w, NEW ops, NEW count \in Nat, ArgCount(code) = count,
           NEW j \in 1..count, NEW x, Float(x) = w[j],
           NEW st, st = Scan(code, FirstPart(w, j - 1), ops)
    PROVE  PathItem(st, Num(x)) = ScanAfter(code, w, ops, count, j)
<1>1. IsNum(Num(x)) /\ Atof(Num(x)) = w[j]
  BY NumIs
<1>2. PICK args : args = FirstPart(w, j)
  OBVIOUS
<1>3. /\ st.code = code /\ st.args = FirstPart(w, j - 1) /\ st.ops = ops /\ st.fault = FALSE
      /\ st = [code |-> code, args |-> st.args, ops |-> ops, fault |-> FALSE]
  BY <1>2 DEF Scan
<1>4. Append(st.args, w[j]) = args
  BY <1>2, <1>3, FirstAppended
<1>5. Len(args) = j /\ j # 0
  BY <1>2, FirstPartIs
<1>6. PathItem(st, Num(x)) = PathNumber(st, w[j])
  BY <1>1, <1>3 DEF PathItem
<1>7. CASE j = count
  <2>1. ArgCount(st.code) = Len(args) /\ ArgCount(st.code) # 0
    BY <1>3, <1>5, <1>7
  <2>2. PathNumber(st, w[j]) = [st EXCEPT !.args = <<>>, !.ops = Append(@, Op(st.code, args))]
    BY <1>4, <2>1 DEF PathNumber
  <2>3. PICK o : o = Append(ops, Op(code, args))
    OBVIOUS
  <2>4. PathNumber(st, w[j]) = WithOp(st, <<>>, o)
    BY <1>3, <2>2, <2>3 DEF WithOp
  <2>5. WithOp(st, <<>>, o) = Scan(code, <<>>, o)
    <3>1. PICK none : none = <<>>
      OBVIOUS
    <3>2. WithOp(st, none, o) = Scan(code, none, o)
      BY ScanChanged
    <3> QED
      BY <3>1, <3>2
  <2> QED
    BY <1>2, <1>6, <1>7, <2>3, <2>4, <2>5 DEF ScanAfter
<1>8. CASE j # count
  <2>1. ArgCount(st.code) # Len(args) /\ ArgCount(st.code) # 0
    BY <1>3, <1>5, <1>8
  <2>2. PathNumber(st, w[j]) = [st EXCEPT !.args = args]
    BY <1>4, <2>1 DEF PathNumber
  <2>3. PathNumber(st, w[j]) = WithArgs(st, args)
    BY <2>2 DEF WithArgs
  <2>4. WithArgs(st, args) = Scan(code, args, ops)
    BY <1>2, ScanChanged
  <2> QED
    BY <1>2, <1>6, <1>8, <2>3, <2>4 DEF ScanAfter
<1> QED
  BY <1>7, <1>8

(* The numbers of an operation, which are behind the pth item.             *)
NumbersBehind(g, items, p, v, count) ==
    /\ \A j \in 1..count : g[p + j] = PathItem(g[p + j - 1], items[p + j])
    /\ \A j \in 1..count : items[p + j] = Num(Shown(v[j]))

(* The state before them, in which the numbers are still to come.          *)
OpAhead(code, v, ops, count, w, g, items, p) ==
    /\ count \in Nat /\ count > 0 /\ ArgCount(code) = count
    /\ \A j \in 1..count : w[j] = Float(Shown(v[j]))
    /\ p \in Nat /\ NumbersBehind(g, items, p, v, count)
    /\ g[p] = Scan(code, <<>>, ops)

(* So the numbers of an operation make the operation.                      *)
LEMMA OpScanned ==
    ASSUME NEW code, NEW v, NEW ops, NEW count, NEW w, NEW g, NEW items, NEW p,
           OpAhead(code, v, ops, count, w, g, items, p)
    PROVE  g[p + count] = Scan(code, <<>>, Append(ops, Op(code, FirstPart(w, count))))
<1> SUFFICES ASSUME count \in Nat, count > 0, ArgCount(code) = count,
                    \A j \in 1..count : w[j] = Float(Shown(v[j])),
                    p \in Nat, NumbersBehind(g, items, p, v, count),
                    g[p] = Scan(code, <<>>, ops)
             PROVE  g[p + count] = Scan(code, <<>>, Append(ops, Op(code, FirstPart(w, count))))
  BY DEF OpAhead
<1>1. PICK after : after = [j \in 0..count |-> ScanAfter(code, w, ops, count, j)]
  OBVIOUS
<1>2. PICK T : T = {j \in 0..count : g[p + j] = after[j]}
  OBVIOUS
<1>3. 0 \in T
  <2>1. 0 \in 0..count /\ 0 # count /\ p + 0 = p
    OBVIOUS
  <2>2. after[0] = Scan(code, FirstPart(w, 0), ops)
    BY <1>1, <2>1 DEF ScanAfter
  <2>3. after[0] = g[p + 0]
    <3>1. FirstPart(w, 0) = <<>>
      BY FirstNone
    <3>2. after[0] = Scan(code, <<>>, ops)
      BY <2>2, <3>1
    <3>3. g[p + 0] = g[p]
      BY <2>1
    <3> QED
      BY <3>2, <3>3
  <2> QED
    BY <1>2, <2>1, <2>3
<1>4. \A j \in 1..count : j - 1 \in T => j \in T
  <2> TAKE j \in 1..count
  <2> HAVE j - 1 \in T
  <2>1. j - 1 \in 0..count /\ j - 1 # count /\ j \in 0..count /\ p + (j - 1) = p + j - 1
    OBVIOUS
  <2>2. PICK st, x : st = g[p + j - 1] /\ x = Shown(v[j])
    OBVIOUS
  <2>3. st = Scan(code, FirstPart(w, j - 1), ops)
    <3>1. after[j - 1] = Scan(code, FirstPart(w, j - 1), ops)
      BY <1>1, <2>1 DEF ScanAfter
    <3>2. g[p + (j - 1)] = after[j - 1]
      BY <1>2
    <3> QED
      BY <2>1, <2>2, <3>1, <3>2
  <2>4. g[p + j] = PathItem(st, Num(x))
    BY <2>2 DEF NumbersBehind
  <2>5. Float(x) = w[j]
    BY <2>2
  <2>6. PathItem(st, Num(x)) = ScanAfter(code, w, ops, count, j)
    BY <2>3, <2>5, NumberScanned
  <2> QED
    BY <1>1, <1>2, <2>1, <2>4, <2>6
<1>5. 0..count \subseteq T
  BY <1>3, <1>4, Upwards
<1>6. count \in T /\ count \in 0..count
  BY <1>5
<1>7. g[p + count] = after[count]
  BY <1>2, <1>6
<1> QED
  BY <1>1, <1>6, <1>7 DEF ScanAfter

-----------------------------------------------------------------------------
(* The numbers of an operation as they are read again.                     *)
FloatsAgain(a) == FirstPart([k \in 1..Len(a) |-> Float(Shown(a[k]))], Len(a))
OpAgain(op) == Op(op.code, FloatsAgain(op.args))

(* They show as they were shown.                                           *)
LEMMA FloatsAgainIs ==
    ASSUME NEW a \in Seq(Floats)
    PROVE  /\ IsSeq(FloatsAgain(a)) /\ Len(FloatsAgain(a)) = Len(a)
           /\ \A k \in 1..Len(a) : Shown(FloatsAgain(a)[k]) = Shown(a[k])
<1>1. PICK w : w = [k \in 1..Len(a) |-> Float(Shown(a[k]))]
  OBVIOUS
<1>5. PICK s : s = FirstPart(w, Len(a))
  OBVIOUS
<1>2. IsSeq(s) /\ Len(s) = Len(a) /\ \A k \in 1..Len(a) : s[k] = w[k]
  <2>1. PICK n : n = Len(a)
    OBVIOUS
  <2>2. n \in Nat /\ s = FirstPart(w, n)
    BY <1>5, <2>1
  <2>3. IsSeq(s) /\ Len(s) = n /\ \A k \in 1..n : s[k] = w[k]
    BY <2>2, FirstPartIs
  <2> QED
    BY <2>1, <2>3
<1>3. ASSUME NEW k \in 1..Len(a) PROVE Shown(s[k]) = Shown(a[k])
  <2>1. a[k] \in Floats /\ s[k] = Float(Shown(a[k]))
    <3>1. a[k] \in Floats
      OBVIOUS
    <3>2. w[k] = Float(Shown(a[k]))
      BY <1>1
    <3>3. s[k] = w[k]
      BY <1>2
    <3> QED
      BY <3>1, <3>2, <3>3
  <2> QED
    BY <2>1, FloatAgain
<1>4. s = FloatsAgain(a)
  BY <1>1, <1>5 DEF FloatsAgain
<1> QED
  BY <1>2, <1>3, <1>4

CodeAt(v, k) == IF k = 0 THEN "none" ELSE v[k].code

(* A path is not closed twice in a row. *)
ClosedOnce(v) == \A i \in DOMAIN v : i > 1 => ~ (v[i].code = "Z" /\ v[i - 1].code = "Z")

(* The items behind the mth are those of q.                                *)
ItemsFollow(g, items, m, q) ==
    \A x \in 1..Len(q) : g[m + x] = PathItem(g[m + x - 1], items[m + x]) /\ items[m + x] = q[x]

(* From the items of an operation the operation is made.                   *)
LEMMA NextOpScanned ==
    ASSUME NEW v, FinePath(v), ClosedOnce(v), NEW k \in 1..Len(v),
           NEW g, NEW items, NEW m \in Nat, NEW q, q = OpItems(v, k),
           ItemsFollow(g, items, m, q),
           NEW ops, g[m] = Scan(CodeAt(v, k - 1), <<>>, ops)
    PROVE  g[m + Len(q)] = Scan(v[k].code, <<>>, Append(ops, OpAgain(v[k])))
<1>1. PICK code, a, count : code = v[k].code /\ a = v[k].args /\ count = Len(a)
  OBVIOUS
<1>2. code \in Letters /\ a \in Seq(Floats) /\ ArgCount(code) = count /\ count \in Nat
  <2>1. FineOp(v[k])
    BY DEF FinePath
  <2>2. code \in Letters /\ a \in Seq(Floats) /\ Len(a) = ArgCount(code)
    BY <1>1, <2>1 DEF FineOp
  <2> QED
    BY <1>1, <2>2
<1>3. IsSeq(a) /\ IsSeq(Shows(a)) /\ Len(Shows(a)) = count
      /\ \A j \in 1..count : Shows(a)[j] = Num(Shown(a[j]))
  <2>1. IsSeq(a)
    BY <1>2, SeqOfAny
  <2> QED
    BY <1>1, <2>1, ShowsIs
<1>4. count = 0 <=> code = "Z"
  <2>1. code \in Codes /\ code # "none"
    BY <1>2 DEF Codes, Letters
  <2> QED
    BY <1>2, <2>1, CountOf
<1>5. PICK w : w = [j \in 1..count |-> Float(Shown(a[j]))]
  OBVIOUS
<1>6. OpAgain(v[k]) = Op(code, FirstPart(w, count))
  BY <1>1, <1>5 DEF OpAgain, FloatsAgain
<1>7. \A j \in 1..count : w[j] = Float(Shown(a[j]))
  BY <1>5
<1>8. CASE Repeated(v, k)
  <2>1. CodeAt(v, k - 1) = code /\ code # "Z"
    <3>1. k > 1 /\ k - 1 # 0 /\ v[k - 1].code = code
      BY <1>1, <1>8 DEF Repeated
    <3>2. k \in DOMAIN v
      BY SeqDomain DEF FinePath
    <3>3. ~ (v[k].code = "Z" /\ v[k - 1].code = "Z")
      BY <3>1, <3>2 DEF ClosedOnce
    <3> QED
      BY <1>1, <3>1, <3>3 DEF CodeAt
  <2>2. q = Shows(a)
    <3>1. q = <<>> \o Shows(a)
      BY <1>1, <1>8 DEF OpItems
    <3> QED
      BY <1>3, <3>1, NoneJoined
  <2>3. Len(q) = count /\ \A j \in 1..count : q[j] = Num(Shown(a[j]))
    BY <1>3, <2>2
  <2>4. NumbersBehind(g, items, m, a, count)
    BY <2>3 DEF NumbersBehind, ItemsFollow
  <2>5. count > 0
    BY <1>2, <1>4, <2>1
  <2>6. g[m] = Scan(code, <<>>, ops)
    BY <2>1
  <2>7. g[m + count] = Scan(code, <<>>, Append(ops, Op(code, FirstPart(w, count))))
    <3>1. OpAhead(code, a, ops, count, w, g, items, m)
      BY <1>2, <1>7, <2>4, <2>5, <2>6 DEF OpAhead
    <3> QED
      BY <3>1, OpScanned
  <2> QED
    BY <1>1, <1>6, <2>3, <2>7
<1>9. CASE ~Repeated(v, k)
  <2>1. PICK x, u : x = Mark(code) /\ u = Shows(a)
    OBVIOUS
  <2>2. PutBefore(q, x, u)
    BY <1>1, <1>9, <2>1 DEF OpItems, PutBefore
  <2>3. Prefixed(q, x, u)
    BY <1>3, <2>1, <2>2, Prepended
  <2>4. Len(q) = count + 1 /\ q[1] = x /\ \A j \in 1..count : q[j + 1] = Num(Shown(a[j]))
    BY <1>3, <2>1, <2>3 DEF Prefixed
  <2>5. PICK p : p = m + 1
    OBVIOUS
  <2>6. p \in Nat /\ m + Len(q) = p + count
    BY <1>2, <2>4, <2>5
  <2>7. g[p] = Scan(code, <<>>, IF code = "Z" THEN Append(ops, Op("Z", <<>>)) ELSE ops)
    <3>1. 1 \in 1..Len(q) /\ m + 1 - 1 = m
      BY <1>2, <2>4
    <3>2. g[m + 1] = PathItem(g[m + 1 - 1], items[m + 1]) /\ items[m + 1] = q[1]
      BY <3>1 DEF ItemsFollow
    <3>3. g[p] = PathItem(g[m], Mark(code))
      BY <2>1, <2>4, <2>5, <3>1, <3>2
    <3>4. PICK c : c = CodeAt(v, k - 1)
      OBVIOUS
    <3>5. PathItem(Scan(c, <<>>, ops), Mark(code)) =
             Scan(code, <<>>, IF code = "Z" THEN Append(ops, Op("Z", <<>>)) ELSE ops)
      BY <1>2, CommandScanned
    <3> QED
      BY <3>3, <3>4, <3>5
  <2>8. CASE code = "Z"
    <3>1. count = 0
      BY <1>4, <2>8
    <3>2. FirstPart(w, count) = <<>>
      BY <3>1, FirstNone
    <3>3. g[p] = Scan(code, <<>>, Append(ops, OpAgain(v[k])))
      BY <1>6, <2>7, <2>8, <3>2
    <3>4. m + Len(q) = p
      BY <2>6, <3>1
    <3> QED
      BY <1>1, <3>3, <3>4
  <2>9. CASE code # "Z"
    <3>1. count > 0
      BY <1>2, <1>4, <2>9
    <3>2. g[p] = Scan(code, <<>>, ops)
      BY <2>7, <2>9
    <3>3. NumbersBehind(g, items, p, a, count)
      <4>1. ASSUME NEW j \in 1..count
            PROVE  g[p + j] = PathItem(g[p + j - 1], items[p + j]) /\ items[p + j] = Num(Shown(a[j]))
        <5>1. PICK y : y = j + 1
          OBVIOUS
        <5>2. y \in 1..Len(q) /\ m + y = p + j /\ m + y - 1 = p + j - 1
          BY <1>2, <2>4, <2>5, <5>1
        <5>3. g[m + y] = PathItem(g[m + y - 1], items[m + y]) /\ items[m + y] = q[y]
          BY <5>2 DEF ItemsFollow
        <5>4. q[y] = Num(Shown(a[j]))
          BY <2>4, <5>1
        <5> QED
          BY <5>2, <5>3, <5>4
      <4> QED
        BY <4>1 DEF NumbersBehind
    <3>4. g[p + count] = Scan(code, <<>>, Append(ops, Op(code, FirstPart(w, count))))
      <4>1. p \in Nat
        BY <2>6
      <4>2. count \in Nat /\ ArgCount(code) = count
        BY <1>2
      <4> QED
        <5>1. OpAhead(code, a, ops, count, w, g, items, p)
          BY <1>7, <3>1, <3>2, <3>3, <4>1, <4>2 DEF OpAhead
        <5> QED
          BY <5>1, OpScanned
    <3> QED
      BY <1>1, <1>6, <2>6, <3>4
  <2> QED
    BY <2>8, <2>9
<1> QED
  BY <1>8, <1>9

PathAgainOps(v) == [i \in 1..Len(v) |-> OpAgain(v[i])]

(* The items that were written of a path make its operations again.        *)
LEMMA PathScanned ==
    ASSUME NEW v, FinePath(v), ClosedOnce(v), NEW n, n = Len(v),
           NEW q, q = [i \in 1..n |-> OpItems(v, i)],
           NEW h, Joins(h, q, n), \A k \in 0..n : IsSeq(h[k]),
           NEW items, items = h[n], NEW g, Scanned(g, items)
    PROVE  g[Len(items)] = Scan(CodeAt(v, n), <<>>, FirstPart(PathAgainOps(v), n))
<1>1. n \in Nat /\ \A i \in 1..n : FineOp(v[i])
  BY SeqDomain DEF FinePath
<1>2. \A i \in 1..n : q[i] = OpItems(v, i) /\ IsSeq(q[i])
  BY <1>1, PieceItems
<1>3. Joined(h, q, n)
  BY <1>1, <1>2, JoinsHold
<1>4. PICK w : w = PathAgainOps(v)
  OBVIOUS
<1>5. PICK T : T = {k \in 0..n : g[Len(h[k])] = Scan(CodeAt(v, k), <<>>, FirstPart(w, k))}
  OBVIOUS
<1>6. 0 \in T
  <2>1. h[0] = <<>> /\ 0 \in 0..n
    BY <1>1 DEF Joins
  <2>2. Len(h[0]) = 0
    BY <2>1, EmptyIsSeq
  <2>3. g[0] = Scan("none", <<>>, <<>>)
    BY DEF Scanned, FirstScan, Scan
  <2>4. FirstPart(w, 0) = <<>> /\ CodeAt(v, 0) = "none"
    BY FirstNone DEF CodeAt
  <2> QED
    BY <1>5, <2>1, <2>2, <2>3, <2>4
<1>7. \A k \in 1..n : k - 1 \in T => k \in T
  <2> TAKE k \in 1..n
  <2> HAVE k - 1 \in T
  <2>1. PICK j, m, p : j = k - 1 /\ m = Len(h[j]) /\ p = q[k]
    OBVIOUS
  <2>2. j \in T /\ j \in 0..n /\ k \in 0..n /\ j \in Nat
    BY <1>1, <2>1
  <2>3. /\ m \in Nat /\ Len(h[k]) = m + Len(p) /\ Len(h[k]) <= Len(items)
        /\ \A x \in 1..Len(p) : items[m + x] = p[x]
    <3>1. m \in Nat
      BY <1>3, <2>1, <2>2 DEF Joined
    <3>2. Len(h[k]) = m + Len(p)
      BY <1>3, <2>1 DEF Joined
    <3>3. Len(h[k]) <= Len(items)
      <4>1. n \in k..n
        BY <1>1
      <4> QED
        BY <1>3, <2>2, <4>1 DEF Joined
    <3>4. \A x \in 1..Len(q[k]) : h[n][Len(h[k - 1]) + x] = q[k][x]
      BY <1>3 DEF Joined
    <3> QED
      BY <2>1, <3>1, <3>2, <3>3, <3>4
  <2>4. ItemsFollow(g, items, m, p)
    <3>1. ASSUME NEW x \in 1..Len(p)
          PROVE  g[m + x] = PathItem(g[m + x - 1], items[m + x])
      <4>1. Len(p) \in Nat /\ Len(items) \in Nat
        <5>1. IsSeq(p)
          BY <1>2, <2>1
        <5>2. IsSeq(items)
          BY <1>1
        <5> QED
          BY <5>1, <5>2, SeqDomain
      <4>2. PICK e : e = m + x
        OBVIOUS
      <4>3. e \in 1..Len(items)
        BY <2>3, <4>1, <4>2
      <4>4. g[e] = PathItem(g[e - 1], items[e])
        BY <4>3 DEF Scanned
      <4>5. m + x = e /\ m + x - 1 = e - 1
        BY <2>3, <4>2
      <4> QED
        BY <4>4, <4>5
    <3> QED
      BY <2>3, <3>1 DEF ItemsFollow
  <2>5. PICK ops : ops = FirstPart(w, j)
    OBVIOUS
  <2>6. g[m] = Scan(CodeAt(v, j), <<>>, ops)
    BY <1>5, <2>1, <2>2, <2>5
  <2>7. p = OpItems(v, k) /\ k \in 1..Len(v)
    BY <1>2, <2>1
  <2>8. g[m] = Scan(CodeAt(v, k - 1), <<>>, ops)
    BY <2>1, <2>6
  <2>9. g[m + Len(p)] = Scan(v[k].code, <<>>, Append(ops, OpAgain(v[k])))
    <3>1. m \in Nat /\ p = OpItems(v, k)
      BY <2>3, <2>7
    <3> QED
      BY <2>4, <2>7, <2>8, <3>1, NextOpScanned
  <2>10. Append(ops, OpAgain(v[k])) = FirstPart(w, k)
    <3>1. PICK x : x = OpAgain(v[k])
      OBVIOUS
    <3>2. x = w[k]
      BY <1>4, <2>7, <3>1 DEF PathAgainOps
    <3>3. Append(FirstPart(w, k - 1), x) = FirstPart(w, k)
      BY <3>2, FirstAppended
    <3> QED
      BY <2>1, <2>5, <3>1, <3>3
  <2>11. CodeAt(v, k) = v[k].code
    BY DEF CodeAt
  <2> QED
    BY <1>5, <2>2, <2>3, <2>9, <2>10, <2>11
<1>8. 0..n \subseteq T
  BY <1>1, <1>6, <1>7, Upwards
<1>9. n \in T
  BY <1>1, <1>8
<1> QED
  BY <1>4, <1>5, <1>9

(* The tokens of a path are read as floats.                                *)
LEMMA PathTokens ==
    ASSUME NEW v, FinePath(v), NEW k \in 1..Len(v), NEW q, q = OpItems(v, k)
    PROVE  \A x \in 1..Len(q) : Atof(q[x]) \in Floats
<1>1. PICK a : a = v[k].args
  OBVIOUS
<1>2. a \in Seq(Floats)
  BY <1>1 DEF FinePath, FineOp
<1>3. IsSeq(a) /\ Len(a) \in Nat /\ \A j \in 1..Len(a) : a[j] \in Floats
  BY <1>2, SeqOfAny
<1>4. PICK s : s = Shows(a)
  OBVIOUS
<1>5. IsSeq(s) /\ Len(s) = Len(a) /\ \A j \in 1..Len(a) : s[j] = Num(Shown(a[j]))
  BY <1>3, <1>4, ShowsIs
<1>6. ASSUME NEW j \in 1..Len(a) PROVE Atof(s[j]) \in Floats
  <2>1. PICK x : x = a[j]
    OBVIOUS
  <2>2. x \in Int /\ Abs(x) <= 1000000000 /\ Float(x) = x
    BY <1>3, <2>1 DEF Floats
  <2>3. Shown(x) \in Int /\ Abs(Shown(x)) <= 1000000000
    <3>1. CASE x \in Nat
      <4>1. x <= 1000000000
        BY <2>2, <3>1 DEF Abs
      <4>2. Shown(x) \in Nat /\ Shown(x) <= 1000000000
        BY <2>2, <3>1, <4>1, ShownAgainNat
      <4> QED
        BY <4>2 DEF Abs
    <3>2. CASE x \notin Nat
      <4>1. PICK y : y = -x
        OBVIOUS
      <4>2. y \in Nat /\ y <= 1000000000 /\ x = -y
        BY <2>2, <3>2, <4>1 DEF Abs
      <4>3. Float(-y) = -Float(y) /\ Shown(-y) = -Shown(y)
        BY <4>2, RoundNegative
      <4>4. Float(y) \in Nat
        BY <4>2, FloatNat
      <4>5. Float(y) = y
        BY <2>2, <4>2, <4>3, <4>4
      <4>6. Shown(y) \in Nat /\ Shown(y) <= 1000000000
        BY <4>2, <4>5, ShownAgainNat
      <4>7. Shown(x) = -Shown(y)
        BY <4>2, <4>3
      <4> QED
        BY <4>6, <4>7 DEF Abs
    <3> QED
      BY <3>1, <3>2
  <2>4. Atof(s[j]) = Float(Shown(x))
    BY <1>5, <2>1, NumIs
  <2> QED
    BY <2>3, <2>4, FloatIsFloat
<1>7. \A y : Atof(Mark(y)) \in Floats \/ y = "number"
  BY MarkIs, ZeroFloat DEF Atof, IsNum
<1>8. CASE Repeated(v, k)
  <2>1. q = <<>> \o s
    BY <1>1, <1>4, <1>8 DEF OpItems
  <2>2. q = s
    BY <1>5, <2>1, NoneJoined
  <2> QED
    BY <1>5, <1>6, <2>2
<1>9. CASE ~Repeated(v, k)
  <2>1. PICK code : code = v[k].code
    OBVIOUS
  <2>2. code # "number"
    <3>1. code \in Letters
      BY <2>1 DEF FinePath, FineOp
    <3> QED
      BY <3>1 DEF Letters
  <2>3. PutBefore(q, Mark(code), s)
    BY <1>1, <1>4, <1>9, <2>1 DEF OpItems, PutBefore
  <2>4. Prefixed(q, Mark(code), s)
    BY <1>5, <2>3, Prepended
  <2>5. ASSUME NEW x \in 1..Len(q) PROVE Atof(q[x]) \in Floats
    <3>1. CASE x = 1
      <4>1. q[x] = Mark(code)
        BY <2>4, <3>1 DEF Prefixed
      <4> QED
        BY <1>7, <2>2, <4>1
    <3>2. CASE x # 1
      <4>1. PICK j : j = x - 1
        OBVIOUS
      <4>2. j \in 1..Len(s) /\ x = j + 1
        BY <2>4, <3>2, <4>1 DEF Prefixed
      <4>3. q[j + 1] = s[j]
        BY <2>4, <4>2 DEF Prefixed
      <4> QED
        BY <1>5, <1>6, <4>2, <4>3
    <3> QED
      BY <3>1, <3>2
  <2> QED
    BY <2>5
<1> QED
  BY <1>8, <1>9

(* So a path is read again as it was written, and without a fault.         *)
LEMMA PathAgain ==
    ASSUME NEW v, FinePath(v), ClosedOnce(v), NEW t, t = WritePath(v)
    PROVE  ~ScanPath(t).fault /\ WritePath(ParsePath(t)) = t
<1>1. PICK n, q : n = Len(v) /\ q = [i \in 1..n |-> OpItems(v, i)]
  OBVIOUS
<1>2. n \in Nat /\ DOMAIN v = 1..n /\ \A i \in 1..n : FineOp(v[i])
  BY <1>1, SeqDomain DEF FinePath
<1>3. PICK h : /\ Joins(h, q, n)
               /\ \A k \in 0..n : IsSeq(h[k])
               /\ IsSeq(t)
               /\ PathItems(t) = h[n]
  BY <1>1, WrittenItems
<1>4. PICK items : items = PathItems(t)
  OBVIOUS
<1>5. IsSeq(items) /\ Len(items) \in Nat
  <2>1. IsSeq(h[n])
    BY <1>2, <1>3
  <2> QED
    BY <1>3, <1>4, <2>1, SeqDomain
<1>6. \A k \in 1..Len(items) : Atof(items[k]) \in Floats
  <2>1. PICK T : T = {k \in 0..n : \A x \in 1..Len(h[k]) : Atof(h[k][x]) \in Floats}
    OBVIOUS
  <2>2. 0 \in T
    <3>1. Len(h[0]) = 0
      BY <1>3, EmptyIsSeq DEF Joins
    <3> QED
      BY <1>2, <2>1, <3>1
  <2>3. \A k \in 1..n : k - 1 \in T => k \in T
    <3> TAKE k \in 1..n
    <3> HAVE k - 1 \in T
    <3>1. PICK a, b, c : a = h[k - 1] /\ b = q[k] /\ c = h[k]
      OBVIOUS
    <3>2. c = a \o b
      BY <1>3, <3>1 DEF Joins
    <3>3. \A x \in 1..Len(a) : Atof(a[x]) \in Floats
      BY <2>1, <3>1
    <3>4. b = OpItems(v, k) /\ IsSeq(b)
      <4>1. b = OpItems(v, k)
        BY <1>1, <3>1
      <4>2. FineOp(v[k])
        BY <1>2
      <4> QED
        BY <4>1, <4>2, PieceItems
    <3>5. \A x \in 1..Len(b) : Atof(b[x]) \in Floats
      BY <1>1, <3>4, PathTokens
    <3>6. IsSeq(a)
      <4>1. k - 1 \in 0..n
        BY <1>2
      <4> QED
        BY <1>3, <3>1, <4>1
    <3>7. JoinOf(c, a, b)
      BY <3>2, <3>4, <3>6, JoinIs
    <3>8. Len(a) \in Nat /\ Len(b) \in Nat
      BY <3>4, <3>6, SeqDomain
    <3>9. ASSUME NEW x \in 1..Len(c) PROVE Atof(c[x]) \in Floats
      <4>1. Len(c) = Len(a) + Len(b)
        BY <3>7 DEF JoinOf
      <4>2. CASE x <= Len(a)
        <5>1. x \in 1..Len(a)
          BY <3>8, <4>1, <4>2
        <5>2. c[x] = a[x]
          BY <3>7, <5>1 DEF JoinOf
        <5> QED
          BY <3>3, <5>1, <5>2
      <4>3. CASE x > Len(a)
        <5>1. PICK y : y = x - Len(a)
          OBVIOUS
        <5>2. y \in 1..Len(b) /\ x = Len(a) + y
          BY <3>8, <4>1, <4>3, <5>1
        <5>3. c[Len(a) + y] = b[y]
          BY <3>7, <5>2 DEF JoinOf
        <5> QED
          BY <3>5, <5>2, <5>3
      <4> QED
        BY <3>8, <4>1, <4>2, <4>3
    <3> QED
      BY <1>2, <2>1, <3>1, <3>9
  <2>4. 0..n \subseteq T
    BY <1>2, <2>2, <2>3, Upwards
  <2>5. n \in T
    BY <1>2, <2>4
  <2> QED
    BY <1>3, <1>4, <2>1, <2>5
<1>7. FirstScan \in ScanSet
  <2>1. <<>> \in Seq(Floats) /\ <<>> \in Seq(OpSet)
    OBVIOUS
  <2> QED
    BY <2>1 DEF FirstScan, ScanSet, Codes
<1>8. \A k \in 1..Len(items) : \A st \in ScanSet : PathItem(st, items[k]) \in ScanSet
  BY <1>6, ItemScanned
<1>9. PICK g : Scanned(g, items) /\ ScanPath(t) = g[Len(items)]
  <2> PICK V : V = ScanSet
    OBVIOUS
  <2> QED
    BY <1>3, <1>4, <1>7, <1>8, ScanPathIn
<1>10. PICK w, u : w = PathAgainOps(v) /\ u = FirstPart(w, n)
  OBVIOUS
<1>11. ScanPath(t) = Scan(CodeAt(v, n), <<>>, u)
  <2>1. items = h[n]
    BY <1>3, <1>4
  <2>2. g[Len(items)] = Scan(CodeAt(v, n), <<>>, FirstPart(PathAgainOps(v), n))
    BY <1>1, <1>3, <1>9, <2>1, PathScanned
  <2> QED
    BY <1>9, <1>10, <2>2
<1>12. ~ScanPath(t).fault /\ ParsePath(t) = u
  BY <1>11 DEF Scan, ParsePath
<1>13. IsSeq(u) /\ Len(u) = n /\ DOMAIN u = 1..n
  BY <1>2, <1>10, FirstPartIs, SeqDomain
<1>14. ASSUME NEW i \in 1..n PROVE u[i].code = v[i].code /\ u[i].args = FloatsAgain(v[i].args)
  <2>1. u[i] = w[i]
    BY <1>2, <1>10, FirstPartIs
  <2>2. w[i] = OpAgain(v[i])
    BY <1>1, <1>10 DEF PathAgainOps
  <2> QED
    BY <2>1, <2>2 DEF OpAgain, Op
<1>15. ASSUME NEW i \in 1..n PROVE PathPiece(u, i) = PathPiece(v, i)
  <2>1. Repeated(u, i) <=> Repeated(v, i)
    <3>1. CASE i > 1
      <4>1. i - 1 \in 1..n
        BY <1>2, <3>1
      <4> QED
        BY <1>14, <4>1 DEF Repeated
    <3>2. CASE ~(i > 1)
      BY <3>2 DEF Repeated
    <3> QED
      BY <3>1, <3>2
  <2>2. Listed(u[i].args, Comma) = Listed(v[i].args, Comma)
    <3>1. PICK a, b, l : a = v[i].args /\ b = FloatsAgain(a) /\ l = Listed(a, Comma)
      OBVIOUS
    <3>2. a \in Seq(Floats)
      BY <1>2, <3>1 DEF FineOp
    <3>3. IsSeq(b) /\ Len(b) = Len(a) /\ \A k \in 1..Len(a) : Shown(b[k]) = Shown(a[k])
      BY <3>1, <3>2, FloatsAgainIs
    <3>4. Listed(b, Comma) = l
      BY <3>1, <3>2, <3>3, ArgsListed
    <3> QED
      BY <1>14, <3>1, <3>4
  <2> QED
    BY <1>14, <2>1, <2>2 DEF PathPiece
<1>16. WritePath(u) = FlattenSeq([i \in 1..n |-> PathPiece(u, i)])
  BY <1>13 DEF WritePath, PathPiece, Repeated
<1>17. WritePath(v) = FlattenSeq([i \in 1..n |-> PathPiece(v, i)])
  BY <1>2 DEF WritePath, PathPiece, Repeated
<1>18. [i \in 1..n |-> PathPiece(u, i)] = [i \in 1..n |-> PathPiece(v, i)]
  BY <1>15
<1> QED
  BY <1>12, <1>16, <1>17, <1>18

(* Whatever is written as text of what the text keeps is read, and written *)
(* the same.                                                               *)
LEMMA TextAgain ==
    ASSUME NEW a \in AttrNames, NEW v, Fine(a, v), Kept("xml", AttrType(a), v),
           NEW t, t = WriteText(a, v)
    PROVE  ~ParseFault(a, t) /\ WriteText(a, ParseText(a, t)) = t
<1>1. AttrType(a) \in Types
  BY AttrTypes
<1>2. ~ParseFault(a, t)
  <2>1. CASE AttrType(a) = "path"
    <3>1. t = WritePath(v) /\ FinePath(v)
      <4>1. \A x : WriteText(a, x) = WritePath(x)
        BY <2>1 DEF WriteText
      <4>2. FinePath(v)
        BY <2>1 DEF Fine
      <4> QED
        BY <4>1, <4>2
    <3>2. ClosedOnce(v)
      BY <2>1 DEF Kept, ClosedOnce
    <3> QED
      BY <3>1, <3>2, PathAgain DEF ParseFault
  <2>2. CASE AttrType(a) # "path"
    BY <2>2 DEF ParseFault
  <2> QED
    BY <2>1, <2>2
<1>3. CASE AttrType(a) = "enum"
  <2>1. \A x : ParseText(a, x) = ParseEnum(a, x)
    BY <1>3 DEF ParseText
  <2>2. \A x : WriteText(a, x) = WriteEnum(a, x)
    BY <1>3 DEF WriteText
  <2>3. v \in Int
    BY <1>3 DEF Fine
  <2>4. t = WriteEnum(a, v)
    BY <2>2
  <2>5. WriteEnum(a, ParseEnum(a, t)) = t
    BY <1>3, <2>3, <2>4, EnumAgain
  <2> QED
    BY <1>2, <2>1, <2>2, <2>5
<1>4. CASE AttrType(a) = "id"
  <2>1. \A x : ParseText(a, x) = x
    BY <1>4 DEF ParseText
  <2>2. \A x : WriteText(a, x) = x
    BY <1>4 DEF WriteText
  <2> QED
    BY <1>2, <2>1, <2>2
<1>5. CASE AttrType(a) = "length"
  <2>1. \A x : ParseText(a, x) = ParseLength(x)
    BY <1>5 DEF ParseText
  <2>2. \A x : WriteText(a, x) = WriteLength(x)
    BY <1>5 DEF WriteText
  <2>3. FineLength(v)
    BY <1>5 DEF Fine
  <2>4. t = WriteLength(v)
    BY <2>2
  <2>5. WriteLength(ParseLength(t)) = t
    BY <2>3, <2>4, LengthAgain
  <2> QED
    BY <1>2, <2>1, <2>2, <2>5
<1>6. CASE AttrType(a) = "color"
  <2>1. \A x : ParseText(a, x) = ParseColor(x)
    BY <1>6 DEF ParseText
  <2>2. \A x : WriteText(a, x) = WriteColor(x)
    BY <1>6 DEF WriteText
  <2>3. FineColor(v) /\ v.word \subseteq 0..23
    BY <1>6 DEF Fine, Kept
  <2>4. t = WriteColor(v)
    BY <2>2
  <2>5. ParseColor(t) = v
    BY <2>3, <2>4, ColorAgain
  <2> QED
    BY <1>2, <2>1, <2>2, <2>5
<1>7. CASE AttrType(a) = "transform"
  <2>1. \A x : ParseText(a, x) = ParseTransform(x)
    BY <1>7 DEF ParseText
  <2>2. \A x : WriteText(a, x) = WriteTransform(x)
    BY <1>7 DEF WriteText
  <2>3. FineTransform(v)
    BY <1>7 DEF Fine
  <2>4. t = WriteTransform(v)
    BY <2>2
  <2>5. WriteTransform(ParseTransform(t)) = t
    BY <2>3, <2>4, TransformAgain
  <2> QED
    BY <1>2, <2>1, <2>2, <2>5
<1>8. CASE AttrType(a) = "dasharray"
  <2>1. \A x : ParseText(a, x) = ParseDasharray(x)
    BY <1>8 DEF ParseText
  <2>2. \A x : WriteText(a, x) = WriteDasharray(x)
    BY <1>8 DEF WriteText
  <2>3. FineDashes(v)
    BY <1>8 DEF Fine
  <2>4. t = WriteDasharray(v)
    BY <2>2
  <2>5. WriteDasharray(ParseDasharray(t)) = t
    BY <2>3, <2>4, DashesAgain
  <2> QED
    BY <1>2, <2>1, <2>2, <2>5
<1>9. CASE AttrType(a) = "float"
  <2>1. \A x : ParseText(a, x) = ParseFloat(x)
    BY <1>9 DEF ParseText
  <2>2. \A x : WriteText(a, x) = WriteFloat(x)
    BY <1>9 DEF WriteText
  <2>3. v \in Floats
    BY <1>9 DEF Fine
  <2>4. t = WriteFloat(v)
    BY <2>2
  <2>5. WriteFloat(ParseFloat(t)) = t
    BY <2>3, <2>4, FloatTextAgain
  <2> QED
    BY <1>2, <2>1, <2>2, <2>5
<1>10. CASE AttrType(a) = "viewbox"
  <2>1. \A x : ParseText(a, x) = ParseViewbox(x)
    BY <1>10 DEF ParseText
  <2>2. \A x : WriteText(a, x) = WriteViewbox(x)
    BY <1>10 DEF WriteText
  <2>3. v \in [1..4 -> Floats]
    BY <1>10 DEF Fine
  <2>4. t = WriteViewbox(v)
    BY <2>2
  <2>5. WriteViewbox(ParseViewbox(t)) = t
    BY <2>3, <2>4, ViewboxAgain
  <2> QED
    BY <1>2, <2>1, <2>2, <2>5
<1>11. CASE AttrType(a) = "aspectratio"
  <2>1. \A x : ParseText(a, x) = ParseAspectratio(x)
    BY <1>11 DEF ParseText
  <2>2. \A x : WriteText(a, x) = WriteAspectratio(x)
    BY <1>11 DEF WriteText
  <2>3. FineAlign(v)
    BY <1>11 DEF Fine
  <2>4. t = WriteAspectratio(v)
    BY <2>2
  <2>5. WriteAspectratio(ParseAspectratio(t)) = t
    BY <2>3, <2>4, AlignAgain
  <2> QED
    BY <1>2, <2>1, <2>2, <2>5
<1>12. CASE AttrType(a) = "path"
  <2>1. \A x : ParseText(a, x) = ParsePath(x)
    BY <1>12 DEF ParseText
  <2>2. \A x : WriteText(a, x) = WritePath(x)
    BY <1>12 DEF WriteText
  <2>3. FinePath(v) /\ ClosedOnce(v)
    BY <1>12 DEF Fine, Kept, ClosedOnce
  <2>4. t = WritePath(v)
    BY <2>2
  <2>5. WritePath(ParsePath(t)) = t
    BY <2>3, <2>4, PathAgain
  <2> QED
    BY <1>2, <2>1, <2>2, <2>5
<1>13. CASE AttrType(a) = "points"
  <2>1. \A x : ParseText(a, x) = ParsePoints(x)
    BY <1>13 DEF ParseText
  <2>2. \A x : WriteText(a, x) = WritePoints(x)
    BY <1>13 DEF WriteText
  <2>3. v \in Seq(Floats)
    BY <1>13 DEF Fine
  <2>4. t = WritePoints(v)
    BY <2>2
  <2>5. WritePoints(ParsePoints(t)) = t
    BY <2>3, <2>4, PointsAgain
  <2> QED
    BY <1>2, <2>1, <2>2, <2>5
<1> QED
  BY <1>1, <1>3, <1>4, <1>5, <1>6, <1>7, <1>8, <1>9, <1>10, <1>11, <1>12, <1>13 DEF Types

-----------------------------------------------------------------------------
(* What arrives.  The strengthening of ContentInv: in the first run every  *)
(* block holds a value of the kind that the parsers make, and what is yet  *)
(* to be read is such as they know; in the second, each item that is yet   *)
(* to be read gives back the text of the one that was sent in its place,   *)
(* and so do the slots there are.                                          *)

ValuesFine == \A b \in DOMAIN blocks : Fine(blocks[b].attr, given[b])

TodoKnown ==
    \A i \in 1..Len(todo) : todo[i][1] \in AttrNames =>
        IsSeq(todo[i][2]) /\ TextKnown(todo[i][1], todo[i][2])

OneSlotEach(node) == \A i, j \in 1..Len(node) : node[i].attr = node[j].attr => i = j
OneItemEach(row) == \A i, j \in 1..Len(row) : row[i][1] = row[j][1] => i = j

SourceInv == ValuesFine /\ TodoKnown /\ \A n \in 1..Len(nodes) : OneSlotEach(nodes[n])

ParsesAs(a, text, again) == ~ParseFault(a, text) /\ WriteText(a, ParseText(a, text)) = again

ReadsAs(a, fields, text) ==
    LET r == ReadBinary(a, fields, 1)
    IN  /\ ~r.fault
        /\ r.next = Len(fields) + 1
        /\ WriteText(a, r.value) = text
        /\ AttrType(a) \in {"points", "path"} => Kept("binary", AttrType(a), r.value)

Arrives(form, item, as) ==
    /\ item[1] \in AttrNames
    /\ item[1] = as[1]
    /\ form = "xml" => ParsesAs(item[1], item[2], as[2])
    /\ form = "binary" => ReadsAs(item[1], item[2], as[2])

(* The slots there are of a node are the first ones that were sent,        *)
Begun(node, row) ==
    /\ Len(node) <= Len(row)
    /\ \A i \in 1..Len(node) :
          /\ node[i].attr = row[i][1]
          /\ WriteText(node[i].attr, given[node[i].at]) = row[i][2]

(* and the items that are left are the last ones.                          *)
Left(items, row) ==
    /\ Len(items) <= Len(row)
    /\ \A i \in 1..Len(items) : Arrives(format, items[i], row[Len(row) - Len(items) + i])

RowOf(m) == Len(sent) - Len(wire) + m

IsPair(item) == item = <<item[1], item[2]>>

SentGood ==
    /\ IsSeq(sent)
    /\ \A n \in 1..Len(sent) :
          /\ IsSeq(sent[n])
          /\ OneItemEach(sent[n])
          /\ \A i \in 1..Len(sent[n]) : IsPair(sent[n][i])

NodesBegun ==
    /\ Len(nodes) <= Len(sent)
    /\ \A n \in 1..Len(nodes) : Begun(nodes[n], sent[n])
    /\ \A n \in 1..(Len(nodes) - 1) : Len(nodes[n]) = Len(sent[n])

WireLeft ==
    /\ Len(wire) <= Len(sent)
    /\ \A m \in 1..Len(wire) : Left(wire[m], sent[RowOf(m)])
    /\ \A m \in 2..Len(wire) : Len(wire[m]) = Len(sent[RowOf(m)])

Meet ==
    /\ wire # <<>> =>
          /\ RowOf(1) = Len(nodes)
          /\ Len(nodes[Len(nodes)]) + Len(wire[1]) = Len(sent[Len(nodes)])
    /\ wire = <<>> =>
          Len(nodes) = Len(sent) /\ Len(nodes[Len(nodes)]) = Len(sent[Len(nodes)])

CopyInv == ~crashed /\ SentGood /\ NodesBegun /\ WireLeft /\ Meet

ArrivalInv ==
    /\ ContentInv
    /\ stage \in {"source", "copy"}
    /\ stage = "source" => SourceInv
    /\ stage = "copy" => todo = <<>> /\ (exact => CopyInv)

(* What is written is a name and a text.                                   *)
LEMMA WrittenPair == ASSUME NEW form, NEW slot PROVE IsPair(Written(form, slot))
  BY DEF Written, IsPair

(* A value that the format can keep arrives as the text of it.             *)
LEMMA ValueArrives ==
    ASSUME NEW form \in {"binary", "xml"}, NEW a \in AttrNames, NEW v, Fine(a, v),
           Kept(form, AttrType(a), v), NEW item, NEW as,
           item[1] = a, item[2] = (IF form = "xml" THEN WriteText(a, v) ELSE WriteBinary(a, v)),
           as[1] = a, as[2] = WriteText(a, v)
    PROVE  Arrives(form, item, as)
<1>1. CASE form = "xml"
  <2>1. PICK t : t = WriteText(a, v)
    OBVIOUS
  <2>2. Kept("xml", AttrType(a), v)
    BY <1>1
  <2>3. ~ParseFault(a, t) /\ WriteText(a, ParseText(a, t)) = t
    BY <2>1, <2>2, TextAgain
  <2>4. ParsesAs(a, t, t)
    BY <2>3 DEF ParsesAs
  <2> QED
    BY <1>1, <2>1, <2>4 DEF Arrives
<1>2. CASE form = "binary"
  <2>1. PICK s : s = WriteBinary(a, v)
    OBVIOUS
  <2>2. Kept("binary", AttrType(a), v)
    BY <1>2
  <2>3. PICK w : /\ ReadBinary(a, s, 1) = Read(w, Len(s) + 1)
                 /\ WriteText(a, w) = WriteText(a, v)
                 /\ AttrType(a) \in {"points", "path"} => w = v
    BY <2>1, <2>2, FieldsAgain
  <2>4. PICK r : r = ReadBinary(a, s, 1)
    OBVIOUS
  <2>5. ~r.fault /\ r.next = Len(s) + 1 /\ r.value = w
    BY <2>3, <2>4 DEF Read
  <2>6. AttrType(a) \in {"points", "path"} => Kept("binary", AttrType(a), w)
    BY <2>2, <2>3
  <2>7. ReadsAs(a, s, WriteText(a, v))
    BY <2>3, <2>4, <2>5, <2>6 DEF ReadsAs
  <2> QED
    BY <1>2, <2>1, <2>7 DEF Arrives
<1> QED
  BY <1>1, <1>2

-----------------------------------------------------------------------------
(* What a new slot changes: the last node has it, with its value.          *)
Placed(a, v) ==
    /\ IsSeq(nodes')
    /\ Len(nodes') = Len(nodes)
    /\ \A m \in 1..Len(nodes) : m # Len(nodes) => nodes'[m] = nodes[m]
    /\ Len(nodes'[Len(nodes)]) = Len(nodes[Len(nodes)]) + 1
    /\ \A i \in 1..Len(nodes[Len(nodes)]) : nodes'[Len(nodes)][i] = nodes[Len(nodes)][i]
    /\ nodes'[Len(nodes)][Len(nodes[Len(nodes)]) + 1].attr = a
    /\ given'[nodes'[Len(nodes)][Len(nodes[Len(nodes)]) + 1].at] = v
    /\ \A b \in DOMAIN blocks : given'[b] = given[b]

(* This is what an allocation does.                                        *)
LEMMA AllocPlaces ==
    ASSUME BlockInv, SlotsGood, DOMAIN given = DOMAIN blocks,
           NEW a \in AttrNames, NEW record, NEW v, AllocAttr(Len(nodes), a, record, v)
    PROVE  Placed(a, v)
<1> DEFINE align == TypeAlign(AttrType(a))
<1>1. PICK b : b = BlockAt(storage, align)
  OBVIOUS
<1>2. PICK n : n = Len(nodes)
  OBVIOUS
<1> DEFINE slot == [attr |-> a, at |-> b]
<1> HIDE DEF slot
<1>3. /\ nodes' = [nodes EXCEPT ![n] = Append(@, slot)]
      /\ given' = [c \in DOMAIN given \union {b} |-> IF c = b THEN v ELSE given[c]]
      /\ Fits(storage, TypeSize(AttrType(a)), align)
  BY <1>1, <1>2 DEF AllocAttr, slot
<1>4. b \notin DOMAIN blocks
  BY <1>1, <1>3, AllocIsNew
<1>5. given'[b] = v /\ \A c \in DOMAIN blocks : given'[c] = given[c]
  BY <1>3, <1>4
<1>6. n \in 1..Len(nodes) /\ Len(nodes) \in Nat /\ DOMAIN nodes = 1..Len(nodes)
  BY <1>2, SeqDomain DEF SlotsGood
<1>7. IsSeq(nodes') /\ Len(nodes') = Len(nodes)
  <2>1. nodes' = [m \in 1..Len(nodes) |-> nodes'[m]]
    BY <1>3, <1>6
  <2> QED
    BY <1>6, <2>1, SeqMade
<1>8. \A m \in 1..Len(nodes) : m # n => nodes'[m] = nodes[m]
  BY <1>3, <1>6
<1>9. PICK old, new : old = nodes[n] /\ new = nodes'[n]
  OBVIOUS
<1>10. IsSeq(old)
  BY <1>6, <1>9 DEF SlotsGood
<1>11. new = Append(old, slot)
  BY <1>3, <1>6, <1>9
<1>12. PICK appended : appended = Append(old, slot)
  OBVIOUS
<1>13. /\ Len(appended) = Len(old) + 1
       /\ \A i \in 1..Len(old) : appended[i] = old[i]
       /\ appended[Len(old) + 1] = slot
  BY <1>10, <1>12, SeqAppended
<1>14. slot.attr = a /\ slot.at = b
  BY DEF slot
<1> QED
  BY <1>2, <1>5, <1>7, <1>8, <1>9, <1>11, <1>12, <1>13, <1>14 DEF Placed

(* A value is stored with a record.                                        *)
LEMMA StoredSomehow ==
    ASSUME NEW n, NEW a, NEW v, StoreValue(n, a, v)
    PROVE  \E record : Store(n, a, record, v)
  BY DEF StoreValue, StoreId, StoreColor, StorePoints, StorePath, StorePlain

(* What was not there is given a slot.                                     *)
LEMMA StoreNew ==
    ASSUME StoreInv, NEW a \in AttrNames, NEW v, StoreValue(Len(nodes), a, v),
           \A i \in 1..Len(nodes[Len(nodes)]) : nodes[Len(nodes)][i].attr # a
    PROVE  Placed(a, v)
<1>1. PICK record : Store(Len(nodes), a, record, v)
  BY StoredSomehow
<1>2. Len(nodes) \in 1..Len(nodes)
  BY SeqDomain DEF StoreInv, SlotsGood
<1>3. DOMAIN nodes[Len(nodes)] = 1..Len(nodes[Len(nodes)])
  BY <1>2, SeqDomain DEF StoreInv, SlotsGood
<1>4. SlotOf(Len(nodes), a) = {}
  BY <1>3 DEF SlotOf
<1>5. AllocAttr(Len(nodes), a, record, v)
  BY <1>1, <1>4 DEF Store, SetAttr
<1>6. DOMAIN given = DOMAIN blocks
  BY DEF StoreInv, ValuesGood
<1> QED
  BY <1>5, <1>6, AllocPlaces DEF StoreInv

-----------------------------------------------------------------------------
(* What is stored in the first run is of the kind, in one slot.            *)
LEMMA StoreFine ==
    ASSUME StoreInv, ValuesFine, \A n \in 1..Len(nodes) : OneSlotEach(nodes[n]),
           NEW a \in AttrNames, NEW v, Fine(a, v), StoreValue(Len(nodes), a, v)
    PROVE  ValuesFine' /\ \A n \in 1..Len(nodes') : OneSlotEach(nodes'[n])
<1>1. PICK record : Store(Len(nodes), a, record, v)
  BY StoredSomehow
<1>2. DOMAIN given = DOMAIN blocks /\ BlockInv /\ SlotsGood
  BY DEF StoreInv, ValuesGood
<1>3. ValuesFine'
  <2>1. PICK b : Stored(b, a, record, v)
    BY <1>1, <1>2, StoreDoes
  <2>2. ASSUME NEW c \in DOMAIN blocks' PROVE Fine(blocks'[c].attr, given'[c])
    <3>1. CASE c = b
      BY <2>1, <3>1 DEF Stored
    <3>2. CASE c # b
      <4>1. c \in DOMAIN blocks /\ blocks'[c] = blocks[c] /\ given'[c] = given[c]
        BY <2>1, <3>2 DEF Stored
      <4> QED
        BY <4>1 DEF ValuesFine
    <3> QED
      BY <3>1, <3>2
  <2> QED
    BY <2>2 DEF ValuesFine
<1>4. \A n \in 1..Len(nodes') : OneSlotEach(nodes'[n])
  <2>1. CASE nodes' = nodes
    BY <2>1
  <2>2. CASE SlotOf(Len(nodes), a) = {} /\ AllocAttr(Len(nodes), a, record, v)
    <3>1. Placed(a, v)
      BY <1>2, <2>2, AllocPlaces
    <3>2. PICK k : k = Len(nodes)
      OBVIOUS
    <3>3. k \in 1..Len(nodes) /\ Len(nodes) \in Nat
      BY <1>2, <3>2, SeqDomain DEF SlotsGood
    <3>4. PICK old, new : old = nodes[k] /\ new = nodes'[k]
      OBVIOUS
    <3>5. Len(old) \in Nat /\ DOMAIN old = 1..Len(old)
      BY <1>2, <3>3, <3>4, SeqDomain DEF SlotsGood
    <3>6. \A i \in 1..Len(old) : old[i].attr # a
      BY <2>2, <3>2, <3>4, <3>5 DEF SlotOf
    <3>7. /\ Len(new) = Len(old) + 1
          /\ \A i \in 1..Len(old) : new[i] = old[i]
          /\ new[Len(old) + 1].attr = a
      BY <3>1, <3>2, <3>4 DEF Placed
    <3>8. OneSlotEach(old)
      BY <3>3, <3>4
    <3>9. ASSUME NEW i \in 1..Len(new), NEW j \in 1..Len(new), new[i].attr = new[j].attr
          PROVE  i = j
      <4>1. (i \in 1..Len(old) \/ i = Len(old) + 1) /\ (j \in 1..Len(old) \/ j = Len(old) + 1)
        BY <3>5, <3>7
      <4>2. CASE i \in 1..Len(old) /\ j \in 1..Len(old)
        <5>1. old[i].attr = old[j].attr
          BY <3>7, <3>9, <4>2
        <5> QED
          BY <3>8, <4>2, <5>1 DEF OneSlotEach
      <4>3. CASE i \in 1..Len(old) /\ j = Len(old) + 1
        BY <3>6, <3>7, <3>9, <4>3
      <4>4. CASE i = Len(old) + 1 /\ j \in 1..Len(old)
        BY <3>6, <3>7, <3>9, <4>4
      <4> QED
        BY <4>1, <4>2, <4>3, <4>4
    <3>10. OneSlotEach(new)
      BY <3>9 DEF OneSlotEach
    <3>11. ASSUME NEW n \in 1..Len(nodes') PROVE OneSlotEach(nodes'[n])
      <4>1. n \in 1..Len(nodes)
        BY <3>1 DEF Placed
      <4>2. CASE n = k
        BY <3>4, <3>10, <4>2
      <4>3. CASE n # k
        <5>1. nodes'[n] = nodes[n]
          BY <3>1, <3>2, <4>1, <4>3 DEF Placed
        <5> QED
          BY <4>1, <5>1
      <4> QED
        BY <4>2, <4>3
    <3> QED
      BY <3>11
  <2>3. nodes' = nodes \/ (SlotOf(Len(nodes), a) = {} /\ AllocAttr(Len(nodes), a, record, v))
    BY <1>1 DEF Store, SetAttr
  <2> QED
    BY <2>1, <2>2, <2>3
<1> QED
  BY <1>3, <1>4

(* The first run keeps its part of the invariant.                          *)
LEMMA StartAttrArrival ==
    ASSUME ArrivalInv, StartAttr PROVE ArrivalInv'
<1>1. ContentInv'
  BY StartAttrGood DEF ArrivalInv
<1>2. /\ stage = "source" /\ stage' = "source"
      /\ UNCHANGED <<nodes, blocks, given>>
      /\ \E t \in Texts : todo' = Parts(t[1], t[2])
  BY DEF StartAttr, pipe_vars, block_vars
<1>3. SourceInv
  BY <1>2 DEF ArrivalInv
<1>4. TodoKnown'
  <2>1. PICK t \in Texts : todo' = Parts(t[1], t[2])
    BY <1>2
  <2>2. PICK parts : parts = Parts(t[1], t[2])
    OBVIOUS
  <2>3. /\ IsSeq(parts)
        /\ \A i \in DOMAIN parts : parts[i][1] \in AttrNames =>
              IsSeq(parts[i][2]) /\ TextKnown(parts[i][1], parts[i][2])
    BY <2>2, SourceGood
  <2>4. DOMAIN parts = 1..Len(parts)
    BY <2>3, SeqDomain
  <2> QED
    BY <2>1, <2>2, <2>3, <2>4 DEF TodoKnown
<1>5. SourceInv'
  BY <1>2, <1>3, <1>4 DEF SourceInv, ValuesFine
<1> QED
  BY <1>1, <1>2, <1>5 DEF ArrivalInv

(* An attribute that is read is stored as a value of the kind.             *)
LEMMA ReadAttrArrival ==
    ASSUME ArrivalInv, ReadAttr PROVE ArrivalInv'
<1>1. ContentInv'
  BY ReadAttrGood DEF ArrivalInv
<1>2. PICK a, text : a = Head(todo)[1] /\ text = Head(todo)[2]
  OBVIOUS
<1>3. /\ todo # <<>> /\ todo' = Tail(todo) /\ stage' = stage
      /\ ReadText(Len(nodes), a, text)
  BY <1>2 DEF ReadAttr, pipe_vars
<1>4. stage = "source" /\ SourceInv
  BY <1>3 DEF ArrivalInv
<1>5. /\ IsSeq(todo) /\ Len(todo) > 0 /\ Len(todo') = Len(todo) - 1
      /\ Head(todo) = todo[1]
      /\ \A i \in 1..Len(todo') : todo'[i] = todo[i + 1]
  BY <1>3, SeqRest DEF ArrivalInv, ContentInv, TodoGood
<1>6. 1 \in 1..Len(todo) /\ \A i \in 1..Len(todo') : i + 1 \in 1..Len(todo)
  BY <1>5, SeqDomain
<1>7. TodoKnown'
  BY <1>4, <1>5, <1>6 DEF SourceInv, TodoKnown
<1>8. a \in AttrNames => IsSeq(text) /\ TextKnown(a, text)
  BY <1>2, <1>4, <1>5, <1>6 DEF SourceInv, TodoKnown
<1>9. CASE UNCHANGED <<block_vars, array_vars>>
  <2>1. UNCHANGED <<nodes, blocks, given>>
    BY <1>9 DEF block_vars
  <2>2. SourceInv'
    BY <1>4, <1>7, <2>1 DEF SourceInv, ValuesFine
  <2> QED
    BY <1>1, <1>3, <1>4, <2>2 DEF ArrivalInv
<1>10. CASE a \in AttrNames /\ StoreValue(Len(nodes), a, ParseText(a, text))
  <2>1. PICK v : v = ParseText(a, text)
    OBVIOUS
  <2>2. Fine(a, v)
    BY <1>8, <1>10, <2>1, ParsedFine
  <2>3. StoreInv
    BY DEF ArrivalInv, ContentInv
  <2>4. ValuesFine' /\ \A n \in 1..Len(nodes') : OneSlotEach(nodes'[n])
    BY <1>4, <1>10, <2>1, <2>2, <2>3, StoreFine DEF SourceInv
  <2>5. SourceInv'
    BY <1>7, <2>4 DEF SourceInv
  <2> QED
    BY <1>1, <1>3, <1>4, <2>5 DEF ArrivalInv
<1> QED
  BY <1>3, <1>9, <1>10 DEF ReadText

(* A node that is new has no slots.                                        *)
LEMMA NextNodeArrival ==
    ASSUME ArrivalInv, NextNode PROVE ArrivalInv'
<1>1. ContentInv'
  BY NextNodeGood DEF ArrivalInv
<1>2. /\ stage = "source" /\ stage' = "source"
      /\ nodes' = Append(nodes, <<>>)
      /\ UNCHANGED <<blocks, given, todo>>
  BY DEF NextNode, pipe_vars
<1>3. SourceInv
  BY <1>2 DEF ArrivalInv
<1>4. IsSeq(nodes)
  BY DEF ArrivalInv, ContentInv, StoreInv, SlotsGood
<1>5. /\ Len(nodes') = Len(nodes) + 1
      /\ \A n \in 1..Len(nodes) : nodes'[n] = nodes[n]
      /\ nodes'[Len(nodes) + 1] = <<>>
  BY <1>2, <1>4, SeqAppended
<1>6. OneSlotEach(<<>>)
  BY NoSeq DEF OneSlotEach
<1>7. ASSUME NEW n \in 1..Len(nodes') PROVE OneSlotEach(nodes'[n])
  <2>1. n \in 1..Len(nodes) \/ n = Len(nodes) + 1
    BY <1>4, <1>5, SeqDomain
  <2> QED
    BY <1>3, <1>5, <1>6, <2>1 DEF SourceInv
<1>8. SourceInv'
  BY <1>2, <1>3, <1>7 DEF SourceInv, ValuesFine, TodoKnown
<1> QED
  BY <1>1, <1>2, <1>8 DEF ArrivalInv

-----------------------------------------------------------------------------
(* An empty file. *)
LEMMA FileHas ==
    ASSUME StoreInv, NEW form, NEW file, file = File(form)
    PROVE  /\ IsSeq(file) /\ Len(file) = Len(nodes)
           /\ \A n \in 1..Len(nodes) :
                 /\ IsSeq(file[n]) /\ Len(file[n]) = Len(nodes[n])
                 /\ \A i \in 1..Len(nodes[n]) : file[n][i] = Written(form, nodes[n][i])
<1>1. /\ Len(nodes) \in Nat /\ DOMAIN nodes = 1..Len(nodes)
      /\ \A n \in 1..Len(nodes) :
            IsSeq(nodes[n]) /\ Len(nodes[n]) \in Nat /\ DOMAIN nodes[n] = 1..Len(nodes[n])
  BY SeqDomain DEF StoreInv, SlotsGood
<1>2. file = [n \in 1..Len(nodes) |-> file[n]]
  BY <1>1 DEF File
<1>3. IsSeq(file) /\ Len(file) = Len(nodes)
  BY <1>1, <1>2, SeqMade
<1>4. ASSUME NEW n \in 1..Len(nodes)
      PROVE  /\ IsSeq(file[n]) /\ Len(file[n]) = Len(nodes[n])
             /\ \A i \in 1..Len(nodes[n]) : file[n][i] = Written(form, nodes[n][i])
  <2>1. PICK slots, items : slots = nodes[n] /\ items = file[n]
    OBVIOUS
  <2>2. items = [i \in 1..Len(slots) |-> Written(form, slots[i])]
    BY <1>1, <2>1 DEF File
  <2>3. Len(slots) \in Nat /\ items = [i \in 1..Len(slots) |-> items[i]]
    BY <1>1, <2>1, <2>2
  <2>4. IsSeq(items) /\ Len(items) = Len(slots)
    BY <2>3, SeqMade
  <2>5. \A i \in 1..Len(slots) : items[i] = Written(form, slots[i])
    BY <2>2
  <2> QED
    BY <2>1, <2>4, <2>5
<1> QED
  BY <1>3, <1>4

(* What is written of a slot arrives as its text.                          *)
LEMMA SlotArrives ==
    ASSUME StoreInv, ValuesFine, format \in {"binary", "xml"},
           \A b \in DOMAIN blocks : Kept(format, AttrType(blocks[b].attr), Value(b)),
           NEW n \in 1..Len(nodes), NEW i \in 1..Len(nodes[n])
    PROVE  Arrives(format, Written(format, nodes[n][i]), Written("xml", nodes[n][i]))
<1>1. PICK slot : slot = nodes[n][i]
  OBVIOUS
<1>2. PICK a, b : a = slot.attr /\ b = slot.at
  OBVIOUS
<1>3. b \in DOMAIN blocks /\ blocks[b].attr = a
  BY <1>1, <1>2 DEF StoreInv, SlotsGood
<1>4. a \in AttrNames
  BY <1>3 DEF StoreInv, BlockInv, BlockRecords
<1>5. PICK v : v = Value(b)
  OBVIOUS
<1>6. Fine(a, v)
  BY <1>3, <1>5 DEF ValuesFine, StoreInv, ContentKept
<1>7. Kept(format, AttrType(a), v)
  BY <1>3, <1>5
<1>8. PICK item, as : item = Written(format, slot) /\ as = Written("xml", slot)
  OBVIOUS
<1>9. /\ item[1] = a
      /\ item[2] = (IF format = "xml" THEN WriteText(a, v) ELSE WriteBinary(a, v))
  BY <1>2, <1>5, <1>8 DEF Written
<1>10. as[1] = a /\ as[2] = WriteText(a, v)
  BY <1>2, <1>5, <1>8 DEF Written
<1>11. Arrives(format, item, as)
  BY <1>4, <1>6, <1>7, <1>9, <1>10, ValueArrives
<1> QED
  BY <1>1, <1>8, <1>11

(* What is emitted is to arrive.                                           *)
LEMMA EmitArrival ==
    ASSUME ArrivalInv, Emit PROVE ArrivalInv'
<1>1. ContentInv'
  BY EmitGood DEF ArrivalInv
<1>2. /\ stage = "source" /\ stage' = "copy" /\ todo = <<>> /\ todo' = <<>>
      /\ ~crashed /\ crashed' = crashed
      /\ exact' = \A b \in DOMAIN blocks : Kept(format, AttrType(blocks[b].attr), Value(b))
      /\ sent' = File("xml") /\ wire' = File(format) /\ format' = format
      /\ nodes' = <<<<>>>> /\ given' = Empty
  BY DEF Emit
<1>3. SourceInv /\ StoreInv /\ format \in {"binary", "xml"}
  BY <1>2 DEF ArrivalInv, ContentInv, WireGood
<1>4. SUFFICES ASSUME exact' PROVE CopyInv'
  BY <1>1, <1>2 DEF ArrivalInv
<1>5. PICK rows, left : rows = File("xml") /\ left = File(format)
  OBVIOUS
<1>6. PICK N : N = Len(nodes)
  OBVIOUS
<1>7. N \in Nat /\ N > 0
  BY <1>3, <1>6, SeqDomain DEF StoreInv, SlotsGood
<1>8. /\ IsSeq(rows) /\ Len(rows) = N
      /\ \A n \in 1..N :
            /\ IsSeq(rows[n]) /\ Len(rows[n]) = Len(nodes[n])
            /\ \A i \in 1..Len(nodes[n]) : rows[n][i] = Written("xml", nodes[n][i])
  BY <1>3, <1>5, <1>6, FileHas
<1>9. /\ IsSeq(left) /\ Len(left) = N
      /\ \A n \in 1..N :
            /\ IsSeq(left[n]) /\ Len(left[n]) = Len(nodes[n])
            /\ \A i \in 1..Len(nodes[n]) : left[n][i] = Written(format, nodes[n][i])
  BY <1>3, <1>5, <1>6, FileHas
<1>10. \A n \in 1..N : Len(nodes[n]) \in Nat
  BY <1>3, <1>6, SeqDomain DEF StoreInv, SlotsGood
<1>11. sent' = rows /\ wire' = left
  BY <1>2, <1>5
<1>12. SentGood'
  <2>1. ASSUME NEW n \in 1..N PROVE OneItemEach(rows[n])
    <3>1. PICK row : row = rows[n]
      OBVIOUS
    <3>2. OneSlotEach(nodes[n])
      BY <1>3, <1>6 DEF SourceInv
    <3>3. \A i \in 1..Len(nodes[n]) : row[i][1] = nodes[n][i].attr
      BY <1>8, <3>1 DEF Written
    <3>4. Len(row) = Len(nodes[n])
      BY <1>8, <3>1
    <3>5. OneItemEach(row)
      BY <3>2, <3>3, <3>4 DEF OneItemEach, OneSlotEach
    <3> QED
      BY <3>1, <3>5
  <2>2. ASSUME NEW n \in 1..N, NEW i \in 1..Len(nodes[n]) PROVE IsPair(rows[n][i])
    <3>1. rows[n][i] = Written("xml", nodes[n][i])
      BY <1>8
    <3> QED
      BY <3>1, WrittenPair
  <2> QED
    BY <1>8, <1>11, <2>1, <2>2 DEF SentGood
<1>13. Len(nodes') = 1 /\ nodes'[1] = <<>> /\ Len(<<>>) = 0
  BY <1>2, OneSeq, NoSeq
<1>14. NodesBegun'
  <2>1. Begun(<<>>, rows[1])'
    BY <1>7, <1>8, <1>10, NoSeq DEF Begun
  <2>2. \A n \in 1..Len(nodes') : n = 1
    BY <1>13
  <2>3. \A n \in 1..(Len(nodes') - 1) : Len(nodes'[n]) = Len(rows[n])
    BY <1>13
  <2>4. \A n \in 1..Len(nodes') : Begun(nodes[n], sent[n])'
    BY <1>11, <1>13, <2>1, <2>2 DEF Begun
  <2> QED
    BY <1>7, <1>8, <1>11, <1>13, <2>3, <2>4 DEF NodesBegun
<1>15. \A m \in 1..N : RowOf(m)' = m
  <2> TAKE m \in 1..N
  <2>1. Len(sent') = N /\ Len(wire') = N
    BY <1>8, <1>9, <1>11
  <2>2. RowOf(m)' = Len(sent') - Len(wire') + m
    BY DEF RowOf
  <2> QED
    BY <1>7, <2>1, <2>2
<1>16. WireLeft'
  <2>1. ASSUME NEW m \in 1..N PROVE Left(left[m], rows[m])'
    <3>1. PICK items, row : items = left[m] /\ row = rows[m]
      OBVIOUS
    <3>2. PICK k : k = Len(nodes[m])
      OBVIOUS
    <3>3. k \in Nat /\ Len(items) = k /\ Len(row) = k
      BY <1>8, <1>9, <1>10, <3>1, <3>2
    <3>4. ASSUME NEW i \in 1..k PROVE Arrives(format, items[i], row[Len(row) - Len(items) + i])
      <4>1. Len(row) - Len(items) + i = i
        BY <3>3
      <4>2. \A b \in DOMAIN blocks : Kept(format, AttrType(blocks[b].attr), Value(b))
        BY <1>2, <1>4
      <4>3. Arrives(format, Written(format, nodes[m][i]), Written("xml", nodes[m][i]))
        BY <1>3, <1>6, <3>2, <4>2, SlotArrives DEF SourceInv
      <4>4. items[i] = Written(format, nodes[m][i]) /\ row[i] = Written("xml", nodes[m][i])
        BY <1>8, <1>9, <3>1, <3>2
      <4> QED
        BY <4>1, <4>3, <4>4
    <3>5. Left(items, row)
      BY <3>3, <3>4 DEF Left
    <3> QED
      BY <1>2, <3>1, <3>5 DEF Left
  <2>2. \A m \in 1..Len(wire') : Left(wire[m], sent[RowOf(m)])'
    BY <1>9, <1>11, <1>15, <2>1 DEF Left
  <2>3. \A m \in 2..Len(wire') : Len(wire'[m]) = Len(sent'[RowOf(m)'])
    <3>1. \A m \in 2..N : m \in 1..N
      BY <1>7
    <3> QED
      BY <1>8, <1>9, <1>11, <1>15, <3>1
  <2> QED
    BY <1>7, <1>8, <1>9, <1>11, <2>2, <2>3 DEF WireLeft
<1>17. Meet'
  <2>1. wire' # <<>>
    BY <1>7, <1>9, <1>11, NoSeq
  <2>2. RowOf(1)' = 1
    BY <1>7, <1>15
  <2>3. Len(left[1]) = Len(rows[1]) /\ Len(left[1]) \in Nat
    BY <1>7, <1>8, <1>9, <1>10
  <2>4. 0 + Len(left[1]) = Len(rows[1])
    BY <2>3
  <2> QED
    BY <1>11, <1>13, <2>1, <2>2, <2>4 DEF Meet
<1> QED
  BY <1>2, <1>12, <1>14, <1>16, <1>17 DEF CopyInv

(* What arrives is read without a fault, and has the text that was sent,   *)
LEMMA TextRead ==
    ASSUME NEW n, NEW item, NEW as, Arrives("xml", item, as), ReadText(n, item[1], item[2])
    PROVE  /\ crashed' = crashed
           /\ \E v : StoreValue(n, item[1], v) /\ WriteText(item[1], v) = as[2]
  BY DEF Arrives, ParsesAs, ReadText

(* in either format.                                                       *)
LEMMA FieldsRead ==
    ASSUME NEW n, NEW item, NEW as, Arrives("binary", item, as), ReadFields(n, item[1], item[2])
    PROVE  /\ crashed' = crashed
           /\ \E v : StoreValue(n, item[1], v) /\ WriteText(item[1], v) = as[2]
<1>1. PICK a, s : a = item[1] /\ s = item[2]
  OBVIOUS
<1>2. PICK r : r = ReadBinary(a, s, 1)
  OBVIOUS
<1>3. ReadsAs(a, s, as[2])
  BY <1>1 DEF Arrives
<1>4. /\ ~r.fault /\ r.next = Len(s) + 1 /\ WriteText(a, r.value) = as[2]
      /\ AttrType(a) \in {"points", "path"} => Kept("binary", AttrType(a), r.value)
  BY <1>2, <1>3 DEF ReadsAs
<1>5. ~AllocFault(a, r.value)
  BY <1>4 DEF AllocFault, Kept
<1>6. StoreValue(n, a, r.value) /\ crashed' = crashed
  BY <1>1, <1>2, <1>4, <1>5 DEF ReadFields
<1> QED
  BY <1>1, <1>4, <1>6

(* The slots there were keep the values that they have.                    *)
LEMMA BegunKept ==
    ASSUME StoreInv, \A b \in DOMAIN blocks : given'[b] = given[b],
           NEW n \in 1..Len(nodes), NEW row, Begun(nodes[n], row)
    PROVE  \A i \in 1..Len(nodes[n]) :
              /\ nodes[n][i].attr = row[i][1]
              /\ WriteText(nodes[n][i].attr, given'[nodes[n][i].at]) = row[i][2]
<1> TAKE i \in 1..Len(nodes[n])
<1>1. nodes[n][i].at \in DOMAIN blocks
  BY DEF StoreInv, SlotsGood
<1>2. given'[nodes[n][i].at] = given[nodes[n][i].at]
  BY <1>1
<1> QED
  BY <1>2 DEF Begun

(* So a node gets the slot that was sent in its place,                     *)
LEMMA ReadCopyArrival ==
    ASSUME ArrivalInv, ReadCopy PROVE ArrivalInv'
<1>1. ContentInv'
  BY ReadCopyGood DEF ArrivalInv
<1>2. PICK items : items = Head(wire)
  OBVIOUS
<1>3. PICK item : item = Head(items)
  OBVIOUS
<1>4. /\ stage = "copy" /\ stage' = "copy"
      /\ wire # <<>> /\ items # <<>>
      /\ wire' = [wire EXCEPT ![1] = Tail(@)]
      /\ \/ format = "xml" /\ ReadText(Len(nodes), item[1], item[2])
         \/ format = "binary" /\ ReadFields(Len(nodes), item[1], item[2])
      /\ UNCHANGED <<todo, format, exact, sent>>
  BY <1>2, <1>3 DEF ReadCopy, pipe_vars
<1>5. SUFFICES ASSUME exact PROVE CopyInv'
  BY <1>1, <1>4 DEF ArrivalInv
<1>6. CopyInv /\ StoreInv /\ WireGood /\ format \in {"binary", "xml"}
  BY <1>4, <1>5 DEF ArrivalInv, ContentInv, WireGood
<1>7. /\ Len(wire) \in Nat /\ Len(wire) > 0 /\ items = wire[1] /\ 1 \in 1..Len(wire)
      /\ DOMAIN wire = 1..Len(wire) /\ IsSeq(wire)
  BY <1>2, <1>4, <1>6, WireTail
<1>8. IsSeq(items)
  BY <1>6, <1>7 DEF WireGood
<1>9. PICK rest : rest = Tail(items)
  OBVIOUS
<1>10. /\ IsSeq(rest) /\ Len(items) > 0 /\ Len(rest) = Len(items) - 1
       /\ item = items[1]
       /\ \A i \in 1..Len(rest) : rest[i] = items[i + 1]
  BY <1>3, <1>4, <1>8, <1>9, SeqRest
<1>11. Len(items) \in Nat
  BY <1>8, SeqDomain
<1>12. PICK c : c = Len(nodes)
  OBVIOUS
<1>13. c \in Nat /\ c > 0 /\ c \in 1..Len(nodes) /\ IsSeq(nodes)
  BY <1>6, <1>12, SeqDomain DEF StoreInv, SlotsGood
<1>14. PICK node, row : node = nodes[c] /\ row = sent[c]
  OBVIOUS
<1>15. PICK k : k = Len(node)
  OBVIOUS
<1>16. k \in Nat /\ IsSeq(node)
  BY <1>6, <1>13, <1>14, <1>15, SeqDomain DEF StoreInv, SlotsGood
<1>17. Len(sent) \in Nat /\ c <= Len(sent) /\ IsSeq(sent)
  BY <1>6, <1>12, SeqDomain DEF CopyInv, SentGood, NodesBegun
<1>18. IsSeq(row) /\ Len(row) \in Nat /\ OneItemEach(row)
  BY <1>6, <1>13, <1>14, <1>17, SeqDomain DEF CopyInv, SentGood
<1>19. RowOf(1) = c /\ k + Len(items) = Len(row)
  BY <1>4, <1>6, <1>7, <1>12, <1>14, <1>15 DEF CopyInv, Meet
<1>20. Left(items, row)
  BY <1>6, <1>7, <1>14, <1>19 DEF CopyInv, WireLeft
<1>21. PICK as : as = row[k + 1]
  OBVIOUS
<1>22. Arrives(format, item, as)
  <2>1. 1 \in 1..Len(items) /\ Len(row) - Len(items) + 1 = k + 1
    BY <1>10, <1>11, <1>16, <1>18, <1>19
  <2> QED
    BY <1>10, <1>20, <1>21, <2>1 DEF Left
<1>23. PICK a : a = item[1]
  OBVIOUS
<1>24. a \in AttrNames /\ as[1] = a
  BY <1>22, <1>23 DEF Arrives
<1>25. PICK v : /\ crashed' = crashed
                /\ StoreValue(c, a, v) /\ WriteText(a, v) = as[2]
  <2>1. CASE format = "xml" /\ ReadText(c, item[1], item[2])
    <3>1. Arrives("xml", item, as) /\ ReadText(c, item[1], item[2])
      BY <1>22, <2>1
    <3>2. crashed' = crashed /\ \E v : StoreValue(c, item[1], v) /\ WriteText(item[1], v) = as[2]
      BY <3>1, TextRead
    <3> QED
      BY <1>23, <3>2
  <2>2. CASE format = "binary" /\ ReadFields(c, item[1], item[2])
    <3>1. Arrives("binary", item, as) /\ ReadFields(c, item[1], item[2])
      BY <1>22, <2>2
    <3>2. crashed' = crashed /\ \E v : StoreValue(c, item[1], v) /\ WriteText(item[1], v) = as[2]
      BY <3>1, FieldsRead
    <3> QED
      BY <1>23, <3>2
  <2> QED
    BY <1>4, <1>12, <2>1, <2>2
<1>26. Begun(node, row)
  BY <1>6, <1>12, <1>13, <1>14 DEF CopyInv, NodesBegun
<1>27. \A i \in 1..k : node[i].attr # a
  <2> SUFFICES ASSUME NEW i \in 1..k, node[i].attr = a PROVE FALSE
    OBVIOUS
  <2>1. i \in 1..Len(row) /\ k + 1 \in 1..Len(row) /\ i # k + 1
    BY <1>10, <1>11, <1>16, <1>18, <1>19
  <2>2. row[i][1] = row[k + 1][1]
    BY <1>15, <1>21, <1>24, <1>26 DEF Begun
  <2> QED
    BY <1>18, <2>1, <2>2 DEF OneItemEach
<1>28. Placed(a, v)
  BY <1>6, <1>12, <1>14, <1>15, <1>24, <1>25, <1>27, StoreNew
<1>29. PICK new : new = nodes'[c]
  OBVIOUS
<1>30. /\ Len(nodes') = c
       /\ \A m \in 1..c : m # c => nodes'[m] = nodes[m]
       /\ Len(new) = k + 1
       /\ \A i \in 1..k : new[i] = node[i]
       /\ new[k + 1].attr = a
       /\ given'[new[k + 1].at] = v
       /\ \A b \in DOMAIN blocks : given'[b] = given[b]
  BY <1>12, <1>14, <1>15, <1>28, <1>29 DEF Placed
<1>31. Begun(new, row)'
  <2>1. ASSUME NEW i \in 1..(k + 1)
        PROVE  new[i].attr = row[i][1] /\ WriteText(new[i].attr, given'[new[i].at]) = row[i][2]
    <3>1. CASE i = k + 1
      BY <1>21, <1>24, <1>25, <1>30, <3>1
    <3>2. CASE i # k + 1
      <4>1. i \in 1..k
        BY <1>16, <3>2
      <4>2. /\ node[i].attr = row[i][1]
            /\ WriteText(node[i].attr, given'[node[i].at]) = row[i][2]
        BY <1>6, <1>13, <1>14, <1>15, <1>26, <1>30, <4>1, BegunKept
      <4> QED
        BY <1>30, <4>1, <4>2
    <3> QED
      BY <3>1, <3>2
  <2>2. k + 1 <= Len(row)
    BY <1>10, <1>11, <1>16, <1>18, <1>19
  <2> QED
    BY <1>30, <2>1, <2>2 DEF Begun
<1>32. NodesBegun'
  <2>1. ASSUME NEW m \in 1..c PROVE Begun(nodes[m], sent[m])'
    <3>1. CASE m = c
      BY <1>4, <1>14, <1>29, <1>31, <3>1 DEF Begun
    <3>2. CASE m # c
      <4>1. nodes'[m] = nodes[m]
        BY <1>30, <3>2
      <4>2. Begun(nodes[m], sent[m])
        BY <1>6, <1>12 DEF CopyInv, NodesBegun
      <4>3. \A i \in 1..Len(nodes[m]) :
              /\ nodes[m][i].attr = sent[m][i][1]
              /\ WriteText(nodes[m][i].attr, given'[nodes[m][i].at]) = sent[m][i][2]
        BY <1>6, <1>12, <1>30, <4>2, BegunKept
      <4> QED
        BY <1>4, <4>1, <4>2, <4>3 DEF Begun
    <3> QED
      BY <3>1, <3>2
  <2>2. ASSUME NEW m \in 1..(c - 1) PROVE Len(nodes'[m]) = Len(sent[m])
    <3>1. m \in 1..c /\ m # c
      BY <1>13
    <3>2. nodes'[m] = nodes[m]
      BY <1>30, <3>1
    <3> QED
      BY <1>6, <1>12, <3>2 DEF CopyInv, NodesBegun
  <2> QED
    BY <1>4, <1>17, <1>30, <2>1, <2>2 DEF NodesBegun
<1>33. /\ wire' = [m \in 1..Len(wire) |-> wire'[m]]
       /\ wire'[1] = rest
       /\ \A m \in 1..Len(wire) : m # 1 => wire'[m] = wire[m]
  BY <1>4, <1>7, <1>9
<1>34. IsSeq(wire') /\ Len(wire') = Len(wire)
  BY <1>7, <1>33, SeqMade
<1>35. ASSUME NEW m PROVE RowOf(m)' = RowOf(m)
  BY <1>4, <1>34 DEF RowOf
<1>36. Left(rest, row)
  <2>1. ASSUME NEW i \in 1..Len(rest)
        PROVE  Arrives(format, rest[i], row[Len(row) - Len(rest) + i])
    <3>1. i + 1 \in 1..Len(items) /\ Len(row) - Len(items) + (i + 1) = Len(row) - Len(rest) + i
      BY <1>10, <1>11, <1>18
    <3>2. PICK j : j = i + 1
      OBVIOUS
    <3>3. Arrives(format, items[j], row[Len(row) - Len(items) + j])
      BY <1>20, <3>1, <3>2 DEF Left
    <3> QED
      BY <1>10, <3>1, <3>2, <3>3
  <2>2. Len(rest) <= Len(row)
    BY <1>10, <1>11, <1>16, <1>18, <1>19
  <2> QED
    BY <2>1, <2>2 DEF Left
<1>37. WireLeft'
  <2>1. ASSUME NEW m \in 1..Len(wire) PROVE Left(wire'[m], sent[RowOf(m)])
    <3>1. CASE m = 1
      BY <1>14, <1>19, <1>33, <1>36, <3>1
    <3>2. CASE m # 1
      BY <1>6, <1>33, <3>2 DEF CopyInv, WireLeft
    <3> QED
      BY <3>1, <3>2
  <2>2. \A m \in 1..Len(wire') : Left(wire[m], sent[RowOf(m)])'
    <3> TAKE m \in 1..Len(wire')
    <3>1. Left(wire'[m], sent[RowOf(m)])
      BY <1>34, <2>1
    <3>2. sent'[RowOf(m)'] = sent[RowOf(m)]
      BY <1>4, <1>35
    <3> QED
      BY <1>4, <3>1, <3>2 DEF Left
  <2>3. ASSUME NEW m \in 2..Len(wire') PROVE Len(wire'[m]) = Len(sent'[RowOf(m)'])
    <3>1. m \in 2..Len(wire) /\ m \in 1..Len(wire) /\ m # 1
      BY <1>7, <1>34
    <3>2. wire'[m] = wire[m]
      BY <1>33, <3>1
    <3>3. sent'[RowOf(m)'] = sent[RowOf(m)]
      BY <1>4, <1>35
    <3> QED
      BY <1>6, <3>1, <3>2, <3>3 DEF CopyInv, WireLeft
  <2>4. Len(wire') <= Len(sent')
    BY <1>4, <1>6, <1>34 DEF CopyInv, WireLeft
  <2> QED
    BY <2>2, <2>3, <2>4 DEF WireLeft
<1>38. Meet'
  <2>1. wire' # <<>>
    BY <1>7, <1>34, NoSeq
  <2>2. RowOf(1)' = Len(nodes')
    BY <1>19, <1>30, <1>35
  <2>3. Len(new) + Len(rest) = Len(row)
    BY <1>10, <1>11, <1>16, <1>18, <1>19, <1>30
  <2>4. nodes'[Len(nodes')] = new /\ wire'[1] = rest /\ sent'[Len(nodes')] = row
    BY <1>4, <1>14, <1>29, <1>30, <1>33
  <2> QED
    BY <2>1, <2>2, <2>3, <2>4 DEF Meet
<1>39. SentGood' /\ ~crashed'
  BY <1>4, <1>6, <1>25 DEF CopyInv, SentGood
<1> QED
  BY <1>32, <1>37, <1>38, <1>39 DEF CopyInv

(* and when it has them all, the next one begins.                          *)
LEMMA ReadCopyNextArrival ==
    ASSUME ArrivalInv, ReadCopyNext PROVE ArrivalInv'
<1>1. ContentInv'
  BY ReadCopyNextGood DEF ArrivalInv
<1>2. /\ stage = "copy" /\ stage' = "copy"
      /\ wire # <<>> /\ Head(wire) = <<>>
      /\ wire' = Tail(wire)
      /\ nodes' = IF Len(wire) > 1 THEN Append(nodes, <<>>) ELSE nodes
      /\ UNCHANGED <<todo, format, exact, sent, given, crashed>>
  BY DEF ReadCopyNext, pipe_vars
<1>3. SUFFICES ASSUME exact PROVE CopyInv'
  BY <1>1, <1>2 DEF ArrivalInv
<1>4. CopyInv /\ StoreInv /\ WireGood
  BY <1>2, <1>3 DEF ArrivalInv, ContentInv
<1>5. /\ Len(wire) \in Nat /\ Len(wire) > 0 /\ wire[1] = <<>> /\ IsSeq(wire)
      /\ Len(<<>>) = 0
  BY <1>2, <1>4, WireTail, NoSeq
<1>6. /\ IsSeq(wire') /\ Len(wire') = Len(wire) - 1
      /\ \A m \in 1..Len(wire') : wire'[m] = wire[m + 1]
  BY <1>2, <1>5, SeqRest
<1>7. PICK c : c = Len(nodes)
  OBVIOUS
<1>8. c \in Nat /\ c > 0 /\ IsSeq(nodes) /\ Len(nodes[c]) \in Nat
  BY <1>4, <1>7, SeqDomain DEF StoreInv, SlotsGood
<1>9. Len(sent) \in Nat /\ c <= Len(sent)
  BY <1>4, <1>7, SeqDomain DEF CopyInv, SentGood, NodesBegun
<1>10. Len(sent) - Len(wire) + 1 = c /\ Len(nodes[c]) = Len(sent[c])
  <2>1. RowOf(1) = c /\ Len(nodes[c]) + Len(wire[1]) = Len(sent[c])
    BY <1>2, <1>4, <1>7 DEF CopyInv, Meet
  <2>2. Len(wire[1]) = 0
    BY <1>5
  <2> QED
    BY <1>4, <1>7, <1>8, <2>1, <2>2, SeqDomain DEF RowOf
<1>11. ASSUME NEW m \in Nat PROVE RowOf(m)' = RowOf(m + 1)
  <2>1. RowOf(m)' = Len(sent) - (Len(wire) - 1) + m
    BY <1>2, <1>6 DEF RowOf
  <2> QED
    BY <1>5, <1>9, <2>1 DEF RowOf
<1>12. WireLeft'
  <2>1. ASSUME NEW m \in 1..Len(wire') PROVE Left(wire[m], sent[RowOf(m)])'
    <3>1. PICK j : j = m + 1
      OBVIOUS
    <3>2. m \in Nat /\ j \in 1..Len(wire)
      BY <1>5, <1>6, <3>1
    <3>3. Left(wire[j], sent[RowOf(j)])
      BY <1>4, <3>2 DEF CopyInv, WireLeft
    <3>4. wire'[m] = wire[j] /\ sent'[RowOf(m)'] = sent[RowOf(j)]
      BY <1>2, <1>6, <1>11, <3>1, <3>2
    <3> QED
      BY <1>2, <3>3, <3>4 DEF Left
  <2>2. ASSUME NEW m \in 2..Len(wire') PROVE Len(wire'[m]) = Len(sent'[RowOf(m)'])
    <3>1. PICK j : j = m + 1
      OBVIOUS
    <3>2. m \in Nat /\ j \in 2..Len(wire) /\ m \in 1..Len(wire')
      BY <1>5, <1>6, <3>1
    <3>3. Len(wire[j]) = Len(sent[RowOf(j)])
      BY <1>4, <3>2 DEF CopyInv, WireLeft
    <3>4. wire'[m] = wire[j] /\ sent'[RowOf(m)'] = sent[RowOf(j)]
      BY <1>2, <1>6, <1>11, <3>1, <3>2
    <3> QED
      BY <3>3, <3>4
  <2>3. Len(wire') <= Len(sent')
    <3>1. Len(wire) <= Len(sent)
      BY <1>4 DEF CopyInv, WireLeft
    <3> QED
      BY <1>2, <1>5, <1>6, <1>9, <3>1
  <2> QED
    BY <2>1, <2>2, <2>3 DEF WireLeft
<1>13. SentGood' /\ ~crashed'
  BY <1>2, <1>4 DEF CopyInv, SentGood
<1>14. \A m \in 1..c : Begun(nodes[m], sent[m])
  BY <1>4, <1>7 DEF CopyInv, NodesBegun
<1>15. \A m \in 1..c : Len(nodes[m]) = Len(sent[m])
  <2> TAKE m \in 1..c
  <2>1. CASE m = c
    BY <1>10, <2>1
  <2>2. CASE m # c
    <3>1. m \in 1..(c - 1)
      BY <1>8, <2>2
    <3> QED
      BY <1>4, <1>7, <3>1 DEF CopyInv, NodesBegun
  <2> QED
    BY <2>1, <2>2
<1>16. CASE Len(wire) > 1
  <2>1. nodes' = Append(nodes, <<>>)
    BY <1>2, <1>16
  <2>2. /\ Len(nodes') = c + 1
        /\ \A m \in 1..c : nodes'[m] = nodes[m]
        /\ nodes'[c + 1] = <<>>
    BY <1>7, <1>8, <2>1, SeqAppended
  <2>3. c + 1 <= Len(sent) /\ c + 1 \in 1..Len(sent)
    BY <1>5, <1>8, <1>9, <1>10, <1>16
  <2>4. Len(sent[c + 1]) \in Nat
    BY <1>4, <2>3, SeqDomain DEF CopyInv, SentGood
  <2>5. ASSUME NEW m \in 1..(c + 1) PROVE Begun(nodes[m], sent[m])'
    <3>1. CASE m = c + 1
      <4>1. Len(nodes'[m]) = 0
        BY <1>5, <2>2, <3>1
      <4>2. Len(sent'[m]) \in Nat
        BY <1>2, <2>4, <3>1
      <4>3. 1..Len(nodes'[m]) = {} /\ Len(nodes'[m]) <= Len(sent'[m])
        BY <4>1, <4>2
      <4> QED
        BY <4>3 DEF Begun
    <3>2. CASE m # c + 1
      <4>1. m \in 1..c
        BY <1>8, <3>2
      <4> QED
        BY <1>2, <1>14, <2>2, <4>1 DEF Begun
    <3> QED
      BY <3>1, <3>2
  <2>6. NodesBegun'
    <3>1. \A m \in 1..(Len(nodes') - 1) : Len(nodes'[m]) = Len(sent'[m])
      <4>1. Len(nodes') - 1 = c
        BY <1>8, <2>2
      <4> QED
        BY <1>2, <1>15, <2>2, <4>1
    <3>2. Len(nodes') <= Len(sent')
      BY <1>2, <2>2, <2>3
    <3> QED
      BY <2>2, <2>5, <3>1, <3>2 DEF NodesBegun
  <2>7. Meet'
    <3>1. wire' # <<>>
      BY <1>5, <1>6, <1>16, NoSeq
    <3>2. RowOf(2) = c + 1
      BY <1>5, <1>8, <1>9, <1>10 DEF RowOf
    <3>3. RowOf(1)' = c + 1
      BY <1>11, <3>2
    <3>4. 2 \in 2..Len(wire) /\ 1 \in 1..Len(wire')
      BY <1>5, <1>6, <1>16
    <3>5. Len(wire[2]) = Len(sent[c + 1])
      BY <1>4, <3>2, <3>4 DEF CopyInv, WireLeft
    <3>6. wire'[1] = wire[2]
      BY <1>6, <3>4
    <3>7. 0 + Len(sent[c + 1]) = Len(sent[c + 1])
      BY <2>4
    <3>8. Len(nodes'[c + 1]) + Len(wire'[1]) = Len(sent[c + 1])
      BY <1>5, <2>2, <3>5, <3>6, <3>7
    <3> QED
      BY <1>2, <2>2, <3>1, <3>3, <3>8 DEF Meet
  <2> QED
    BY <1>12, <1>13, <2>6, <2>7 DEF CopyInv
<1>17. CASE ~ (Len(wire) > 1)
  <2>1. nodes' = nodes
    BY <1>2, <1>17
  <2>2. wire' = <<>>
    BY <1>5, <1>6, <1>17, EmptyIsSeq
  <2>3. c = Len(sent)
    BY <1>5, <1>8, <1>9, <1>10, <1>17
  <2>4. NodesBegun'
    BY <1>2, <1>4, <2>1 DEF CopyInv, NodesBegun, Begun
  <2>5. Meet'
    BY <1>2, <1>7, <1>10, <2>1, <2>2, <2>3 DEF Meet
  <2> QED
    BY <1>12, <1>13, <2>4, <2>5 DEF CopyInv
<1> QED
  BY <1>16, <1>17

(* Every step keeps the invariant,                                         *)
LEMMA ArrivalStep ==
    ASSUME ArrivalInv, [Next]_vars PROVE ArrivalInv'
<1>1. CASE UNCHANGED vars
  <2>1. ContentInv'
    BY ContentStep DEF ArrivalInv
  <2>2. UNCHANGED <<nodes, blocks, given, todo, stage, format, sent, exact, wire, crashed>>
    BY <1>1 DEF vars, block_vars, pipe_vars
  <2>3. SourceInv => SourceInv'
    BY <2>2 DEF SourceInv, ValuesFine, TodoKnown
  <2>4. CopyInv => CopyInv'
    BY <2>2 DEF CopyInv, SentGood, NodesBegun, WireLeft, Meet, Begun, Left, RowOf
  <2> QED
    BY <2>1, <2>2, <2>3, <2>4 DEF ArrivalInv
<1> QED
  BY <1>1, StartAttrArrival, ReadAttrArrival, NextNodeArrival, EmitArrival, ReadCopyArrival,
     ReadCopyNextArrival DEF Next

(* and it holds at first.                                                  *)
LEMMA ArrivalFirst == ASSUME Init PROVE ArrivalInv
<1>1. ContentInv
  BY ContentFirst
<1>2. stage = "source" /\ blocks = Empty /\ todo = <<>> /\ nodes = <<<<>>>>
  BY DEF Init
<1>3. Len(<<>>) = 0 /\ Len(nodes) = 1 /\ nodes[1] = <<>>
  BY <1>2, NoSeq, OneSeq
<1>4. OneSlotEach(<<>>)
  BY <1>3 DEF OneSlotEach
<1>5. ValuesFine
  BY <1>2 DEF ValuesFine, Empty
<1>6. TodoKnown
  BY <1>2, <1>3 DEF TodoKnown
<1>7. \A n \in 1..Len(nodes) : OneSlotEach(nodes[n])
  <2>1. \A n \in 1..Len(nodes) : n = 1
    BY <1>3
  <2> QED
    BY <1>3, <1>4, <2>1
<1> QED
  BY <1>1, <1>2, <1>5, <1>6, <1>7 DEF ArrivalInv, SourceInv

(* When all has been read, what there is is what was sent.                 *)
LEMMA AllArrived ==
    ASSUME StoreInv, CopyInv, wire = <<>> PROVE File("xml") = sent
<1>1. PICK file : file = File("xml")
  OBVIOUS
<1>2. PICK c : c = Len(nodes)
  OBVIOUS
<1>3. c \in Nat /\ c > 0 /\ \A n \in 1..c : IsSeq(nodes[n])
  BY <1>2, SeqDomain DEF StoreInv, SlotsGood
<1>4. /\ IsSeq(file) /\ Len(file) = c
      /\ \A n \in 1..c :
            /\ IsSeq(file[n]) /\ Len(file[n]) = Len(nodes[n])
            /\ \A i \in 1..Len(nodes[n]) : file[n][i] = Written("xml", nodes[n][i])
  BY <1>1, <1>2, FileHas
<1>5. c = Len(sent) /\ Len(nodes[c]) = Len(sent[c])
  BY <1>2 DEF CopyInv, Meet
<1>6. ASSUME NEW n \in 1..c PROVE file[n] = sent[n]
  <2>1. PICK items, row, node : items = file[n] /\ row = sent[n] /\ node = nodes[n]
    OBVIOUS
  <2>2. Len(node) = Len(row)
    <3>1. CASE n = c
      BY <1>5, <2>1, <3>1
    <3>2. CASE n # c
      <4>1. n \in 1..(c - 1)
        BY <1>3, <3>2
      <4> QED
        BY <1>2, <2>1, <4>1 DEF CopyInv, NodesBegun
    <3> QED
      BY <3>1, <3>2
  <2>3. IsSeq(items) /\ IsSeq(row) /\ Len(items) = Len(row)
    BY <1>4, <1>5, <2>1, <2>2 DEF CopyInv, SentGood
  <2>4. ASSUME NEW i \in 1..Len(row) PROVE items[i] = row[i]
    <3>1. PICK slot : slot = node[i]
      OBVIOUS
    <3>2. items[i] = Written("xml", slot)
      BY <1>4, <2>1, <2>2, <3>1
    <3>3. PICK a, b : a = slot.attr /\ b = slot.at
      OBVIOUS
    <3>4. b \in DOMAIN blocks
      BY <1>2, <2>1, <2>2, <3>1, <3>3 DEF StoreInv, SlotsGood
    <3>5. Value(b) = given[b]
      BY <3>4 DEF StoreInv, ContentKept
    <3>6. Begun(node, row)
      BY <1>2, <2>1 DEF CopyInv, NodesBegun
    <3>7. a = row[i][1] /\ WriteText(a, given[b]) = row[i][2]
      BY <2>2, <3>1, <3>3, <3>6 DEF Begun
    <3>8. PICK as : as = row[i]
      OBVIOUS
    <3>9. as = <<as[1], as[2]>>
      BY <1>5, <2>1, <3>8 DEF CopyInv, SentGood, IsPair
    <3>10. items[i] = <<a, WriteText(a, given[b])>>
      BY <3>2, <3>3, <3>5 DEF Written
    <3>11. items[i] = <<as[1], as[2]>>
      BY <3>7, <3>8, <3>10
    <3> QED
      BY <3>8, <3>9, <3>11
  <2>5. items = row
    BY <2>3, <2>4, SeqSame
  <2> QED
    BY <2>1, <2>5
<1>7. file = sent
  BY <1>4, <1>5, <1>6, SeqSame DEF CopyInv, SentGood
<1> QED
  BY <1>1, <1>7

(* Whatever attributes were read, of any number of nodes, what a format    *)
(* can hold of them arrives.                                               *)
THEOREM RoundTripAlways == Spec => []RoundTrip
<1>1. ArrivalInv => RoundTrip
  BY AllArrived DEF ArrivalInv, ContentInv, CopyInv, RoundTrip
<1> QED
  BY <1>1, ArrivalFirst, ArrivalStep, PTL DEF Spec
=============================================================================
