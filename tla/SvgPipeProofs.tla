--------------------------- MODULE SvgPipeProofs ---------------------------
(***************************************************************************)
(* Theorems about SvgPipe for documents of any size: that what has been    *)
(* written in either format is read and written again without a            *)
(* difference, and that what is cut off between two symbols is read up to  *)
(* there.                                                                  *)
(*                                                                         *)
(* The invariant says that the second run's graph is that of the first, as *)
(* far as the calls have been read; and that what it is given are the      *)
(* calls for the visit of the first run's graph.  Of the binary format it  *)
(* is those itself.  Of XML text, the reader is shown to find the tags of  *)
(* a text one after another, and the attributes of a tag, and to make of a *)
(* tag that was written the calls it was written for.                      *)
(***************************************************************************)
EXTENDS SvgPipe, SvgTreeProofs

-----------------------------------------------------------------------------
(* Documents *)

(* An event e of a document, where path p is open and c elements have been *)
(* started, after which q is and d have.                                   *)
Turn(e, p, c, q, d) ==
    \/ e = <<"start", c>> /\ q = Append(p, c) /\ d = c + 1
    \/ p # <<>> /\ e = <<"end", p[Len(p)]>> /\ q = SubSeq(p, 1, Len(p) - 1) /\ d = c

(* The open path and the number of elements after each event.              *)
Trace(events, P, C) ==
    /\ events \in Seq(Event)
    /\ P \in [0..Len(events) -> Seq(Nat)]
    /\ C \in [0..Len(events) -> Nat]
    /\ P[0] = <<>> /\ C[0] = 0
    /\ \A i \in 1..Len(events) : Turn(events[i], P[i - 1], C[i - 1], P[i], C[i])

TraceTo(events, path, count) ==
    \E P, C : /\ Trace(events, P, C)
              /\ P[Len(events)] = path
              /\ C[Len(events)] = count

(* Nothing is a document.                                                  *)
LEMMA TraceNone == TraceTo(<<>>, <<>>, 0)
<1> DEFINE P == [i \in 0..0 |-> <<>>]
           C == [i \in 0..0 |-> 0]
<1>1. <<>> \in Seq(Event) /\ Len(<<>>) = 0 /\ 1..0 = {} /\ 0 \in 0..0
  OBVIOUS
<1>2. P \in [0..0 -> Seq(Nat)] /\ C \in [0..0 -> Nat] /\ P[0] = <<>> /\ C[0] = 0
  OBVIOUS
<1> HIDE DEF P, C
<1>3. Trace(<<>>, P, C)
  BY <1>1, <1>2 DEF Trace
<1> QED
  BY <1>1, <1>2, <1>3 DEF TraceTo

(* A document goes on with a start below, or the end of, what is open.     *)
LEMMA TraceMore ==
    ASSUME NEW events, NEW path, NEW count, TraceTo(events, path, count),
           NEW e \in Event, NEW q \in Seq(Nat), NEW d \in Nat, Turn(e, path, count, q, d)
    PROVE  TraceTo(Append(events, e), q, d)
<1>1. PICK P, C : Trace(events, P, C) /\ P[Len(events)] = path /\ C[Len(events)] = count
  BY DEF TraceTo
<1>2. PICK n : n = Len(events)
  OBVIOUS
<1>3. /\ events \in Seq(Event) /\ n \in Nat
      /\ P \in [0..n -> Seq(Nat)] /\ C \in [0..n -> Nat]
      /\ P[0] = <<>> /\ C[0] = 0 /\ P[n] = path /\ C[n] = count
      /\ \A i \in 1..n : Turn(events[i], P[i - 1], C[i - 1], P[i], C[i])
  BY <1>1, <1>2 DEF Trace
<1> DEFINE more == Append(events, e)
           P2 == [i \in 0..(n + 1) |-> IF i = n + 1 THEN q ELSE P[i]]
           C2 == [i \in 0..(n + 1) |-> IF i = n + 1 THEN d ELSE C[i]]
<1>4. /\ more \in Seq(Event) /\ Len(more) = n + 1
      /\ \A i \in 1..n : more[i] = events[i]
      /\ more[n + 1] = e
  BY <1>2, <1>3
<1>5. /\ P2 \in [0..(n + 1) -> Seq(Nat)] /\ C2 \in [0..(n + 1) -> Nat]
      /\ \A i \in 0..n : P2[i] = P[i] /\ C2[i] = C[i]
      /\ P2[n + 1] = q /\ C2[n + 1] = d
      /\ P2[0] = <<>> /\ C2[0] = 0
  <2>1. \A i \in 0..n : i \in 0..(n + 1) /\ i # n + 1
    BY <1>3
  <2>2. 0 \in 0..n /\ n + 1 \in 0..(n + 1)
    BY <1>3
  <2>3. \A i \in 0..(n + 1) : i = n + 1 \/ i \in 0..n
    BY <1>3
  <2>4. \A i \in 0..n : P2[i] = P[i] /\ C2[i] = C[i]
    BY <2>1
  <2>5. P2[n + 1] = q /\ C2[n + 1] = d
    BY <2>2
  <2>6. \A i \in 0..(n + 1) : P2[i] \in Seq(Nat) /\ C2[i] \in Nat
    <3> HIDE DEF P2, C2
    <3> QED
      BY <1>3, <2>3, <2>4, <2>5
  <2>7. P2 \in [0..(n + 1) -> Seq(Nat)] /\ C2 \in [0..(n + 1) -> Nat]
    BY <2>6
  <2> HIDE DEF P2, C2
  <2> QED
    BY <1>3, <2>2, <2>4, <2>5, <2>7
<1> HIDE DEF more, P2, C2
<1>6. \A i \in 1..(n + 1) : Turn(more[i], P2[i - 1], C2[i - 1], P2[i], C2[i])
  <2> TAKE i \in 1..(n + 1)
  <2>1. CASE i = n + 1
    <3>1. more[i] = e /\ P2[i] = q /\ C2[i] = d
      BY <1>4, <1>5, <2>1
    <3>2. P2[i - 1] = path /\ C2[i - 1] = count
      BY <1>3, <1>5, <2>1
    <3> QED
      BY <3>1, <3>2
  <2>2. CASE i # n + 1
    <3>1. i \in 1..n /\ i \in 0..n /\ i - 1 \in 0..n
      BY <1>3, <2>2
    <3> QED
      BY <1>3, <1>4, <1>5, <3>1
  <2> QED
    BY <2>1, <2>2
<1>7. Trace(more, P2, C2)
  BY <1>4, <1>5, <1>6 DEF Trace
<1>8. TraceTo(more, q, d)
  BY <1>4, <1>5, <1>7 DEF TraceTo
<1> QED
  BY <1>8 DEF more

(* The ends of what is open complete it.                                   *)
Completes(all, events, path) ==
    /\ all \in Seq(Event)
    /\ Len(all) = Len(events) + Len(path)
    /\ \A i \in 1..Len(events) : all[i] = events[i]
    /\ \A i \in 1..Len(path) : all[Len(all) + 1 - i] = <<"end", path[i]>>

(* With the ends of what is open, it is a whole one.                       *)
LEMMA TraceAll ==
    ASSUME NEW events, NEW path \in Seq(Nat), NEW count, TraceTo(events, path, count),
           NEW all, Completes(all, events, path)
    PROVE  TraceTo(all, <<>>, count)
<1>1. PICK P, C : Trace(events, P, C) /\ P[Len(events)] = path /\ C[Len(events)] = count
  BY DEF TraceTo
<1>2. PICK n, m, l : n = Len(events) /\ m = Len(path) /\ l = Len(all)
  OBVIOUS
<1>3. /\ events \in Seq(Event) /\ n \in Nat /\ m \in Nat /\ l = n + m /\ l \in Nat
      /\ P \in [0..n -> Seq(Nat)] /\ C \in [0..n -> Nat]
      /\ P[0] = <<>> /\ C[0] = 0 /\ P[n] = path /\ C[n] = count
      /\ \A i \in 1..n : Turn(events[i], P[i - 1], C[i - 1], P[i], C[i])
      /\ \A i \in 1..n : all[i] = events[i]
      /\ \A i \in 1..m : all[l + 1 - i] = <<"end", path[i]>>
  BY <1>1, <1>2 DEF Trace, Completes
<1> DEFINE P2 == [i \in 0..l |-> IF i <= n THEN P[i] ELSE SubSeq(path, 1, l - i)]
           C2 == [i \in 0..l |-> IF i <= n THEN C[i] ELSE count]
<1>4. \A j \in 0..m : /\ SubSeq(path, 1, j) \in Seq(Nat) /\ Len(SubSeq(path, 1, j)) = j
                      /\ \A i \in 1..j : SubSeq(path, 1, j)[i] = path[i]
  BY <1>2, <1>3
<1>5. P2 \in [0..l -> Seq(Nat)] /\ C2 \in [0..l -> Nat]
  <2>1. \A i \in 0..l : P2[i] \in Seq(Nat) /\ C2[i] \in Nat
    <3> TAKE i \in 0..l
    <3>1. CASE i <= n
      BY <1>3, <3>1
    <3>2. CASE ~ (i <= n)
      <4>1. l - i \in 0..m
        BY <1>3, <3>2
      <4>2. count \in Nat
        BY <1>3
      <4> QED
        BY <1>4, <3>2, <4>1, <4>2
    <3> QED
      BY <3>1, <3>2
  <2> QED
    BY <2>1
<1>6. \A i \in 0..n : P2[i] = P[i] /\ C2[i] = C[i]
  BY <1>3
<1>7. SubSeq(path, 1, m) = path
  BY <1>2, <1>3
<1>8. \A i \in n..l : P2[i] = SubSeq(path, 1, l - i) /\ C2[i] = count
  <2> TAKE i \in n..l
  <2>1. CASE i = n
    <3>1. l - i = m /\ i \in 0..n
      BY <1>3, <2>1
    <3> QED
      BY <1>3, <1>6, <1>7, <2>1, <3>1
  <2>2. CASE i # n
    <3>1. i \in 0..l /\ ~ (i <= n)
      BY <1>3, <2>2
    <3> QED
      BY <3>1
  <2> QED
    BY <2>1, <2>2
<1> HIDE DEF P2, C2
<1>9. ASSUME NEW i \in 1..l
      PROVE  Turn(all[i], P2[i - 1], C2[i - 1], P2[i], C2[i])
  <2>1. CASE i <= n
    <3>1. i \in 1..n /\ i \in 0..n /\ i - 1 \in 0..n
      BY <1>3, <2>1
    <3> QED
      BY <1>3, <1>6, <3>1
  <2>2. CASE ~ (i <= n)
    <3>1. PICK j : j = l + 1 - i
      OBVIOUS
    <3>2. /\ j \in 1..m /\ i = l + 1 - j /\ i \in n..l /\ i - 1 \in n..l
          /\ j \in 0..m /\ j - 1 \in 0..m /\ l - i = j - 1 /\ l - (i - 1) = j
      BY <1>3, <2>2, <3>1
    <3>3. PICK p, q : p = SubSeq(path, 1, j) /\ q = SubSeq(path, 1, j - 1)
      OBVIOUS
    <3>4. P2[i - 1] = p /\ P2[i] = q /\ C2[i - 1] = count /\ C2[i] = count
      BY <1>8, <3>2, <3>3
    <3>5. all[i] = <<"end", path[j]>>
      BY <1>3, <3>2
    <3>6. p \in Seq(Nat) /\ Len(p) = j /\ p[j] = path[j] /\ \A x \in 1..j : p[x] = path[x]
      <4>1. j \in 1..j
        BY <1>3, <3>2
      <4>2. j \in 0..m
        BY <3>2
      <4>3. p \in Seq(Nat) /\ Len(p) = j /\ \A x \in 1..j : p[x] = path[x]
        BY ONLY <1>4, <3>3, <4>2
      <4> QED
        BY <4>1, <4>3
    <3>7. q \in Seq(Nat) /\ Len(q) = j - 1 /\ \A x \in 1..(j - 1) : q[x] = path[x]
      BY <1>4, <3>2, <3>3
    <3>8. q = SubSeq(p, 1, j - 1)
      <4>1. PICK r : r = SubSeq(p, 1, j - 1)
        OBVIOUS
      <4>2. r \in Seq(Nat) /\ Len(r) = j - 1 /\ \A x \in 1..(j - 1) : r[x] = p[x]
        BY <3>2, <3>6, <4>1
      <4>3. \A x \in 1..(j - 1) : r[x] = q[x]
        <5>1. \A x \in 1..(j - 1) : x \in 1..j
          BY <3>2
        <5> QED
          BY <3>6, <3>7, <4>2, <5>1
      <4>4. r = q
        BY <3>7, <4>2, <4>3, SeqEqual
      <4> QED
        BY <4>1, <4>4
    <3>9. p # <<>>
      BY <3>2, <3>6
    <3> QED
      BY <3>4, <3>5, <3>6, <3>8, <3>9 DEF Turn
  <2> QED
    BY <2>1, <2>2
<1>10. Trace(all, P2, C2)
  <2>1. P2[0] = <<>> /\ C2[0] = 0
    <3>1. 0 \in 0..n
      BY <1>3
    <3> QED
      BY <1>3, <1>6, <3>1
  <2>2. all \in Seq(Event)
    BY DEF Completes
  <2> QED
    BY <1>2, <1>5, <1>9, <2>1, <2>2 DEF Trace
<1>11. P2[l] = <<>> /\ C2[l] = count
  <2>1. l \in n..l /\ l - l = 0 /\ 0 \in 0..m
    BY <1>3
  <2>2. P2[l] = SubSeq(path, 1, 0)
    BY <1>8, <2>1
  <2>3. SubSeq(path, 1, 0) = <<>>
    BY <1>4, <2>1
  <2> QED
    BY <1>8, <2>1, <2>2, <2>3
<1> QED
  BY <1>2, <1>10, <1>11 DEF TraceTo

-----------------------------------------------------------------------------
HistoryInv == TraceTo(Document, OpenPath, node_count)

(* The document so far, with the ends of what is open, is the visit.       *)
LEMMA DocumentIs ==
    ASSUME GraphInv
    PROVE  /\ Document \in Seq(Event)
           /\ node_count > 0 =>
                /\ Visit \in Seq(Event)
                /\ Len(Document) = Len(Visit) - node_depth
                /\ Completes(Visit, Document, OpenPath)
<1>1. /\ node_depth \in Nat /\ node_count \in Nat
      /\ node_count = 0 => Document = <<>>
      /\ node_depth > 0 => node_stack[0] = 0
      /\ OpenPath \in Seq(Nat) /\ Len(OpenPath) = node_depth
  BY PathType DEF GraphInv, TypeOK, Document, TreeInv, StackInv, PathOK
<1>2. CASE node_count > 0
  <2>1. PICK v : v = Visit
    OBVIOUS
  <2>2. v \in Seq(Event)
    <3>1. 0 \in NodeIds
      BY <1>1, <1>2 DEF NodeIds
    <3> QED
      BY <2>1, <3>1 DEF Visit, GraphInv, DocInv, VisitRec
  <2>3. /\ Len(v) >= node_depth
        /\ \A d \in 0..(node_depth - 1) : v[Len(v) - d] = <<"end", node_stack[d]>>
    <3>1. CASE node_depth = 0
      BY <2>2, <3>1
    <3>2. CASE node_depth # 0
      <4>1. 0 \in 0..(node_depth - 1) /\ node_depth > 0 /\ node_depth - 0 = node_depth
        BY <1>1, <3>2
      <4>2. /\ Len(VisitRecurse[node_stack[0]]) >= node_depth - 0
            /\ \A d \in 0..(node_depth - 1) : v[Len(v) - d] = <<"end", node_stack[d]>>
        BY <2>1, <4>1 DEF GraphInv, DocInv, VisitInv
      <4>3. v = VisitRecurse[0]
        BY <2>1 DEF Visit
      <4> QED
        BY <1>1, <4>1, <4>2, <4>3
    <3> QED
      BY <3>1, <3>2
  <2>4. PICK n \in Nat : n = Len(v) - node_depth /\ Len(v) = n + node_depth
    BY <1>1, <2>2, <2>3
  <2>5. Document = SubSeq(v, 1, n)
    BY <1>2, <2>1, <2>4 DEF Document
  <2>6. /\ Document \in Seq(Event) /\ Len(Document) = n
        /\ \A i \in 1..n : Document[i] = v[i]
    <3>1. PICK w : w = SubSeq(v, 1, n)
      OBVIOUS
    <3>2. w \in Seq(Event) /\ Len(w) = n /\ \A i \in 1..n : w[i] = v[i]
      BY <1>1, <2>2, <2>4, <3>1
    <3> QED
      BY <2>5, <3>1, <3>2
  <2>7. \A i \in 1..node_depth : v[Len(v) + 1 - i] = <<"end", OpenPath[i]>>
    <3> TAKE i \in 1..node_depth
    <3>1. i - 1 \in 0..(node_depth - 1) /\ Len(v) - (i - 1) = Len(v) + 1 - i
      BY <1>1, <2>4
    <3>2. OpenPath[i] = node_stack[i - 1]
      BY DEF OpenPath
    <3> QED
      BY <2>3, <3>1, <3>2
  <2>8. Completes(v, Document, OpenPath)
    BY <1>1, <2>2, <2>4, <2>6, <2>7 DEF Completes
  <2> QED
    BY <2>1, <2>2, <2>4, <2>6, <2>8
<1>3. CASE ~ (node_count > 0)
  <2>1. node_count = 0 /\ <<>> \in Seq(Event)
    BY <1>1, <1>3
  <2> QED
    BY <1>1, <1>3, <2>1
<1> QED
  BY <1>2, <1>3

(* Each step of DocTree adds an event to the document, or none.            *)
LEMMA HistoryStep ==
    ASSUME GraphInv, GraphInv', HistoryInv, [Tree!Next]_(Tree!vars)
    PROVE  HistoryInv'
<1>1. /\ DOMAIN Labels = 0..(node_count - 1)
      /\ DOMAIN Labels' = 0..(node_count' - 1)
      /\ node_count \in Nat /\ node_count' \in Nat
      /\ OpenPath \in Seq(Nat)
  BY PathType DEF Labels, NodeIds, GraphInv, TypeOK, PathOK
<1>2. OpenPath' \in Seq(Nat)
  <2>1. TypeOK' => PathOK'
    BY PathType, PTL
  <2> QED
    BY <2>1 DEF GraphInv, PathOK
<1>3. ASSUME Document' = Document, OpenPath' = OpenPath, DOMAIN Labels' = DOMAIN Labels
      PROVE  HistoryInv'
  <2>1. node_count' = node_count
    BY <1>1, <1>3
  <2> QED
    BY <1>3, <2>1 DEF HistoryInv
<1>4. ASSUME NEW n \in {0} \union {m + 1 : m \in DOMAIN Labels}, NEW t \in Elements,
             Tree!Open(n, t)
      PROVE  HistoryInv'
  <2>1. /\ n \notin DOMAIN Labels
        /\ n = 0 \/ n - 1 \in DOMAIN Labels
        /\ Document' = Append(Document, <<"start", n>>)
        /\ OpenPath' = Append(OpenPath, n)
        /\ DOMAIN Labels' = 0..n
    BY <1>4 DEF Tree!Open
  <2>2. n \in Nat
    BY <1>1
  <2>3. n = node_count /\ node_count' = node_count + 1
    BY <1>1, <2>1, <2>2
  <2>4. Turn(<<"start", n>>, OpenPath, node_count, OpenPath', node_count')
    BY <2>1, <2>3 DEF Turn
  <2>5. <<"start", n>> \in Event
    BY <2>2, EventType
  <2>6. TraceTo(Append(Document, <<"start", n>>), OpenPath', node_count')
    BY <1>1, <1>2, <2>4, <2>5, TraceMore DEF HistoryInv
  <2> QED
    BY <2>1, <2>6 DEF HistoryInv
<1>5. ASSUME Tree!Close PROVE HistoryInv'
  <2>1. /\ OpenPath # <<>>
        /\ Document' = Append(Document, <<"end", OpenPath[Len(OpenPath)]>>)
        /\ OpenPath' = SubSeq(OpenPath, 1, Len(OpenPath) - 1)
        /\ Labels' = Labels
    BY <1>5 DEF Tree!Close
  <2>2. node_count' = node_count
    BY <1>1, <2>1
  <2>3. PICK e : e = <<"end", OpenPath[Len(OpenPath)]>>
    OBVIOUS
  <2>4. Turn(e, OpenPath, node_count, OpenPath', node_count')
    BY <2>1, <2>2, <2>3 DEF Turn
  <2>5. e \in Event
    <3>1. PICK p : p = OpenPath
      OBVIOUS
    <3>2. p[Len(p)] \in Nat
      BY <1>1, <2>1, <3>1
    <3> QED
      BY <2>3, <3>1, <3>2, EventType
  <2>6. TraceTo(Append(Document, e), OpenPath', node_count')
    BY <1>1, <1>2, <2>4, <2>5, TraceMore DEF HistoryInv
  <2> QED
    BY <2>1, <2>3, <2>6 DEF HistoryInv
<1>6. ASSUME NEW n \in DOMAIN Labels, NEW a, NEW v, Tree!SetAttr(n, a, v)
      PROVE  HistoryInv'
  <2>1. Document' = Document /\ OpenPath' = OpenPath /\ DOMAIN Labels' = DOMAIN Labels
    BY <1>6 DEF Tree!SetAttr
  <2> QED
    BY <1>3, <2>1
<1>7. CASE Tree!Fail \/ UNCHANGED Tree!vars
  <2>1. Document' = Document /\ OpenPath' = OpenPath /\ Labels' = Labels
    BY <1>7 DEF Tree!Fail, Tree!vars
  <2> QED
    BY <1>3, <2>1
<1> QED
  BY <1>4, <1>5, <1>6, <1>7 DEF Tree!Next

(* The visit of a graph is a whole document.                               *)
LEMMA VisitTraced ==
    ASSUME GraphInv, HistoryInv, node_count > 0
    PROVE  Visit \in Seq(Event) /\ TraceTo(Visit, <<>>, node_count)
<1>1. OpenPath \in Seq(Nat)
  BY PathType DEF GraphInv, PathOK
<1> QED
  BY <1>1, DocumentIs, TraceAll DEF HistoryInv

-----------------------------------------------------------------------------
(* A visit begins with a start and ends with an end, and an end follows    *)
(* upon the start of an element that has no children, and a start comes    *)
(* before the end of one.                                                  *)
NestedAt(q, i, node, count) ==
    /\ q[i][2] \in 0..(count - 1)
    /\ q[i][1] = "start" =>
          i < Len(q) /\ (q[i + 1][1] = "end" <=> node[q[i][2]].down = 0)
    /\ q[i][1] = "end" =>
          1 < i /\ (q[i - 1][1] = "start" <=> node[q[i][2]].down = 0)

Nested(q, node, count) ==
    /\ q \in Seq(Event)
    /\ Len(q) > 1
    /\ q[1][1] = "start" /\ q[Len(q)][1] = "end"
    /\ \A i \in 1..Len(q) : NestedAt(q, i, node, count)

(* It is so of an element around what is so.                               *)
LEMMA NestedAround ==
    ASSUME NEW count \in Nat, NEW node, NEW n \in 0..(count - 1), NEW x, NEW y,
           x = <<>> \/ Nested(x, node, count),
           IF node[n].down = 0 THEN y = <<>> ELSE Nested(y, node, count)
    PROVE  Nested(Around(x, n, y), node, count)
<1> DEFINE a == <<"start", n>>
           b == <<"end", n>>
<1>1. PICK q : q = Around(x, n, y)
  OBVIOUS
<1>2. PICK l, m : l = Len(x) /\ m = Len(y)
  OBVIOUS
<1>3. /\ x \in Seq(Event) /\ y \in Seq(Event) /\ l \in Nat /\ m \in Nat
      /\ a \in Event /\ b \in Event /\ n \in Nat
      /\ l = 0 \/ (l > 1 /\ Nested(x, node, count))
      /\ (m = 0 /\ node[n].down = 0) \/ (m > 1 /\ Nested(y, node, count) /\ node[n].down # 0)
  <2>1. <<>> \in Seq(Event) /\ Len(<<>>) = 0
    OBVIOUS
  <2>2. a \in Event /\ b \in Event /\ n \in Nat
    BY EventType
  <2>3. x \in Seq(Event) /\ (l = 0 \/ (l > 1 /\ Nested(x, node, count)))
    BY <1>2, <2>1 DEF Nested
  <2>4. y \in Seq(Event)
    BY <2>1 DEF Nested
  <2>5. (m = 0 /\ node[n].down = 0) \/ (m > 1 /\ Nested(y, node, count) /\ node[n].down # 0)
    BY <1>2, <2>1 DEF Nested
  <2>6. l \in Nat /\ m \in Nat
    BY <1>2, <2>3, <2>4
  <2> QED
    BY <2>2, <2>3, <2>4, <2>5, <2>6
<1>4. IsWrap(q, Event, x, a, y, b)
  BY <1>1, <1>3, WrapAt DEF Around
<1>5. /\ q \in Seq(Event) /\ Len(q) = l + m + 2
      /\ \A i \in 1..l : q[i] = x[i]
      /\ q[l + 1] = a
      /\ \A i \in 1..m : q[l + 1 + i] = y[i]
      /\ q[l + m + 2] = b
  BY <1>2, <1>4 DEF IsWrap
<1>6. a[1] = "start" /\ a[2] = n /\ b[1] = "end" /\ b[2] = n
  OBVIOUS
<1> HIDE DEF a, b
<1>7. q[1][1] = "start" /\ q[Len(q)][1] = "end"
  <2>1. CASE l = 0
    BY <1>3, <1>5, <1>6, <2>1
  <2>2. CASE l # 0
    <3>1. 1 \in 1..l /\ x[1][1] = "start"
      BY <1>3, <2>2 DEF Nested
    <3> QED
      BY <1>5, <1>6, <3>1
  <2> QED
    BY <2>1, <2>2
<1>8. ASSUME NEW i \in 1..l PROVE NestedAt(q, i, node, count)
  <2>1. NestedAt(x, i, node, count)
    BY <1>2, <1>3 DEF Nested
  <2>2. q[i] = x[i]
    BY <1>5
  <2>3. i < l => q[i + 1] = x[i + 1]
    <3>1. i < l => i + 1 \in 1..l
      BY <1>3
    <3> QED
      BY <1>5, <3>1
  <2>4. 1 < i => q[i - 1] = x[i - 1]
    <3>1. 1 < i => i - 1 \in 1..l
      BY <1>3
    <3> QED
      BY <1>5, <3>1
  <2>5. i < Len(q) /\ l = Len(x)
    BY <1>2, <1>3, <1>5
  <2> QED
    BY <2>1, <2>2, <2>3, <2>4, <2>5 DEF NestedAt
<1>9. NestedAt(q, l + 1, node, count)
  <2>1. /\ l + 1 < Len(q) /\ l + 1 + 1 = l + 2
        /\ m = 0 => l + m + 2 = l + 2
        /\ m # 0 => 1 \in 1..m
    BY <1>3, <1>5
  <2>2. (m = 0 => q[l + 1 + 1] = b) /\ (m # 0 => q[l + 1 + 1] = y[1])
    BY <1>5, <2>1
  <2>3. m # 0 => y[1][1] = "start"
    BY <1>3 DEF Nested
  <2>4. q[l + 1][1] = "start" /\ q[l + 1][2] = n
    BY <1>5, <1>6
  <2>5. q[l + 1 + 1][1] = "end" <=> node[n].down = 0
    BY <1>3, <1>6, <2>2, <2>3
  <2> QED
    BY <2>1, <2>4, <2>5 DEF NestedAt
<1>10. ASSUME NEW j \in 1..m PROVE NestedAt(q, l + 1 + j, node, count)
  <2>1. m # 0 /\ m = Len(y)
    BY <1>2, <1>3
  <2>2. NestedAt(y, j, node, count)
    BY <1>3, <2>1 DEF Nested
  <2>3. PICK k : k = l + 1 + j
    OBVIOUS
  <2>4. /\ k < Len(q) /\ 1 < k
        /\ j < m => k + 1 = l + 1 + (j + 1) /\ j + 1 \in 1..m
        /\ 1 < j => k - 1 = l + 1 + (j - 1) /\ j - 1 \in 1..m
    BY <1>3, <1>5, <2>3
  <2>5. /\ q[k] = y[j]
        /\ j < m => q[k + 1] = y[j + 1]
        /\ 1 < j => q[k - 1] = y[j - 1]
    BY <1>5, <2>3, <2>4
  <2>6. NestedAt(q, k, node, count)
    BY ONLY <2>1, <2>2, <2>4, <2>5 DEF NestedAt
  <2> QED
    BY <2>3, <2>6
<1>11. NestedAt(q, l + m + 2, node, count)
  <2>1. PICK k : k = l + m + 2
    OBVIOUS
  <2>2. /\ 1 < k
        /\ m = 0 => k - 1 = l + 1
        /\ m # 0 => k - 1 = l + 1 + m /\ m \in 1..m
    BY <1>3, <2>1
  <2>3. (m = 0 => q[k - 1] = a) /\ (m # 0 => q[k - 1] = y[m])
    BY <1>5, <2>2
  <2>4. m # 0 => y[m][1] = "end"
    BY <1>2, <1>3 DEF Nested
  <2>5. q[k][1] = "end" /\ q[k][2] = n
    BY <1>5, <1>6, <2>1
  <2>6. q[k - 1][1] = "start" <=> node[n].down = 0
    BY <1>3, <1>6, <2>3, <2>4
  <2>7. NestedAt(q, k, node, count)
    BY <2>2, <2>5, <2>6 DEF NestedAt
  <2> QED
    BY <2>1, <2>7
<1>12. ASSUME NEW i \in 1..Len(q) PROVE NestedAt(q, i, node, count)
  <2>1. \/ i \in 1..l
        \/ i = l + 1
        \/ i - (l + 1) \in 1..m /\ i = l + 1 + (i - (l + 1))
        \/ i = l + m + 2
    BY <1>3, <1>5
  <2> QED
    BY <1>8, <1>9, <1>10, <1>11, <2>1
<1> QED
  <2>1. Len(q) > 1
    BY <1>3, <1>5
  <2> QED
    BY <1>1, <1>5, <1>7, <1>12, <2>1 DEF Nested

(* It is so of the visit of a graph.                                       *)
LEMMA VisitNested ==
    ASSUME GraphInv, node_count > 0
    PROVE  Nested(Visit, nodes, node_count)
<1>1. /\ node_count \in Nat /\ TreeLinks(nodes, node_count)
      /\ IsVisit(VisitRecurse, nodes, node_count)
  BY LinksOfTree DEF GraphInv, TypeOK, TreeInv, DocInv, VisitRec
<1> DEFINE T == {n \in 0..(node_count - 1) : Nested(VisitRecurse[n], nodes, node_count)}
<1>2. ASSUME NEW n \in 0..(node_count - 1),
             nodes[n].left = 0 \/ nodes[n].left \in T,
             nodes[n].down = 0 \/ nodes[n].down \in T
      PROVE  n \in T
  <2>1. PICK x, y : x = Under(VisitRecurse, nodes[n].left) /\ y = Under(VisitRecurse, nodes[n].down)
    OBVIOUS
  <2>2. VisitRecurse[n] = Around(x, n, y)
    BY <1>1, <2>1 DEF IsVisit
  <2>3. x = <<>> \/ Nested(x, nodes, node_count)
    BY <1>2, <2>1 DEF Under
  <2>4. IF nodes[n].down = 0 THEN y = <<>> ELSE Nested(y, nodes, node_count)
    BY <1>2, <2>1 DEF Under
  <2>5. Nested(Around(x, n, y), nodes, node_count)
    BY <1>1, <2>3, <2>4, NestedAround
  <2> QED
    BY <2>2, <2>5
<1>3. 0..(node_count - 1) \subseteq T
  <2> HIDE DEF T
  <2> QED
    BY <1>1, <1>2, TreeInduction
<1>4. 0 \in 0..(node_count - 1)
  BY <1>1
<1> QED
  BY <1>3, <1>4 DEF Visit

-----------------------------------------------------------------------------
(* Labels and files *)

IsAttrs(attrs) ==
    /\ attrs \in Seq(Attrs \X Values)
    /\ \A i, j \in 1..Len(attrs) : attrs[i][1] = attrs[j][1] => i = j

Label == [type : Elements, attrs : Seq(Attrs \X Values)]

IsLabels(label, count) ==
    /\ label \in [0..(count - 1) -> Label]
    /\ \A n \in 0..(count - 1) : IsAttrs(label[n].attrs)

(* What a format keeps of a value, of attributes and of labels. *)
Kept(in, v) == IF in = "xml" THEN Rounded[v] ELSE v

KeptAttrs(in, attrs) == [i \in DOMAIN attrs |-> <<attrs[i][1], Kept(in, attrs[i][2])>>]

KeptLabels(in, label) ==
    [n \in DOMAIN label |->
        [type |-> label[n].type, attrs |-> KeptAttrs(in, label[n].attrs)]]

(* A format keeps as many attributes as there are, of the same names.      *)
LEMMA KeptAre ==
    ASSUME NEW in, NEW attrs, IsAttrs(attrs)
    PROVE  IsAttrs(KeptAttrs(in, attrs)) /\ Len(KeptAttrs(in, attrs)) = Len(attrs)
<1>1. PICK n \in Nat : n = Len(attrs)
  BY DEF IsAttrs
<1>2. /\ DOMAIN attrs = 1..n
      /\ \A i \in 1..n : attrs[i][1] \in Attrs /\ attrs[i][2] \in Values
      /\ \A i, j \in 1..n : attrs[i][1] = attrs[j][1] => i = j
  <2>1. attrs \in Seq(Attrs \X Values)
    BY DEF IsAttrs
  <2>2. DOMAIN attrs = 1..n /\ \A i \in 1..n : attrs[i] \in Attrs \X Values
    BY <1>1, <2>1
  <2> QED
    BY <1>1, <2>2 DEF IsAttrs
<1>3. PICK kept : kept = KeptAttrs(in, attrs)
  OBVIOUS
<1>4. kept = [i \in 1..n |-> <<attrs[i][1], Kept(in, attrs[i][2])>>]
  BY <1>2, <1>3 DEF KeptAttrs
<1>5. \A i \in 1..n : Kept(in, attrs[i][2]) \in Values
  BY <1>2, RoundedAssumption DEF Kept
<1>6. \A i \in 1..n : kept[i] \in Attrs \X Values /\ kept[i][1] = attrs[i][1]
  BY <1>2, <1>4, <1>5
<1>7. kept \in Seq(Attrs \X Values) /\ Len(kept) = n
  <2>1. kept \in [1..n -> Attrs \X Values]
    BY <1>4, <1>6
  <2> QED
    BY <1>1, <2>1
<1>8. IsAttrs(kept)
  BY <1>2, <1>6, <1>7 DEF IsAttrs
<1> QED
  BY <1>1, <1>3, <1>7, <1>8

(* A format keeps what it has kept once. *)
LEMMA KeptTwice ==
    ASSUME NEW in, NEW attrs, IsAttrs(attrs)
    PROVE  KeptAttrs(in, KeptAttrs(in, attrs)) = KeptAttrs(in, attrs)
<1>1. PICK n \in Nat : n = Len(attrs)
  BY DEF IsAttrs
<1>2. DOMAIN attrs = 1..n /\ \A i \in 1..n : attrs[i][2] \in Values
  <2>1. attrs \in Seq(Attrs \X Values)
    BY DEF IsAttrs
  <2>2. DOMAIN attrs = 1..n /\ \A i \in 1..n : attrs[i] \in Attrs \X Values
    BY <1>1, <2>1
  <2> QED
    BY <2>2
<1>3. \A v \in Values : Kept(in, Kept(in, v)) = Kept(in, v)
  BY RoundedAssumption DEF Kept
<1>4. PICK kept : kept = KeptAttrs(in, attrs)
  OBVIOUS
<1>5. kept = [i \in 1..n |-> <<attrs[i][1], Kept(in, attrs[i][2])>>]
  BY <1>2, <1>4 DEF KeptAttrs
<1>6. /\ DOMAIN kept = 1..n
      /\ \A i \in 1..n : kept[i] = <<attrs[i][1], Kept(in, attrs[i][2])>>
      /\ \A i \in 1..n : kept[i][1] = attrs[i][1] /\ kept[i][2] = Kept(in, attrs[i][2])
  BY <1>5
<1>7. \A i \in 1..n : <<kept[i][1], Kept(in, kept[i][2])>> = <<attrs[i][1], Kept(in, attrs[i][2])>>
  BY <1>2, <1>3, <1>6
<1>8. KeptAttrs(in, kept) = kept
  BY <1>5, <1>6, <1>7 DEF KeptAttrs
<1> QED
  BY <1>4, <1>8

(* Labels that are kept are labels, and kept once for all.                 *)
LEMMA KeptLabelsAre ==
    ASSUME NEW in, NEW count \in Nat, NEW label, IsLabels(label, count)
    PROVE  /\ IsLabels(KeptLabels(in, label), count)
           /\ KeptLabels(in, KeptLabels(in, label)) = KeptLabels(in, label)
<1>1. /\ DOMAIN label = 0..(count - 1)
      /\ \A n \in 0..(count - 1) : label[n].type \in Elements /\ IsAttrs(label[n].attrs)
  BY DEF IsLabels, Label
<1>2. PICK kept : kept = KeptLabels(in, label)
  OBVIOUS
<1>3. kept = [n \in 0..(count - 1) |->
                 [type |-> label[n].type, attrs |-> KeptAttrs(in, label[n].attrs)]]
  BY <1>1, <1>2 DEF KeptLabels
<1>4. /\ DOMAIN kept = 0..(count - 1)
      /\ \A n \in 0..(count - 1) :
            /\ kept[n] = [type |-> label[n].type, attrs |-> KeptAttrs(in, label[n].attrs)]
            /\ kept[n].type = label[n].type
            /\ kept[n].attrs = KeptAttrs(in, label[n].attrs)
  BY <1>3
<1>5. \A n \in 0..(count - 1) : IsAttrs(kept[n].attrs)
  BY <1>1, <1>4, KeptAre
<1>6. \A n \in 0..(count - 1) : kept[n] \in Label
  BY <1>1, <1>4, <1>5 DEF IsAttrs, Label
<1>7. IsLabels(kept, count)
  BY <1>3, <1>5, <1>6 DEF IsLabels
<1>8. \A n \in 0..(count - 1) : KeptAttrs(in, kept[n].attrs) = kept[n].attrs
  BY <1>1, <1>4, KeptTwice
<1>9. KeptLabels(in, kept) =
          [n \in 0..(count - 1) |-> [type |-> kept[n].type, attrs |-> KeptAttrs(in, kept[n].attrs)]]
  BY <1>4 DEF KeptLabels
<1>10. \A n \in 0..(count - 1) :
          [type |-> kept[n].type, attrs |-> KeptAttrs(in, kept[n].attrs)] = kept[n]
  BY <1>4, <1>8
<1>11. KeptLabels(in, kept) = kept
  BY <1>3, <1>4, <1>9, <1>10
<1> QED
  BY <1>2, <1>7, <1>11

(* The labels of a graph are such. *)
LEMMA LabelsAre ==
    ASSUME GraphInv
    PROVE  IsLabels(Labels, node_count)
<1>1. TypeOK /\ RefsBelow /\ AttrsUnique /\ NodeIds = 0..(node_count - 1)
  BY DEF GraphInv, SlotInv, AttrInv, NodeIds
<1>2. ASSUME NEW n \in NodeIds
      PROVE  /\ IsAttrs(AttrList(n)) /\ nodes[n].type \in Elements
             /\ Labels[n] = [type |-> nodes[n].type, attrs |-> AttrList(n)]
  <2>1. PICK list : list = AttrSlots(n)
    OBVIOUS
  <2>2. list \in Seq(SlotIds)
    BY <1>1, <2>1, AttrSlotsType
  <2>3. PICK l \in Nat : l = Len(list) /\ DOMAIN list = 1..l
    BY <2>2
  <2>4. \A i \in 1..l : /\ slots[list[i]].type \in Attrs
                        /\ slots[list[i]].value \in Values
    BY <1>1, <2>2, <2>3 DEF TypeOK, Slot
  <2>5. \A i, j \in 1..l : slots[list[i]].type = slots[list[j]].type => i = j
    BY <1>1, <2>1, <2>3 DEF AttrsUnique
  <2>6. PICK attrs : attrs = AttrList(n)
    OBVIOUS
  <2>7. attrs = [i \in 1..l |-> <<slots[list[i]].type, slots[list[i]].value>>]
    BY <2>1, <2>3, <2>6 DEF AttrList
  <2>8. \A i \in 1..l : attrs[i] \in Attrs \X Values /\ attrs[i][1] = slots[list[i]].type
    BY <2>4, <2>7
  <2>9. attrs \in Seq(Attrs \X Values) /\ Len(attrs) = l
    <3>1. attrs \in [1..l -> Attrs \X Values]
      BY <2>7, <2>8
    <3> QED
      BY <2>3, <3>1
  <2>10. IsAttrs(attrs)
    BY <2>5, <2>8, <2>9 DEF IsAttrs
  <2>11. nodes[n].type \in Elements
    BY <1>1 DEF TypeOK, Node
  <2> QED
    BY <2>6, <2>10, <2>11 DEF Labels
<1>3. \A n \in NodeIds : Labels[n] \in Label /\ Labels[n].attrs = AttrList(n)
  <2> TAKE n \in NodeIds
  <2>1. PICK attrs, type : attrs = AttrList(n) /\ type = nodes[n].type
    OBVIOUS
  <2>2. IsAttrs(attrs) /\ type \in Elements /\ Labels[n] = [type |-> type, attrs |-> attrs]
    BY <1>2, <2>1
  <2>3. Labels[n].attrs = attrs /\ [type |-> type, attrs |-> attrs] \in Label
    BY <2>2 DEF Label, IsAttrs
  <2> QED
    BY <2>1, <2>2, <2>3
<1>4. Labels \in [NodeIds -> Label]
  BY <1>3 DEF Labels
<1> QED
  BY <1>1, <1>2, <1>3, <1>4 DEF IsLabels

-----------------------------------------------------------------------------
(* What is written for an event, and what calls it is read as *)

CallsFor(e, label) ==
    IF e[1] = "start"
    THEN <<<<"element", label[e[2]].type>>>> \o AttrSymbols(label[e[2]].attrs) \o <<<<"attr_none">>>>
    ELSE <<<<"element_none">>>>

XmlFor(events, i, label) ==
    LET one == label[events[i][2]]
    IN  IF events[i][1] = "start"
        THEN <<"<", one.type>> \o XmlAttrs(one.attrs)
                 \o (IF events[i + 1][1] = "end" THEN <<"/">> ELSE <<>>) \o <<">", " ">>
        ELSE IF events[i - 1][1] = "start" THEN <<>> ELSE <<"<", "/", one.type, ">", " ">>

CallPieces(events, label) == [i \in 1..Len(events) |-> CallsFor(events[i], label)]

XmlPieces(events, label) == [i \in 1..Len(events) |-> XmlFor(events, i, label)]

FileOf(in, events, label) ==
    FlattenSeq(IF in = "binary" THEN CallPieces(events, label) ELSE XmlPieces(events, label))

(* The emitters write this of the visit of a graph. *)
LEMMA FileIs ==
    ASSUME GraphInv, node_count > 0, format \in FormatNames
    PROVE  File = FileOf(format, Visit, KeptLabels(format, Labels))
<1>1. PICK v, kept : v = Visit /\ kept = KeptLabels(format, Labels)
  OBVIOUS
<1>2. Nested(v, nodes, node_count)
  BY <1>1, VisitNested
<1>3. DOMAIN v = 1..Len(v) /\ Len(v) \in Nat
  BY <1>2 DEF Nested
<1>4. \A n \in NodeIds : /\ kept[n].type = nodes[n].type
                         /\ kept[n].attrs = WrittenAttrs(n)
  <2>1. \A n \in NodeIds : Labels[n].type = nodes[n].type /\ Labels[n].attrs = AttrList(n)
    BY DEF Labels
  <2>2. DOMAIN Labels = NodeIds
    BY DEF Labels
  <2>3. \A n \in NodeIds : KeptAttrs(format, AttrList(n)) = WrittenAttrs(n)
    BY DEF KeptAttrs, Kept, WrittenAttrs, Written
  <2> QED
    BY <1>1, <2>1, <2>2, <2>3 DEF KeptLabels
<1>5. ASSUME NEW i \in 1..Len(v)
      PROVE  (IF v[i][1] = "start" THEN Begin(v[i][2]) ELSE End(v[i][2])) =
                 IF format = "binary" THEN CallsFor(v[i], kept) ELSE XmlFor(v, i, kept)
  <2>1. PICK n : n = v[i][2]
    OBVIOUS
  <2>2. n \in NodeIds
    BY <1>2, <2>1 DEF Nested, NestedAt, NodeIds
  <2>3. kept[n].type = nodes[n].type /\ kept[n].attrs = WrittenAttrs(n)
    BY <1>4, <2>2
  <2>4. v[i][1] = "start" \/ v[i][1] = "end"
    <3>1. v[i] \in Event
      BY <1>2, <1>3 DEF Nested
    <3> QED
      BY <3>1 DEF Event
  <2>5. v[i][1] = "start" => (v[i + 1][1] = "end" <=> Leaf(n))
    BY <1>2, <2>1 DEF Nested, NestedAt, Leaf
  <2>6. v[i][1] = "end" => (v[i - 1][1] = "start" <=> Leaf(n))
    BY <1>2, <2>1 DEF Nested, NestedAt, Leaf
  <2>7. CASE format = "binary"
    BY <2>1, <2>3, <2>7 DEF Begin, End, BinaryBegin, BinaryEnd, CallsFor
  <2>8. CASE format # "binary" /\ v[i][1] = "start"
    BY <2>1, <2>3, <2>5, <2>8 DEF Begin, XmlBegin, XmlFor
  <2>9. CASE format # "binary" /\ v[i][1] = "end"
    BY <2>1, <2>3, <2>6, <2>9 DEF End, XmlEnd, XmlFor
  <2> QED
    BY <2>4, <2>7, <2>8, <2>9
<1>6. File = FlattenSeq([i \in 1..Len(v) |->
                 IF v[i][1] = "start" THEN Begin(v[i][2]) ELSE End(v[i][2])])
  BY <1>1, <1>3 DEF File
<1>7. [i \in 1..Len(v) |-> IF v[i][1] = "start" THEN Begin(v[i][2]) ELSE End(v[i][2])] =
          IF format = "binary" THEN CallPieces(v, kept) ELSE XmlPieces(v, kept)
  BY <1>5 DEF CallPieces, XmlPieces
<1> QED
  BY <1>1, <1>6, <1>7 DEF FileOf

-----------------------------------------------------------------------------
(* The calls for an event *)

(* Attributes are called for one by one.                                   *)
LEMMA AttrSymbolsAre ==
    ASSUME NEW attrs, IsAttrs(attrs)
    PROVE  /\ IsSeq(AttrSymbols(attrs)) /\ Len(AttrSymbols(attrs)) = Len(attrs)
           /\ \A j \in 1..Len(attrs) :
                 AttrSymbols(attrs)[j] = <<"attr", attrs[j][1], attrs[j][2]>>
<1>1. PICK n \in Nat : n = Len(attrs) /\ DOMAIN attrs = 1..n
  BY DEF IsAttrs
<1>2. PICK s : s = AttrSymbols(attrs)
  OBVIOUS
<1>3. s = [i \in 1..n |-> <<"attr", attrs[i][1], attrs[i][2]>>]
  BY <1>1, <1>2 DEF AttrSymbols
<1>4. s = [i \in 1..n |-> s[i]]
  BY <1>3
<1>5. IsSeq(s) /\ Len(s) = n
  BY <1>4, SeqMade
<1> QED
  BY <1>1, <1>2, <1>3, <1>5

(* An element is called for, then its attributes are, and their end.       *)
StartCalls(s, one) ==
    /\ IsSeq(s) /\ Len(s) = Len(one.attrs) + 2
    /\ s[1] = <<"element", one.type>>
    /\ \A j \in 1..Len(one.attrs) : s[1 + j] = <<"attr", one.attrs[j][1], one.attrs[j][2]>>
    /\ s[Len(one.attrs) + 2] = <<"attr_none">>

EndCalls(s) == IsSeq(s) /\ Len(s) = 1 /\ s[1] = <<"element_none">>

(* These are the calls for an event.                                       *)
LEMMA CallsForIs ==
    ASSUME NEW e, NEW label, e[1] = "start" => IsAttrs(label[e[2]].attrs)
    PROVE  /\ IsSeq(CallsFor(e, label))
           /\ IF e[1] = "start" THEN StartCalls(CallsFor(e, label), label[e[2]])
                                ELSE EndCalls(CallsFor(e, label))
<1>1. PICK s, one : s = CallsFor(e, label) /\ one = label[e[2]]
  OBVIOUS
<1>2. CASE e[1] = "start"
  <2>1. PICK attrs, b : attrs = one.attrs /\ b = AttrSymbols(attrs)
    OBVIOUS
  <2>2. /\ IsSeq(b) /\ Len(b) = Len(attrs) /\ Len(attrs) \in Nat
        /\ \A j \in 1..Len(attrs) : b[j] = <<"attr", attrs[j][1], attrs[j][2]>>
    <3>1. IsAttrs(attrs)
      BY <1>1, <1>2, <2>1
    <3>2. Len(attrs) \in Nat
      BY <3>1 DEF IsAttrs
    <3> QED
      BY <2>1, <3>1, <3>2, AttrSymbolsAre
  <2>3. PICK a, c : a = <<<<"element", one.type>>>> /\ c = <<<<"attr_none">>>>
    OBVIOUS
  <2>4. /\ IsSeq(a) /\ Len(a) = 1 /\ a[1] = <<"element", one.type>>
        /\ IsSeq(c) /\ Len(c) = 1 /\ c[1] = <<"attr_none">>
    BY <2>3, OneSeq
  <2>5. PICK ab : ab = a \o b
    OBVIOUS
  <2>6. s = ab \o c
    BY <1>1, <1>2, <2>1, <2>3, <2>5 DEF CallsFor
  <2>7. JoinOf(ab, a, b)
    BY <2>2, <2>4, <2>5, JoinIs
  <2>8. IsSeq(ab)
    BY <2>7 DEF JoinOf
  <2>9. JoinOf(s, ab, c)
    BY <2>4, <2>6, <2>8, JoinIs
  <2>10. PICK n \in Nat : n = Len(attrs)
    BY <2>2
  <2>11. Len(ab) = n + 1 /\ IsSeq(s) /\ Len(s) = n + 2
    BY <2>2, <2>4, <2>7, <2>9, <2>10 DEF JoinOf
  <2>12. s[1] = <<"element", one.type>>
    <3>1. 1 \in 1..Len(a) /\ 1 \in 1..Len(ab)
      BY <2>4, <2>10, <2>11
    <3> QED
      BY <2>4, <2>7, <2>9, <3>1 DEF JoinOf
  <2>13. \A j \in 1..n : s[1 + j] = <<"attr", attrs[j][1], attrs[j][2]>>
    <3> TAKE j \in 1..n
    <3>1. j \in 1..Len(b) /\ 1 + j \in 1..Len(ab) /\ Len(a) + j = 1 + j
      BY <2>2, <2>4, <2>10, <2>11
    <3>2. s[1 + j] = ab[1 + j]
      BY <2>9, <3>1 DEF JoinOf
    <3>3. ab[Len(a) + j] = b[j]
      BY <2>7, <3>1 DEF JoinOf
    <3> QED
      BY <2>2, <2>10, <3>1, <3>2, <3>3
  <2>14. s[n + 2] = <<"attr_none">>
    <3>1. 1 \in 1..Len(c) /\ Len(ab) + 1 = n + 2
      BY <2>4, <2>11
    <3>2. s[Len(ab) + 1] = c[1]
      BY <2>9, <3>1 DEF JoinOf
    <3> QED
      BY <2>4, <3>1, <3>2
  <2>15. StartCalls(s, one)
    BY <2>1, <2>10, <2>11, <2>12, <2>13, <2>14 DEF StartCalls
  <2> QED
    BY <1>1, <1>2, <2>11, <2>15
<1>3. CASE e[1] # "start"
  <2>1. s = <<<<"element_none">>>>
    BY <1>1, <1>3 DEF CallsFor
  <2>2. EndCalls(s)
    BY <2>1, OneSeq DEF EndCalls
  <2> QED
    BY <1>1, <1>3, <2>2 DEF EndCalls
<1> QED
  BY <1>2, <1>3

-----------------------------------------------------------------------------
(* What the second run is given: the events and the labels of a whole      *)
(* document, what is open and how many elements there are after each       *)
(* event, and the calls up to each.                                        *)
IsSource(in, events, label, P, C, calls) ==
    /\ Trace(events, P, C)
    /\ P[Len(events)] = <<>> /\ C[Len(events)] > 0
    /\ IsLabels(label, C[Len(events)])
    /\ KeptLabels(in, label) = label
    /\ Joins(calls, CallPieces(events, label), Len(events))
    /\ \A k \in 0..Len(events) : IsSeq(calls[k])

(* Elements are never fewer than they were.                                *)
LEMMA TraceRises ==
    ASSUME NEW events, NEW P, NEW C, Trace(events, P, C)
    PROVE  \A i \in 0..Len(events) : \A j \in i..Len(events) : C[i] <= C[j]
<1>1. PICK n \in Nat : n = Len(events)
  BY DEF Trace
<1>2. C \in [0..n -> Nat] /\ \A i \in 1..n : C[i - 1] <= C[i]
  <2>1. C \in [0..n -> Nat] /\ \A i \in 1..n : Turn(events[i], P[i - 1], C[i - 1], P[i], C[i])
    BY <1>1 DEF Trace
  <2>2. \A i \in 1..n : C[i - 1] \in Nat
    BY <2>1
  <2>3. ASSUME NEW i \in 1..n PROVE C[i - 1] <= C[i]
    <3>1. PICK e, p, c, q, d : e = events[i] /\ p = P[i - 1] /\ c = C[i - 1] /\ q = P[i] /\ d = C[i]
      OBVIOUS
    <3>2. Turn(e, p, c, q, d) /\ c \in Nat
      BY <2>1, <2>2, <3>1
    <3>3. d = c + 1 \/ d = c
      BY <3>2 DEF Turn
    <3>4. c <= d
      BY <3>2, <3>3
    <3> QED
      BY <3>1, <3>4
  <2> QED
    BY <2>1, <2>3
<1>3. ASSUME NEW i \in 0..n PROVE \A j \in i..n : C[i] <= C[j]
  <2> DEFINE T == {j \in 0..n : j < i \/ C[i] <= C[j]}
  <2>1. 0 \in T
    BY <1>1, <1>2
  <2>2. ASSUME NEW j \in 1..n, j - 1 \in T PROVE j \in T
    <3>1. CASE j < i
      BY <3>1
    <3>2. CASE j = i
      BY <1>2, <3>2
    <3>3. CASE j > i
      <4>1. C[i] <= C[j - 1] /\ C[j - 1] <= C[j]
        BY <1>1, <1>2, <2>2, <3>3
      <4>2. C[i] \in Nat /\ C[j - 1] \in Nat /\ C[j] \in Nat
        BY <1>2
      <4>3. C[i] <= C[j] /\ j \in 0..n
        BY <4>1, <4>2
      <4> QED
        BY <4>3
    <3> QED
      BY <3>1, <3>2, <3>3
  <2>3. 0..n \subseteq T
    <3> HIDE DEF T
    <3> QED
      BY <1>1, <2>1, <2>2, Upwards
  <2> QED
    BY <2>3
<1> QED
  BY <1>1, <1>3

(* What there is to know of each event of a source. *)
EventOf(events, label, P, C, calls, k, piece) ==
    /\ events[k] \in Event
    /\ P[k - 1] \in Seq(Nat) /\ P[k] \in Seq(Nat)
    /\ C[k - 1] \in Nat /\ C[k] \in Nat /\ C[k] <= C[Len(events)]
    /\ Turn(events[k], P[k - 1], C[k - 1], P[k], C[k])
    /\ IF events[k][1] = "start" THEN StartCalls(piece, label[C[k - 1]]) /\ IsAttrs(label[C[k - 1]].attrs)
                                 ELSE EndCalls(piece)
    /\ Len(piece) \in Nat \ {0}
    /\ Len(calls[k - 1]) \in Nat
    /\ Len(calls[k]) = Len(calls[k - 1]) + Len(piece)
    /\ Len(calls[k]) <= Len(calls[Len(events)])
    /\ \A x \in 1..Len(piece) : calls[Len(events)][Len(calls[k - 1]) + x] = piece[x]

(* Each event of a source is such.                                         *)
LEMMA SourceEvents ==
    ASSUME NEW in, NEW events, NEW label, NEW P, NEW C, NEW calls,
           IsSource(in, events, label, P, C, calls)
    PROVE  /\ \A k \in 1..Len(events) :
                 EventOf(events, label, P, C, calls, k, CallsFor(events[k], label))
           /\ \A i \in 1..Len(events) : IsSeq(CallPieces(events, label)[i])
<1>1. PICK n \in Nat : n = Len(events)
  BY DEF IsSource, Trace
<1>2. /\ events \in Seq(Event)
      /\ P \in [0..n -> Seq(Nat)] /\ C \in [0..n -> Nat]
      /\ \A i \in 1..n : Turn(events[i], P[i - 1], C[i - 1], P[i], C[i])
      /\ \A i \in 0..n : \A j \in i..n : C[i] <= C[j]
      /\ \A m \in 0..(C[n] - 1) : IsAttrs(label[m].attrs)
      /\ calls[0] = <<>>
  BY <1>1, TraceRises DEF IsSource, Trace, IsLabels, Joins
<1>3. ASSUME NEW k \in 1..n
      PROVE  /\ events[k] \in Event
             /\ P[k - 1] \in Seq(Nat) /\ P[k] \in Seq(Nat)
             /\ C[k - 1] \in Nat /\ C[k] \in Nat /\ C[k] <= C[n]
             /\ Turn(events[k], P[k - 1], C[k - 1], P[k], C[k])
             /\ events[k][1] = "start" =>
                   IsAttrs(label[C[k - 1]].attrs) /\ events[k][2] = C[k - 1]
  <2>1. k \in 0..n /\ k - 1 \in 0..n /\ n \in k..n
    BY <1>1
  <2>2. Turn(events[k], P[k - 1], C[k - 1], P[k], C[k])
    BY <1>2
  <2>3. C[k - 1] \in Nat /\ C[k] \in Nat /\ C[n] \in Nat /\ C[k] <= C[n]
    <3>1. C[k - 1] \in Nat /\ C[k] \in Nat /\ C[n] \in Nat
      <4>1. n \in 0..n /\ C \in [0..n -> Nat]
        BY <1>1, <1>2
      <4> QED
        BY <2>1, <4>1
    <3>2. C[k] <= C[n]
      <4>1. \A i \in 0..n : \A j \in i..n : C[i] <= C[j]
        BY <1>2
      <4> QED
        BY <2>1, <4>1
    <3> QED
      BY <3>1, <3>2
  <2>4. events[k][1] = "start" => events[k][2] = C[k - 1] /\ C[k] = C[k - 1] + 1
    BY <2>2 DEF Turn
  <2>5. events[k][1] = "start" => C[k - 1] \in 0..(C[n] - 1)
    BY <2>3, <2>4
  <2>6. events[k] \in Event /\ P[k - 1] \in Seq(Nat) /\ P[k] \in Seq(Nat)
    <3>1. events \in Seq(Event) /\ P \in [0..n -> Seq(Nat)]
      BY <1>2
    <3>2. events[k] \in Event
      <4>1. k \in 1..Len(events)
        BY <1>1
      <4> QED
        BY ONLY <3>1, <4>1
    <3>3. P[k - 1] \in Seq(Nat) /\ P[k] \in Seq(Nat)
      BY ONLY <2>1, <3>1
    <3> QED
      BY <3>2, <3>3
  <2> QED
    BY <1>2, <2>2, <2>3, <2>4, <2>5, <2>6
<1>4. \A k \in 1..n : /\ CallPieces(events, label)[k] = CallsFor(events[k], label)
                      /\ IsSeq(CallsFor(events[k], label))
                      /\ IF events[k][1] = "start"
                         THEN StartCalls(CallsFor(events[k], label), label[C[k - 1]])
                         ELSE EndCalls(CallsFor(events[k], label))
  <2> TAKE k \in 1..n
  <2>1. PICK e : e = events[k]
    OBVIOUS
  <2>2. e[1] = "start" => IsAttrs(label[e[2]].attrs) /\ e[2] = C[k - 1]
    BY <1>3, <2>1
  <2>3. /\ IsSeq(CallsFor(e, label))
        /\ IF e[1] = "start" THEN StartCalls(CallsFor(e, label), label[e[2]])
                             ELSE EndCalls(CallsFor(e, label))
    BY <2>2, CallsForIs
  <2>4. CallPieces(events, label)[k] = CallsFor(events[k], label)
    BY <1>1 DEF CallPieces
  <2> QED
    BY <2>1, <2>2, <2>3, <2>4
<1>5. PICK q : q = CallPieces(events, label)
  OBVIOUS
<1>6. Joined(calls, q, n)
  <2>1. Joins(calls, q, n) /\ \A k \in 0..n : IsSeq(calls[k])
    BY <1>1, <1>5 DEF IsSource
  <2>2. \A k \in 1..n : IsSeq(q[k])
    BY <1>4, <1>5
  <2> QED
    BY <2>1, <2>2, JoinsHold
<1>7. ASSUME NEW k \in 1..n
      PROVE  EventOf(events, label, P, C, calls, k, CallsFor(events[k], label))
  <2>1. PICK piece : piece = CallsFor(events[k], label)
    OBVIOUS
  <2>2. k \in 0..n /\ k - 1 \in 0..n /\ n \in k..n
    BY <1>1
  <2>3. /\ Len(calls[k - 1]) \in Nat
        /\ Len(calls[k]) = Len(calls[k - 1]) + Len(piece)
        /\ Len(calls[k]) <= Len(calls[n])
        /\ \A x \in 1..Len(piece) : calls[n][Len(calls[k - 1]) + x] = piece[x]
    <3>1. q[k] = piece
      BY <1>4, <1>5, <2>1
    <3> QED
      BY ONLY <1>6, <2>2, <3>1, k \in 1..n DEF Joined
  <2>4. IF events[k][1] = "start" THEN StartCalls(piece, label[C[k - 1]]) ELSE EndCalls(piece)
    BY <1>4, <2>1
  <2>5. Len(piece) \in Nat \ {0}
    <3>1. CASE events[k][1] = "start"
      <4>1. Len(piece) = Len(label[C[k - 1]].attrs) + 2
        BY <2>4, <3>1 DEF StartCalls
      <4>2. Len(label[C[k - 1]].attrs) \in Nat
        BY <1>3, <3>1 DEF IsAttrs
      <4> QED
        BY <4>1, <4>2
    <3>2. CASE events[k][1] # "start"
      BY <2>4, <3>2 DEF EndCalls
    <3> QED
      BY <3>1, <3>2
  <2>6. EventOf(events, label, P, C, calls, k, piece)
    BY <1>1, <1>3, <2>3, <2>4, <2>5 DEF EventOf
  <2> QED
    BY <2>1, <2>6
<1> QED
  BY <1>1, <1>4, <1>7

-----------------------------------------------------------------------------
(* How far the graph at hand is a copy of the source *)

Got(events, P, C, k, label) ==
    /\ Document = SubSeq(events, 1, k)
    /\ OpenPath = P[k]
    /\ node_count = C[k]
    /\ Labels = label

LabelsUpTo(label, c) == [n \in 0..(c - 1) |-> label[n]]

LabelsWithin(label, c, j) ==
    [n \in 0..c |->
        IF n = c THEN [type |-> label[c].type, attrs |-> SubSeq(label[c].attrs, 1, j)]
                 ELSE label[n]]

(* The first k events are there; or, of the last of them, which is a       *)
(* start, the first j attributes.                                          *)
After(events, label, P, C, k) ==
    k \in 0..Len(events) /\ Got(events, P, C, k, LabelsUpTo(label, C[k]))

Within(events, label, P, C, k, j) ==
    /\ k \in 1..Len(events) /\ events[k][1] = "start"
    /\ j \in 0..Len(label[C[k - 1]].attrs)
    /\ Got(events, P, C, k, LabelsWithin(label, C[k - 1], j))

(* The events up to the next one are those up to now, and the next one.    *)
LEMMA NextEvent ==
    ASSUME NEW events \in Seq(Event), NEW k \in 1..Len(events)
    PROVE  SubSeq(events, 1, k) = Append(SubSeq(events, 1, k - 1), events[k])
<1>1. PICK i : i = k - 1
  OBVIOUS
<1>2. i \in 0..Len(events) /\ i + 1 <= Len(events) /\ i + 1 = k
  BY <1>1
<1>3. \A x \in 1..i : events[x] = events[x]
  OBVIOUS
<1>4. SubSeq(events, 1, i + 1) = Append(SubSeq(events, 1, i), events[i + 1])
  BY <1>2, <1>3, PrefixNext
<1> QED
  BY <1>1, <1>2, <1>4

(* A start is read: *)
LEMMA StartGoes ==
    ASSUME NEW events \in Seq(Event), NEW label, NEW P, NEW C, NEW calls, NEW piece,
           NEW k \in 1..Len(events), EventOf(events, label, P, C, calls, k, piece),
           events[k][1] = "start", After(events, label, P, C, k - 1),
           Tree!Open(node_count, label[C[k - 1]].type), node_count' = node_count + 1
    PROVE  Within(events, label, P, C, k, 0)'
<1>1. PICK c, one : c = C[k - 1] /\ one = label[c]
  OBVIOUS
<1>2. /\ c \in Nat /\ IsAttrs(one.attrs)
      /\ events[k] = <<"start", c>> /\ P[k] = Append(P[k - 1], c) /\ C[k] = c + 1
  BY <1>1 DEF EventOf, Turn
<1>3. /\ Document = SubSeq(events, 1, k - 1) /\ OpenPath = P[k - 1] /\ node_count = c
      /\ Labels = [n \in 0..(c - 1) |-> label[n]]
  BY <1>1 DEF After, Got, LabelsUpTo
<1>4. /\ Document' = Append(Document, <<"start", c>>)
      /\ OpenPath' = Append(OpenPath, c)
      /\ Labels' = [m \in 0..c |-> IF m = c THEN [type |-> one.type, attrs |-> <<>>]
                                            ELSE Labels[m]]
  BY <1>1, <1>3 DEF Tree!Open
<1>5. Document' = SubSeq(events, 1, k)
  BY <1>2, <1>3, <1>4, NextEvent
<1>6. SubSeq(one.attrs, 1, 0) = <<>> /\ 0 \in 0..Len(one.attrs)
  BY <1>2 DEF IsAttrs
<1>7. \A m \in 0..c : m = c \/ m \in 0..(c - 1)
  BY <1>2
<1>8. Labels' = LabelsWithin(label, c, 0)
  BY <1>1, <1>3, <1>4, <1>6, <1>7 DEF LabelsWithin
<1> QED
  BY <1>1, <1>2, <1>3, <1>4, <1>5, <1>6, <1>8 DEF Within, Got

(* and an end; *)
LEMMA EndGoes ==
    ASSUME NEW events \in Seq(Event), NEW label, NEW P, NEW C, NEW calls, NEW piece,
           NEW k \in 1..Len(events), EventOf(events, label, P, C, calls, k, piece),
           events[k][1] # "start", After(events, label, P, C, k - 1),
           Tree!Close, node_count' = node_count
    PROVE  After(events, label, P, C, k)'
<1>1. PICK p : p = P[k - 1]
  OBVIOUS
<1>2. /\ events[k] = <<"end", p[Len(p)]>>
      /\ P[k] = SubSeq(p, 1, Len(p) - 1) /\ C[k] = C[k - 1]
  BY <1>1 DEF EventOf, Turn
<1>3. /\ Document = SubSeq(events, 1, k - 1) /\ OpenPath = p /\ node_count = C[k]
      /\ Labels = LabelsUpTo(label, C[k])
  BY <1>1, <1>2 DEF After, Got
<1>4. /\ Document' = Append(Document, <<"end", p[Len(p)]>>)
      /\ OpenPath' = SubSeq(p, 1, Len(p) - 1)
      /\ Labels' = Labels
  BY <1>3 DEF Tree!Close
<1>5. Document' = SubSeq(events, 1, k)
  BY <1>2, <1>3, <1>4, NextEvent
<1>6. k \in 0..Len(events)
  OBVIOUS
<1> QED
  BY <1>2, <1>3, <1>4, <1>5, <1>6 DEF After, Got

(* an attribute, *)
LEMMA AttrGoes ==
    ASSUME NEW events \in Seq(Event), NEW label, NEW P, NEW C, NEW calls, NEW piece,
           NEW k, EventOf(events, label, P, C, calls, k, piece),
           NEW j, Within(events, label, P, C, k, j), j < Len(label[C[k - 1]].attrs),
           NEW a, NEW v, label[C[k - 1]].attrs[j + 1] = <<a, v>>,
           Tree!SetAttr(C[k - 1], a, v), node_count' = node_count
    PROVE  Within(events, label, P, C, k, j + 1)'
<1>1. PICK c, one, attrs : c = C[k - 1] /\ one = label[c] /\ attrs = one.attrs
  OBVIOUS
<1>2. /\ k \in 1..Len(events) /\ events[k][1] = "start"
      /\ c \in Nat /\ IsAttrs(attrs) /\ j \in 0..Len(attrs) /\ j < Len(attrs)
      /\ attrs[j + 1] = <<a, v>>
  BY <1>1 DEF EventOf, Within
<1>3. PICK before : before = SubSeq(attrs, 1, j)
  OBVIOUS
<1>4. /\ attrs \in Seq(Attrs \X Values) /\ Len(attrs) \in Nat
      /\ j \in Nat /\ j + 1 \in 1..Len(attrs)
      /\ before \in Seq(Attrs \X Values) /\ Len(before) = j /\ DOMAIN before = 1..j
      /\ \A i \in 1..j : before[i] = attrs[i]
  <2>1. attrs \in Seq(Attrs \X Values)
    BY <1>2 DEF IsAttrs
  <2>2. Len(attrs) \in Nat /\ DOMAIN attrs = 1..Len(attrs)
        /\ \A i \in 1..Len(attrs) : attrs[i] \in Attrs \X Values
    BY <2>1
  <2>3. j \in Nat /\ j + 1 \in 1..Len(attrs) /\ \A i \in 1..j : i \in 1..Len(attrs)
    BY <1>2, <2>2
  <2>4. IsSeq(before) /\ Len(before) = j /\ \A i \in 1..j : before[i] = attrs[i]
    <3>1. 1 \in Int /\ j \in Int /\ j - 1 + 1 = j
          /\ (1 <= j \/ j = 0) /\ \A i \in 1..j : 1 + i - 1 = i
      BY <2>3
    <3> QED
      BY <1>3, <2>3, <3>1, SeqPart
  <2>5. DOMAIN before = 1..j /\ before = [i \in 1..j |-> before[i]]
    BY <2>4, SeqDomain
  <2>6. before \in [1..j -> Attrs \X Values]
    BY <2>2, <2>3, <2>4, <2>5
  <2>7. before \in Seq(Attrs \X Values)
    BY <2>3, <2>6
  <2> QED
    BY <2>1, <2>2, <2>3, <2>4, <2>5, <2>7
<1>5. \A i \in DOMAIN before : before[i][1] # a
  <2> TAKE i \in DOMAIN before
  <2>1. i \in 1..Len(attrs) /\ i # j + 1 /\ before[i] = attrs[i]
    BY <1>4
  <2>2. attrs[i][1] # attrs[j + 1][1]
    BY <1>2, <1>4, <2>1 DEF IsAttrs
  <2>3. attrs[j + 1][1] = a
    BY <1>2
  <2> QED
    BY <2>1, <2>2, <2>3
<1>6. Tree!With(before, a, v) = SubSeq(attrs, 1, j + 1)
  <2>1. Tree!With(before, a, v) = Append(before, <<a, v>>)
    BY <1>5 DEF Tree!With
  <2>2. PICK more, longer : more = Append(before, <<a, v>>) /\ longer = SubSeq(attrs, 1, j + 1)
    OBVIOUS
  <2>3. <<a, v>> \in Attrs \X Values
    BY <1>2, <1>4
  <2>4. /\ more \in Seq(Attrs \X Values) /\ Len(more) = j + 1
        /\ \A i \in 1..j : more[i] = before[i]
        /\ more[j + 1] = <<a, v>>
    BY <1>4, <2>2, <2>3
  <2>5. /\ longer \in Seq(Attrs \X Values) /\ Len(longer) = j + 1
        /\ \A i \in 1..(j + 1) : longer[i] = attrs[i]
    BY <1>4, <2>2
  <2>6. \A i \in 1..(j + 1) : more[i] = longer[i]
    <3>1. \A i \in 1..(j + 1) : i = j + 1 \/ i \in 1..j
      BY <1>4
    <3> QED
      BY <1>2, <1>4, <2>4, <2>5, <3>1
  <2>7. more = longer
    BY <2>4, <2>5, <2>6, SeqEqual
  <2> QED
    BY <2>1, <2>2, <2>7
<1>7. /\ Document = SubSeq(events, 1, k) /\ OpenPath = P[k] /\ node_count = C[k]
      /\ Labels = [n \in 0..c |-> IF n = c THEN [type |-> one.type, attrs |-> before]
                                           ELSE label[n]]
  BY <1>1, <1>3 DEF Within, Got, LabelsWithin
<1>8. /\ Document' = Document /\ OpenPath' = OpenPath
      /\ Labels' = [Labels EXCEPT ![c].attrs = Tree!With(@, a, v)]
  BY <1>1 DEF Tree!SetAttr
<1>9. c \in 0..c
  BY <1>2
<1>10. Labels' = [n \in 0..c |->
                     IF n = c THEN [type |-> one.type, attrs |-> Tree!With(before, a, v)]
                              ELSE label[n]]
  <2>1. Labels[c] = [type |-> one.type, attrs |-> before]
    BY <1>7, <1>9
  <2>2. PICK w : w = Tree!With(before, a, v)
    OBVIOUS
  <2>3. [Labels[c] EXCEPT !.attrs = w] = [type |-> one.type, attrs |-> w]
    BY <2>1
  <2>4. Labels' = [Labels EXCEPT ![c] = [Labels[c] EXCEPT !.attrs = w]]
    <3>1. Labels[c].attrs = before
      BY <2>1
    <3> QED
      BY <1>8, <2>2, <3>1
  <2> QED
    BY <1>7, <2>2, <2>3, <2>4
<1>11. Labels' = LabelsWithin(label, c, j + 1)
  BY <1>1, <1>6, <1>10 DEF LabelsWithin
<1>12. j + 1 \in 0..Len(attrs)
  BY <1>2, <1>4
<1> QED
  BY <1>1, <1>2, <1>7, <1>8, <1>11, <1>12 DEF Within, Got

(* and the end of them. *)
LEMMA AttrsGo ==
    ASSUME NEW events \in Seq(Event), NEW label, NEW P, NEW C, NEW calls, NEW piece,
           NEW k, EventOf(events, label, P, C, calls, k, piece),
           Within(events, label, P, C, k, Len(label[C[k - 1]].attrs)),
           NEW count, IsLabels(label, count), C[k] <= count, count \in Nat,
           Document' = Document, OpenPath' = OpenPath, Labels' = Labels,
           node_count' = node_count
    PROVE  After(events, label, P, C, k)'
<1>1. PICK c, one, attrs : c = C[k - 1] /\ one = label[c] /\ attrs = one.attrs
  OBVIOUS
<1>2. /\ k \in 1..Len(events) /\ events[k][1] = "start"
      /\ c \in Nat /\ IsAttrs(attrs) /\ C[k] = c + 1
  BY <1>1 DEF EventOf, Within, Turn
<1>3. SubSeq(attrs, 1, Len(attrs)) = attrs
  BY <1>2 DEF IsAttrs
<1>4. [type |-> one.type, attrs |-> attrs] = one
  <2>1. c \in 0..(count - 1)
    BY <1>2
  <2>2. one \in Label
    BY <1>1, <2>1 DEF IsLabels
  <2> QED
    BY <1>1, <2>2 DEF Label
<1>5. LabelsWithin(label, c, Len(attrs)) = LabelsUpTo(label, C[k])
  <2>1. C[k] - 1 = c
    BY <1>2
  <2>2. LabelsUpTo(label, C[k]) = [n \in 0..c |-> label[n]]
    BY <2>1 DEF LabelsUpTo
  <2>3. LabelsWithin(label, c, Len(attrs)) = [n \in 0..c |-> IF n = c THEN one ELSE label[n]]
    BY <1>1, <1>3, <1>4 DEF LabelsWithin
  <2> QED
    BY <1>1, <2>2, <2>3
<1>6. k \in 0..Len(events)
  BY <1>2
<1> QED
  BY <1>1, <1>5, <1>6 DEF After, Within, Got

(* Nothing changes where the graph and the stack do not. *)
LEMMA GotKept ==
    ASSUME GraphInv, GraphInv', UNCHANGED <<graph, stack>>
    PROVE  /\ Document' = Document /\ OpenPath' = OpenPath /\ Labels' = Labels
           /\ node_count' = node_count
<1>1. UNCHANGED <<graph, node_stack, node_depth>> /\ node_count' = node_count
  BY DEF graph, stack
<1>2. Labels' = Labels /\ VisitRecurse' = VisitRecurse /\ VisitRec'
  BY <1>1, GraphKept DEF GraphInv, SlotInv, TreeInv, DocInv
<1> QED
  BY <1>1, <1>2 DEF Visit, Document, OpenPath

-----------------------------------------------------------------------------
(* What a call does *)

(* An element is opened; *)
LEMMA ElementRead ==
    ASSUME WellFormed, GraphInv, NEW t \in Elements, StartElement(t)
    PROVE  /\ GraphInv' /\ Tree!Open(node_count, t) /\ node_count' = node_count + 1
           /\ reading' /\ ~aborted'
<1>1. node_depth < MaxDepth /\ node_depth \in Nat /\ MaxDepth \in Nat
  BY DepthAssumption DEF GraphInv, TreeInv, StackInv, TypeOK
<1>2. ~aborted /\ Accepts /\ NodeAdd(t)
  BY <1>1 DEF StartElement
<1>3. [Next]_vars
  BY DEF Next
<1>4. GraphInv'
  BY <1>3, GraphStep
<1>5. Tree!Open(node_count, t)
  <2>1. TypeOK /\ SlotInv /\ TreeInv /\ DocInv
    BY DEF GraphInv
  <2>2. TypeOK' /\ SlotInv' /\ TreeInv'
    BY <1>4 DEF GraphInv
  <2> QED
    BY <1>2, <2>1, <2>2, AddOpens
<1>6. node_count' = node_count + 1 /\ reading' /\ ~aborted'
  BY <1>2 DEF NodeAdd
<1> QED
  BY <1>4, <1>5, <1>6

(* the innermost is closed; *)
LEMMA EndRead ==
    ASSUME WellFormed, GraphInv, node_depth > 0, EndElement
    PROVE  /\ GraphInv' /\ Tree!Close /\ node_count' = node_count
           /\ ~reading' /\ ~aborted'
<1>1. ~aborted /\ ~reading /\ StackPop
  BY DEF EndElement
<1>2. [Next]_vars
  BY DEF Next
<1>3. GraphInv'
  BY <1>2, GraphStep
<1>4. Tree!Close
  <2>1. TypeOK /\ SlotInv /\ TreeInv /\ DocInv
    BY DEF GraphInv
  <2>2. TypeOK' /\ SlotInv' /\ TreeInv'
    BY <1>3 DEF GraphInv
  <2>3. PopStep
    BY <1>1 DEF PopStep
  <2> QED
    BY <2>1, <2>2, <2>3, PopCloses
<1>5. node_count' = node_count /\ ~reading' /\ ~aborted'
  BY <1>1 DEF StackPop, graph
<1> QED
  BY <1>3, <1>4, <1>5

(* where none is open, the program is ended; *)
LEMMA EndTooMany ==
    ASSUME WellFormed, GraphInv, node_depth = 0, EndElement
    PROVE  GraphInv' /\ UNCHANGED <<graph, stack>> /\ ~reading' /\ aborted'
<1>1. ~reading /\ Abort
  BY DEF EndElement, StackPop
<1>2. [Next]_vars
  BY DEF Next
<1> QED
  BY <1>1, <1>2, GraphStep DEF Abort

(* an attribute that the newest element does not have is added to it; *)
LEMMA AttrRead ==
    ASSUME WellFormed, GraphInv, NEW a \in Attrs, NEW v \in Values, ReadAttr(a, v),
           \A i \in DOMAIN AttrList(node_count - 1) : AttrList(node_count - 1)[i][1] # a
    PROVE  /\ GraphInv' /\ Tree!SetAttr(node_count - 1, a, v)
           /\ node_count' = node_count /\ reading' /\ ~aborted'
<1>1. PICK n : n = node_count - 1
  OBVIOUS
<1>2. reading /\ WriteAttr(n, a, v)
  BY <1>1 DEF ReadAttr
<1>3. /\ TypeOK /\ SlotInv /\ TreeInv /\ DocInv /\ RefsBelow
      /\ ~aborted /\ node_count > 0
  BY <1>2 DEF GraphInv, AttrInv, SlotInv, ReadingInv
<1>4. n \in NodeIds
  BY <1>1, <1>3 DEF TypeOK, NodeIds
<1>5. \A i \in DOMAIN AttrSlots(n) : slots[AttrSlots(n)[i]].type # a
  <2>1. PICK list, given : list = AttrSlots(n) /\ given = AttrList(n)
    OBVIOUS
  <2>2. given = [i \in DOMAIN list |-> <<slots[list[i]].type, slots[list[i]].value>>]
    BY <2>1 DEF AttrList
  <2>3. \A i \in DOMAIN list : i \in DOMAIN given /\ given[i][1] = slots[list[i]].type
    BY <2>2
  <2>4. \A i \in DOMAIN given : given[i][1] # a
    BY <1>1, <2>1
  <2> QED
    BY <2>1, <2>3, <2>4
<1>6. FindAttr(n, a) = 0
  <2> SUFFICES ASSUME FindAttr(n, a) # 0 PROVE FALSE
    OBVIOUS
  <2>1. \E i \in DOMAIN AttrSlots(n) :
           AttrSlots(n)[i] = FindAttr(n, a) /\ slots[AttrSlots(n)[i]].type = a
    BY <1>3, <1>4, FindOnList
  <2> QED
    BY <1>5, <2>1
<1>7. AllocAttr(n, a, v)
  <2>1. 0 \notin SlotIds
    BY <1>3 DEF SlotIds, TypeOK
  <2> QED
    BY <1>2, <1>6, <2>1 DEF WriteAttr
<1>8. [Next]_vars
  BY DEF Next
<1>9. GraphInv'
  BY <1>8, GraphStep
<1>10. Tree!SetAttr(n, a, v)
  <2>1. TypeOK' /\ SlotInv' /\ TreeInv'
    BY <1>9 DEF GraphInv
  <2> QED
    BY <1>3, <1>4, <1>6, <1>7, <2>1, NewSets
<1>11. node_count' = node_count /\ reading' = reading /\ aborted' = aborted
  BY <1>7 DEF AllocAttr
<1> QED
  BY <1>1, <1>2, <1>3, <1>9, <1>10, <1>11

(* and the end of the attributes is only that. *)
LEMMA AttrsRead ==
    ASSUME WellFormed, GraphInv, EndAttrs
    PROVE  /\ GraphInv' /\ UNCHANGED <<graph, stack>>
           /\ ~reading' /\ aborted' = aborted
<1>1. [Next]_vars
  BY DEF Next
<1> QED
  BY <1>1, GraphStep DEF EndAttrs

-----------------------------------------------------------------------------
(* How far the second run has come: it has read the calls for k events; or *)
(* a start and j attributes; or one end too many.                          *)
Position(events, label, P, C, calls, r) ==
    \/ /\ ~reading /\ ~aborted
       /\ \E k \in 0..Len(events) :
             After(events, label, P, C, k) /\ r = Len(calls[k])
    \/ /\ reading /\ ~aborted
       /\ \E k \in 1..Len(events) : \E j \in Nat :
             Within(events, label, P, C, k, j) /\ r = Len(calls[k - 1]) + 1 + j
    \/ /\ ~reading /\ aborted
       /\ After(events, label, P, C, Len(events))
       /\ r = Len(calls[Len(events)]) + 1

(* What it is given: those calls, and perhaps an end too many.             *)
IsInput(all, calls, n) ==
    /\ IsSeq(all)
    /\ Len(calls[n]) \in Nat
    /\ Len(all) \in {Len(calls[n]), Len(calls[n]) + 1}
    /\ \A x \in 1..Len(calls[n]) : all[x] = calls[n][x]
    /\ Len(all) = Len(calls[n]) + 1 => all[Len(all)] = <<"element_none">>

(* After k events, the call for the next one is made. *)
LEMMA ReadNext ==
    ASSUME WellFormed, GraphInv, NEW in, NEW events, NEW label, NEW P, NEW C, NEW calls,
           IsSource(in, events, label, P, C, calls), NEW k \in 1..Len(events),
           After(events, label, P, C, k - 1), NEW symbol,
           symbol = calls[Len(events)][Len(calls[k - 1]) + 1], ReadSymbol(symbol)
    PROVE  GraphInv' /\ Position(events, label, P, C, calls, Len(calls[k - 1]) + 1)'
<1>1. PICK piece : piece = CallsFor(events[k], label)
  OBVIOUS
<1>2. EventOf(events, label, P, C, calls, k, piece)
  BY <1>1, SourceEvents
<1>3. events \in Seq(Event)
  BY DEF IsSource, Trace
<1>4. /\ Len(piece) \in Nat \ {0} /\ symbol = piece[1]
      /\ C[k - 1] \in Nat /\ C[k] <= C[Len(events)] /\ C[k] \in Nat
      /\ Len(calls[k]) = Len(calls[k - 1]) + Len(piece)
      /\ Len(calls[k - 1]) \in Nat
      /\ Turn(events[k], P[k - 1], C[k - 1], P[k], C[k])
  <2>1. Len(piece) \in Nat \ {0} => 1 \in 1..Len(piece)
    OBVIOUS
  <2> QED
    BY <1>2, <2>1 DEF EventOf
<1>5. CASE events[k][1] = "start"
  <2>1. PICK t : t = label[C[k - 1]].type
    OBVIOUS
  <2>2. t \in Elements
    <3>1. C[k] = C[k - 1] + 1
      BY <1>4, <1>5 DEF Turn
    <3>2. C[Len(events)] \in Nat
      BY DEF IsSource, Trace
    <3>3. C[k - 1] \in 0..(C[Len(events)] - 1)
      BY <1>4, <3>1, <3>2
    <3>4. label[C[k - 1]] \in Label
      BY <3>3 DEF IsSource, IsLabels
    <3> QED
      BY <2>1, <3>4 DEF Label
  <2>3. symbol = <<"element", t>>
    BY <1>2, <1>4, <1>5, <2>1 DEF EventOf, StartCalls
  <2>4. StartElement(t)
    BY <2>3 DEF ReadSymbol
  <2>5. /\ GraphInv' /\ Tree!Open(node_count, t) /\ node_count' = node_count + 1
        /\ reading' /\ ~aborted'
    BY <2>2, <2>4, ElementRead
  <2>6. Within(events, label, P, C, k, 0)'
    BY <1>2, <1>3, <1>5, <2>1, <2>5, StartGoes
  <2>7. Len(calls[k - 1]) + 1 = Len(calls[k - 1]) + 1 + 0 /\ 0 \in Nat
    BY <1>4
  <2> QED
    BY <2>5, <2>6, <2>7 DEF Position
<1>6. CASE events[k][1] # "start"
  <2>1. symbol = <<"element_none">> /\ Len(piece) = 1
    BY <1>2, <1>4, <1>6 DEF EventOf, EndCalls
  <2>2. EndElement
    BY <2>1 DEF ReadSymbol
  <2>3. node_depth > 0
    <3>1. P[k - 1] # <<>>
      BY <1>4, <1>6 DEF Turn
    <3>2. OpenPath = P[k - 1]
      BY DEF After, Got
    <3>3. node_depth \in Nat
      BY DEF GraphInv, TypeOK
    <3>4. node_depth = 0 => OpenPath = <<>>
      BY DEF OpenPath
    <3> QED
      BY <3>1, <3>2, <3>3, <3>4
  <2>4. /\ GraphInv' /\ Tree!Close /\ node_count' = node_count
        /\ ~reading' /\ ~aborted'
    BY <2>2, <2>3, EndRead
  <2>5. After(events, label, P, C, k)'
    BY <1>2, <1>3, <1>6, <2>4, EndGoes
  <2>6. k \in 0..Len(events) /\ Len(calls[k - 1]) + 1 = Len(calls[k])
    BY <1>4, <2>1
  <2> QED
    BY <2>4, <2>5, <2>6 DEF Position
<1> QED
  BY <1>5, <1>6

(* After j attributes, the next one is read, or their end.                 *)
LEMMA ReadWithin ==
    ASSUME WellFormed, GraphInv, NEW in, NEW events, NEW label, NEW P, NEW C, NEW calls,
           IsSource(in, events, label, P, C, calls), NEW k \in 1..Len(events), NEW j \in Nat,
           Within(events, label, P, C, k, j), ~aborted, NEW symbol,
           symbol = calls[Len(events)][Len(calls[k - 1]) + 1 + j + 1], ReadSymbol(symbol)
    PROVE  GraphInv' /\ Position(events, label, P, C, calls, Len(calls[k - 1]) + 1 + j + 1)'
<1>1. PICK piece : piece = CallsFor(events[k], label)
  OBVIOUS
<1>2. EventOf(events, label, P, C, calls, k, piece)
  BY <1>1, SourceEvents
<1>3. events \in Seq(Event) /\ C[Len(events)] \in Nat /\ IsLabels(label, C[Len(events)])
  BY DEF IsSource, Trace
<1>4. PICK c, one, attrs, m : c = C[k - 1] /\ one = label[c] /\ attrs = one.attrs /\ m = Len(attrs)
  OBVIOUS
<1>5. /\ events[k][1] = "start" /\ StartCalls(piece, one) /\ IsAttrs(attrs)
      /\ c \in Nat /\ C[k] \in Nat /\ C[k] = c + 1 /\ C[k] <= C[Len(events)]
      /\ Len(calls[k - 1]) \in Nat /\ Len(calls[k]) = Len(calls[k - 1]) + Len(piece)
      /\ j \in 0..m
  <2>1. events[k][1] = "start" /\ j \in 0..m
    BY <1>4 DEF Within
  <2>2. Turn(events[k], P[k - 1], c, P[k], C[k])
    BY <1>2, <1>4 DEF EventOf
  <2>3. C[k] = c + 1
    BY <2>1, <2>2 DEF Turn
  <2> QED
    BY <1>2, <1>4, <2>1, <2>3 DEF EventOf
<1>6. /\ m \in Nat /\ Len(piece) = m + 2
      /\ \A i \in 1..m : piece[1 + i] = <<"attr", attrs[i][1], attrs[i][2]>>
      /\ piece[m + 2] = <<"attr_none">>
  <2>1. m \in Nat
    <3>1. attrs \in Seq(Attrs \X Values)
      BY <1>5 DEF IsAttrs
    <3> QED
      BY <1>4, <3>1
  <2>2. /\ Len(piece) = m + 2
        /\ \A i \in 1..m : piece[1 + i] = <<"attr", attrs[i][1], attrs[i][2]>>
        /\ piece[m + 2] = <<"attr_none">>
    <3>1. StartCalls(piece, one) /\ one.attrs = attrs /\ Len(attrs) = m
      BY <1>4, <1>5
    <3> QED
      BY <3>1, Zenon DEF StartCalls
  <2> QED
    BY <2>1, <2>2
<1>7. j <= m /\ m \in Nat /\ Len(piece) = m + 2
  BY <1>5, <1>6
<1>8. PICK b, w : b = Len(calls[k - 1]) /\ w = Len(calls[k])
  OBVIOUS
<1>9. b \in Nat /\ w = b + Len(piece)
  BY <1>5, <1>8
<1>10. w = b + (m + 2)
  BY <1>7, <1>9
<1>11. symbol = piece[j + 2]
  <2>1. PICK x : x = j + 2
    OBVIOUS
  <2>2. x \in 1..Len(piece) /\ b + 1 + j + 1 = b + x
    BY ONLY <1>7, <1>9, <2>1, j \in Nat
  <2>3. calls[Len(events)][Len(calls[k - 1]) + x] = piece[x]
    BY <1>2, <2>2 DEF EventOf
  <2> QED
    BY <1>8, <2>1, <2>2, <2>3
<1>12. /\ node_count = c + 1 /\ Labels = LabelsWithin(label, c, j) /\ c \in NodeIds
  <2>1. node_count = c + 1 /\ Labels = LabelsWithin(label, c, j)
    BY <1>4, <1>5 DEF Within, Got
  <2> QED
    BY <1>5, <2>1 DEF NodeIds
<1>13. Len(events) \in Nat
  BY <1>3
<1>14. CASE j < m
  <2>1. PICK i : i = j + 1
    OBVIOUS
  <2>2. i \in 1..m /\ 1 + i = j + 2
    BY ONLY <1>7, <1>14, <2>1, j \in Nat
  <2>3. PICK a, v : a = attrs[i][1] /\ v = attrs[i][2]
    OBVIOUS
  <2>4. a \in Attrs /\ v \in Values /\ attrs[i] = <<a, v>>
    <3>1. attrs[i] \in Attrs \X Values
      BY <1>4, <1>5, <2>2 DEF IsAttrs
    <3> QED
      BY <2>3, <3>1
  <2>5. symbol = <<"attr", a, v>>
    BY <1>6, <1>11, <2>2, <2>3
  <2>6. ReadAttr(a, v)
    BY <2>5 DEF ReadSymbol
  <2>7. \A x \in DOMAIN AttrList(node_count - 1) : AttrList(node_count - 1)[x][1] # a
    <3>1. PICK given : given = AttrList(c)
      OBVIOUS
    <3>2. node_count - 1 = c
      BY <1>5, <1>12
    <3>3. given = SubSeq(attrs, 1, j)
      <4>1. Labels[c].attrs = given
        BY <1>12, <3>1 DEF Labels
      <4>2. c \in 0..c
        BY <1>5
      <4>3. LabelsWithin(label, c, j)[c].attrs = SubSeq(attrs, 1, j)
        BY <1>4, <4>2 DEF LabelsWithin
      <4> QED
        BY <1>12, <4>1, <4>3
    <3>4. /\ IsSeq(given) /\ Len(given) = j
          /\ \A x \in 1..j : given[x] = attrs[x]
      <4>1. 1 \in Int /\ j \in Int /\ j - 1 + 1 = j
            /\ (1 <= j \/ j = 0) /\ \A x \in 1..j : 1 + x - 1 = x
        OBVIOUS
      <4> QED
        BY <3>3, <4>1, SeqPart
    <3>5. DOMAIN given = 1..j
      BY <3>4, SeqDomain
    <3>6. ASSUME NEW x \in 1..j PROVE given[x][1] # a
      <4>1. x \in 1..m /\ x # i
        BY <1>6, <1>14, <2>1
      <4>2. attrs[x][1] # attrs[i][1]
        BY <1>4, <1>5, <2>2, <4>1 DEF IsAttrs
      <4> QED
        BY <2>3, <3>4, <4>2
    <3> QED
      BY <3>1, <3>2, <3>5, <3>6
  <2>8. /\ GraphInv' /\ Tree!SetAttr(node_count - 1, a, v)
        /\ node_count' = node_count /\ reading' /\ ~aborted'
    BY <2>4, <2>6, <2>7, AttrRead
  <2>9. node_count - 1 = C[k - 1]
    BY <1>4, <1>5, <1>12
  <2>10. Tree!SetAttr(C[k - 1], a, v)
    BY <2>8, <2>9
  <2>11. /\ j < Len(label[C[k - 1]].attrs) /\ label[C[k - 1]].attrs[j + 1] = <<a, v>>
    BY <1>4, <1>14, <2>1, <2>4
  <2>12. Within(events, label, P, C, k, j + 1)'
    BY <1>2, <1>3, <2>8, <2>10, <2>11, AttrGoes
  <2>13. b + 1 + j + 1 = b + 1 + (j + 1) /\ j + 1 \in Nat
    BY ONLY <1>9, j \in Nat
  <2> QED
    BY <1>8, <2>8, <2>12, <2>13 DEF Position
<1>15. CASE j = m
  <2>1. symbol = <<"attr_none">>
    BY <1>6, <1>11, <1>15
  <2>2. EndAttrs
    BY <2>1 DEF ReadSymbol
  <2>3. /\ GraphInv' /\ UNCHANGED <<graph, stack>> /\ ~reading' /\ ~aborted'
    BY <2>2, AttrsRead
  <2>4. /\ Document' = Document /\ OpenPath' = OpenPath /\ Labels' = Labels
        /\ node_count' = node_count
    BY <2>3, GotKept
  <2>5. Within(events, label, P, C, k, Len(label[C[k - 1]].attrs))
    BY <1>4, <1>15
  <2>6. After(events, label, P, C, k)'
    BY <1>2, <1>3, <1>5, <2>4, <2>5, AttrsGo
  <2>7. k \in 0..Len(events) /\ b + 1 + j + 1 = w
    BY ONLY <1>15, <1>7, <1>9, <1>10, j \in Nat, k \in 1..Len(events), <1>13
  <2> QED
    BY <1>8, <2>3, <2>6, <2>7 DEF Position
<1> QED
  BY <1>5, <1>6, <1>14, <1>15

(* After all of them, one end too many.                                    *)
LEMMA ReadExtra ==
    ASSUME WellFormed, GraphInv, NEW in, NEW events, NEW label, NEW P, NEW C, NEW calls,
           IsSource(in, events, label, P, C, calls),
           After(events, label, P, C, Len(events)), ReadSymbol(<<"element_none">>)
    PROVE  GraphInv' /\ Position(events, label, P, C, calls, Len(calls[Len(events)]) + 1)'
<1>1. EndElement
  BY DEF ReadSymbol
<1>2. node_depth = 0
  <2>1. OpenPath = <<>>
    BY DEF After, Got, IsSource
  <2>2. DOMAIN OpenPath = 1..node_depth /\ node_depth \in Nat
    BY DEF OpenPath, GraphInv, TypeOK
  <2> QED
    BY <2>1, <2>2
<1>3. GraphInv' /\ UNCHANGED <<graph, stack>> /\ ~reading' /\ aborted'
  BY <1>1, <1>2, EndTooMany
<1>4. /\ Document' = Document /\ OpenPath' = OpenPath /\ Labels' = Labels
      /\ node_count' = node_count
  BY <1>3, GotKept
<1>5. After(events, label, P, C, Len(events))'
  BY <1>4 DEF After, Got
<1> QED
  BY <1>3, <1>5 DEF Position

(* So each symbol of the input takes it one further.                       *)
LEMMA ReadOn ==
    ASSUME WellFormed, GraphInv, NEW in, NEW events, NEW label, NEW P, NEW C, NEW calls,
           IsSource(in, events, label, P, C, calls), NEW all,
           IsInput(all, calls, Len(events)), NEW r,
           Position(events, label, P, C, calls, r), r < Len(all), ReadSymbol(all[r + 1])
    PROVE  GraphInv' /\ Position(events, label, P, C, calls, r + 1)'
<1>1. PICK n \in Nat : n = Len(events)
  BY DEF IsSource, Trace
<1>2. PICK m : m = Len(calls[n])
  OBVIOUS
<1>3. /\ m \in Nat /\ Len(all) \in {m, m + 1}
      /\ \A x \in 1..m : all[x] = calls[n][x]
      /\ Len(all) = m + 1 => all[m + 1] = <<"element_none">>
  BY <1>1, <1>2 DEF IsInput
<1>4. \A k \in 1..n : EventOf(events, label, P, C, calls, k, CallsFor(events[k], label))
  BY <1>1, SourceEvents
<1>5. ASSUME ~reading, ~aborted, NEW k \in 0..n, After(events, label, P, C, k), r = Len(calls[k])
      PROVE  GraphInv' /\ Position(events, label, P, C, calls, r + 1)'
  <2>1. CASE k = n
    <3>1. all[r + 1] = <<"element_none">>
      BY <1>2, <1>3, <1>5, <2>1
    <3>2. ReadSymbol(<<"element_none">>)
      BY <3>1
    <3> QED
      BY <1>1, <1>5, <2>1, <3>2, ReadExtra
  <2>2. CASE k # n
    <3>1. PICK i : i = k + 1
      OBVIOUS
    <3>2. i \in 1..n /\ i - 1 = k
      BY <1>1, <2>2, <3>1
    <3>3. PICK piece : piece = CallsFor(events[i], label)
      OBVIOUS
    <3>4. EventOf(events, label, P, C, calls, i, piece)
      BY <1>4, <3>2, <3>3
    <3>5. r \in Nat /\ r + 1 \in 1..m
      <4>1. /\ Len(piece) \in Nat \ {0} /\ Len(calls[i - 1]) \in Nat
            /\ Len(calls[i]) = Len(calls[i - 1]) + Len(piece)
            /\ Len(calls[i]) <= m
        BY <1>1, <1>2, <3>4 DEF EventOf
      <4>2. r = Len(calls[i - 1])
        BY <1>5, <3>2
      <4> QED
        BY <1>3, <4>1, <4>2
    <3>6. all[r + 1] = calls[n][r + 1]
      BY <1>3, <3>5
    <3>7. After(events, label, P, C, i - 1) /\ r = Len(calls[i - 1])
      BY <1>5, <3>2
    <3> QED
      BY <1>1, <3>2, <3>6, <3>7, ReadNext
  <2> QED
    BY <2>1, <2>2
<1>6. ASSUME reading, ~aborted, NEW k \in 1..n, NEW j \in Nat,
             Within(events, label, P, C, k, j), r = Len(calls[k - 1]) + 1 + j
      PROVE  GraphInv' /\ Position(events, label, P, C, calls, r + 1)'
  <2>1. PICK piece, attrs : piece = CallsFor(events[k], label) /\ attrs = label[C[k - 1]].attrs
    OBVIOUS
  <2>2. EventOf(events, label, P, C, calls, k, piece)
    BY <1>4, <2>1
  <2>3. r + 1 \in 1..m
    <3>1. j \in 0..Len(attrs) /\ events[k][1] = "start"
      BY <1>6, <2>1 DEF Within
    <3>2. /\ Len(piece) = Len(attrs) + 2 /\ Len(attrs) \in Nat /\ Len(calls[k - 1]) \in Nat
          /\ Len(calls[k]) = Len(calls[k - 1]) + Len(piece)
          /\ Len(calls[k]) <= m
      <4>1. StartCalls(piece, label[C[k - 1]]) /\ IsAttrs(attrs)
        BY <2>1, <2>2, <3>1 DEF EventOf
      <4>2. /\ Len(calls[k - 1]) \in Nat
            /\ Len(calls[k]) = Len(calls[k - 1]) + Len(piece)
            /\ Len(calls[k]) <= m
        BY <1>1, <1>2, <2>2 DEF EventOf
      <4>3. Len(attrs) \in Nat /\ Len(piece) = Len(attrs) + 2
        BY <2>1, <4>1 DEF StartCalls, IsAttrs
      <4> QED
        BY <4>2, <4>3
    <3>3. PICK b, l, w : b = Len(calls[k - 1]) /\ l = Len(attrs) /\ w = Len(calls[k])
      OBVIOUS
    <3>4. w = b + (l + 2)
      <4>1. PICK z : z = Len(piece)
        OBVIOUS
      <4>2. w = b + z /\ z = l + 2
        BY ONLY <3>2, <3>3, <4>1
      <4> QED
        BY <4>2
    <3>5. r = b + 1 + j
      BY ONLY <1>6, <3>3
    <3>6. b \in Nat /\ l \in Nat /\ w <= m
      BY ONLY <3>2, <3>3
    <3>7. j <= l
      <4>1. j \in 0..l
        BY ONLY <3>1, <3>3
      <4> QED
        BY <3>6, <4>1
    <3>8. b \in Nat /\ l \in Nat /\ w = b + (l + 2) /\ w <= m /\ r = b + 1 + j /\ j <= l
      BY ONLY <3>4, <3>5, <3>6, <3>7
    <3> QED
      BY ONLY <1>3, <3>8, j \in Nat
  <2>4. all[r + 1] = calls[n][r + 1]
    BY <1>3, <2>3
  <2>5. all[r + 1] = calls[Len(events)][Len(calls[k - 1]) + 1 + j + 1]
    BY <1>1, <1>6, <2>4
  <2>6. k \in 1..Len(events)
    BY <1>1
  <2>7. GraphInv' /\ Position(events, label, P, C, calls, Len(calls[k - 1]) + 1 + j + 1)'
    BY <1>6, <2>5, <2>6, ReadWithin
  <2> QED
    BY <1>6, <2>7
<1>7. CASE aborted /\ r = m + 1
  BY <1>3, <1>7
<1> QED
  BY <1>1, <1>2, <1>5, <1>6, <1>7 DEF Position

-----------------------------------------------------------------------------
(* The first run emits *)

(* The calls for a visit can be joined.                                    *)
LEMMA VisitPieces ==
    ASSUME GraphInv, node_count > 0, NEW label, IsLabels(label, node_count)
    PROVE  \A i \in 1..Len(Visit) : IsSeq(CallPieces(Visit, label)[i])
<1>1. PICK v : v = Visit
  OBVIOUS
<1>2. Nested(v, nodes, node_count)
  BY <1>1, VisitNested
<1>3. ASSUME NEW i \in 1..Len(v) PROVE IsSeq(CallPieces(v, label)[i])
  <2>1. PICK e : e = v[i]
    OBVIOUS
  <2>2. e[2] \in 0..(node_count - 1)
    BY <1>2, <2>1 DEF Nested, NestedAt
  <2>3. IsAttrs(label[e[2]].attrs)
    BY <2>2 DEF IsLabels
  <2>4. IsSeq(CallsFor(e, label))
    BY <2>3, CallsForIs
  <2> QED
    BY <1>3, <2>1, <2>4 DEF CallPieces
<1> QED
  BY <1>1, <1>3

(* When the first run emits, its visit is a source, of which the second    *)
(* has read nothing.                                                       *)
LEMMA Emitted ==
    ASSUME GraphInv, HistoryInv, format \in FormatNames, Emit,
           NEW v, NEW given, v = Visit, given = KeptLabels(format, Labels)
    PROVE  /\ GraphInv' /\ ~reading' /\ ~aborted'
           /\ \E P, C, calls :
                 /\ IsSource(format, v, given, P, C, calls)
                 /\ After(v, given, P, C, 0)'
                 /\ P[0] = <<>> /\ calls[0] = <<>>
           /\ sent' = FileOf(format, v, given)
<1>1. v = Visit /\ given = KeptLabels(format, Labels)
  OBVIOUS
<1>2. node_count > 0 /\ node_count \in Nat /\ ~reading /\ ~aborted
  BY DEF Emit, GraphInv, TypeOK
<1>3. Init'
  BY <1>2 DEF Emit, Init, Levels
<1>4. GraphInv' /\ (Tree!Init)'
  <2>1. Init' => (GraphInv /\ Tree!Init)'
    BY GraphInit, PTL
  <2> QED
    BY <1>3, <2>1
<1>5. /\ Document' = <<>> /\ OpenPath' = <<>> /\ node_count' = 0
      /\ Labels' = [n \in {} |-> <<>>] /\ ~reading' /\ ~aborted'
  BY <1>3, <1>4 DEF Tree!Init, Init
<1>6. v \in Seq(Event) /\ TraceTo(v, <<>>, node_count)
  BY <1>1, <1>2, VisitTraced
<1>7. IsLabels(given, node_count) /\ KeptLabels(format, given) = given
  BY <1>1, <1>2, LabelsAre, KeptLabelsAre
<1>8. \A i \in 1..Len(v) : IsSeq(CallPieces(v, given)[i])
  BY <1>1, <1>2, <1>7, VisitPieces
<1>9. PICK P, C : /\ Trace(v, P, C) /\ P[Len(v)] = <<>> /\ C[Len(v)] = node_count
  BY <1>6 DEF TraceTo
<1>10. PICK n \in Nat : n = Len(v)
  BY <1>6
<1>11. PICK calls : /\ Joins(calls, CallPieces(v, given), Len(v))
                    /\ \A k \in 0..Len(v) : IsSeq(calls[k])
  BY <1>8, <1>10, JoinsExist
<1>12. IsSource(format, v, given, P, C, calls)
  BY <1>2, <1>7, <1>9, <1>11 DEF IsSource
<1>13. P[0] = <<>> /\ C[0] = 0 /\ calls[0] = <<>>
  BY <1>9, <1>11 DEF Trace, Joins
<1>14. After(v, given, P, C, 0)'
  <2>1. SubSeq(v, 1, 0) = <<>> /\ 0 \in 0..Len(v)
    BY <1>6, <1>10
  <2>2. LabelsUpTo(given, 0) = [i \in {} |-> <<>>]
    <3>1. 0..(0 - 1) = {}
      OBVIOUS
    <3> QED
      BY <3>1 DEF LabelsUpTo
  <2> QED
    BY <1>5, <1>13, <2>1, <2>2 DEF After, Got
<1>15. sent' = FileOf(format, v, given)
  BY <1>1, <1>2, FileIs DEF Emit
<1> QED
  BY <1>4, <1>5, <1>12, <1>13, <1>14, <1>15

-----------------------------------------------------------------------------
(* What is kept of a run *)

IsRest(rest, all, r) ==
    /\ IsSeq(rest) /\ Len(rest) = Len(all) - r
    /\ \A i \in 1..Len(rest) : rest[i] = all[r + i]

(* The second run reads what the first has written of a whole document.    *)
Copies(events, label, P, C, calls, all, r) ==
    /\ IsSource(format, events, label, P, C, calls)
    /\ sent = FileOf(format, events, label)
    /\ IsInput(all, calls, Len(events))
    /\ Len(all) > Len(calls[Len(events)]) => format = "binary" /\ "binary" \in Stdin
    /\ r \in 0..Len(all) /\ IsRest(wire, all, r)
    /\ Position(events, label, P, C, calls, r)

CopyInv ==
    \E events, label, P, C, calls, all, r :
        Copies(events, label, P, C, calls, all, r)

PipeInv ==
    /\ GraphInv /\ format \in Formats
    /\ stage = "source" => HistoryInv
    /\ stage = "copy" => IsSeq(sent) /\ CopyInv

(* Reading a call of the copy preserves it.                                *)
LEMMA CopyStep ==
    ASSUME WellFormed, PipeInv, ReadCopy
    PROVE  PipeInv'
<1>1. PICK events, label, P, C, calls, all, r : Copies(events, label, P, C, calls, all, r)
  BY DEF PipeInv, CopyInv, ReadCopy
<1>2. /\ GraphInv /\ stage = "copy" /\ wire # <<>> /\ ReadSymbol(Head(wire))
      /\ wire' = Tail(wire) /\ UNCHANGED <<format, stage, sent>>
  BY DEF PipeInv, ReadCopy
<1>3. PICK w, n : w = wire /\ n = Len(all)
  OBVIOUS
<1>4. /\ IsSeq(w) /\ w # <<>> /\ IsSeq(all)
      /\ r \in 0..n /\ Len(w) = n - r /\ \A i \in 1..Len(w) : w[i] = all[r + i]
  BY <1>1, <1>2, <1>3 DEF Copies, IsRest, IsInput
<1>5. /\ IsSeq(Tail(w)) /\ Len(w) > 0 /\ Len(Tail(w)) = Len(w) - 1 /\ Head(w) = w[1]
      /\ \A i \in 1..Len(Tail(w)) : Tail(w)[i] = w[i + 1]
  BY <1>4, SeqRest
<1>6. n \in Nat /\ r \in Nat /\ r < n /\ Len(w) \in Nat
  <2>1. n \in Nat /\ Len(w) \in Nat
    BY <1>3, <1>4, SeqDomain
  <2> QED
    BY <1>4, <1>5, <2>1
<1>7. Head(w) = all[r + 1]
  <2>1. 1 \in 1..Len(w)
    BY <1>5, <1>6
  <2> QED
    BY <1>4, <1>5, <2>1
<1>8. GraphInv' /\ Position(events, label, P, C, calls, r + 1)'
  <2>1. ReadSymbol(all[r + 1])
    BY <1>2, <1>3, <1>7
  <2>2. /\ IsSource(format, events, label, P, C, calls)
        /\ IsInput(all, calls, Len(events))
        /\ Position(events, label, P, C, calls, r)
    BY <1>1 DEF Copies
  <2> QED
    BY <1>2, <1>3, <1>6, <2>1, <2>2, ReadOn
<1>9. IsRest(Tail(w), all, r + 1)
  <2>1. PICK t : t = Tail(w)
    OBVIOUS
  <2>2. IsSeq(t) /\ Len(t) = Len(w) - 1 /\ \A i \in 1..Len(t) : t[i] = w[i + 1]
    BY <1>5, <2>1
  <2>3. Len(t) = n - (r + 1)
    BY <1>4, <1>6, <2>2
  <2>4. \A i \in 1..Len(t) : t[i] = all[(r + 1) + i]
    <3> TAKE i \in 1..Len(t)
    <3>1. i + 1 \in 1..Len(w) /\ r + (i + 1) = (r + 1) + i
      BY <1>6, <2>2
    <3> QED
      BY <1>4, <2>2, <3>1
  <2> QED
    BY <1>3, <2>1, <2>2, <2>3, <2>4 DEF IsRest
<1>10. Copies(events, label, P, C, calls, all, r + 1)'
  <2>1. r + 1 \in 0..n
    BY <1>6
  <2> QED
    BY <1>1, <1>2, <1>3, <1>8, <1>9, <2>1 DEF Copies
<1> QED
  BY <1>2, <1>8, <1>10 DEF PipeInv, CopyInv

(* So does reading the source,                                             *)
LEMMA SourceStep ==
    ASSUME WellFormed, PipeInv, ReadSource
    PROVE  PipeInv'
<1>1. GraphInv /\ stage = "source" /\ HistoryInv /\ [Next]_vars /\ UNCHANGED pipe
  BY DEF PipeInv, ReadSource
<1>2. GraphInv' /\ [Tree!Next]_(Tree!vars)
  BY <1>1, GraphStep
<1>3. HistoryInv'
  BY <1>1, <1>2, HistoryStep
<1> QED
  BY <1>1, <1>2, <1>3 DEF PipeInv, pipe

(* and standing still.                                                     *)
LEMMA PipeKept ==
    ASSUME WellFormed, PipeInv, UNCHANGED <<vars, pipe>>
    PROVE  PipeInv'
<1>1. /\ UNCHANGED pipe /\ UNCHANGED <<graph, stack>> /\ reading' = reading /\ aborted' = aborted
      /\ [Next]_vars
  BY DEF vars
<1>2. GraphInv /\ GraphInv'
  BY <1>1, GraphStep DEF PipeInv
<1>3. /\ Document' = Document /\ OpenPath' = OpenPath /\ Labels' = Labels
      /\ node_count' = node_count
  BY <1>1, <1>2, GotKept
<1>4. HistoryInv => HistoryInv'
  BY <1>3 DEF HistoryInv
<1>5. CopyInv => CopyInv'
  <2> SUFFICES ASSUME NEW events, NEW label, NEW P, NEW C, NEW calls, NEW all, NEW r,
                      Copies(events, label, P, C, calls, all, r)
               PROVE  Copies(events, label, P, C, calls, all, r)'
    BY DEF CopyInv
  <2>1. \A k : After(events, label, P, C, k) => After(events, label, P, C, k)'
    BY <1>3 DEF After, Got
  <2>2. \A k, j : Within(events, label, P, C, k, j) => Within(events, label, P, C, k, j)'
    BY <1>3 DEF Within, Got
  <2>3. Position(events, label, P, C, calls, r)'
    <3>1. Position(events, label, P, C, calls, r)
      BY DEF Copies
    <3> QED
      BY <1>1, <2>1, <2>2, <3>1 DEF Position
  <2> QED
    BY <1>1, <2>3 DEF Copies, pipe
<1> QED
  BY <1>1, <1>2, <1>4, <1>5 DEF PipeInv, pipe

(* It holds after the emission if what is received is such an input.       *)
LEMMA EmitCopies ==
    ASSUME PipeInv, Emit,
           \A P, C, calls :
              IsSource(format, Visit, KeptLabels(format, Labels), P, C, calls) =>
                /\ IsInput(wire', calls, Len(Visit))
                /\ Len(wire') > Len(calls[Len(Visit)]) => format = "binary" /\ "binary" \in Stdin,
           IsSeq(sent')
    PROVE  PipeInv'
<1>1. PICK v, given : v = Visit /\ given = KeptLabels(format, Labels)
  OBVIOUS
<1>2. GraphInv /\ HistoryInv /\ format \in FormatNames /\ format' = format /\ stage' = "copy"
  BY FormatsAssumption DEF PipeInv, Emit
<1>3. /\ GraphInv' /\ ~reading' /\ ~aborted' /\ sent' = FileOf(format, v, given)
      /\ \E P, C, calls :
                 /\ IsSource(format, v, given, P, C, calls)
                 /\ After(v, given, P, C, 0)'
                 /\ P[0] = <<>> /\ calls[0] = <<>>
  BY <1>1, <1>2, Emitted
<1>4. PICK P, C, calls : /\ IsSource(format, v, given, P, C, calls)
                         /\ After(v, given, P, C, 0)'
                         /\ P[0] = <<>> /\ calls[0] = <<>>
  BY <1>3
<1>5. /\ IsInput(wire', calls, Len(v))
      /\ Len(wire') > Len(calls[Len(v)]) => format = "binary" /\ "binary" \in Stdin
  BY <1>1, <1>4
<1>6. PICK all : all = wire'
  OBVIOUS
<1>7. IsSeq(all) /\ Len(all) \in Nat
  BY <1>5, <1>6, SeqDomain DEF IsInput
<1>8. IsRest(all, all, 0)
  <2>1. Len(all) = Len(all) - 0 /\ \A i \in 1..Len(all) : 0 + i = i
    BY <1>7
  <2> QED
    BY <1>7, <2>1 DEF IsRest
<1>9. Position(v, given, P, C, calls, 0)'
  <2>1. 0 = Len(calls[0]) /\ 0 \in 0..Len(v)
    <3>1. Len(v) \in Nat
      BY <1>4 DEF IsSource, Trace
    <3> QED
      BY <1>4, <3>1
  <2> QED
    BY <1>3, <1>4, <2>1 DEF Position
<1>10. Copies(v, given, P, C, calls, all, 0)'
  <2>1. 0 \in 0..Len(all)
    BY <1>7
  <2> QED
    BY <1>2, <1>3, <1>4, <1>5, <1>6, <1>8, <1>9, <2>1 DEF Copies
<1> QED
  BY <1>2, <1>3, <1>10 DEF PipeInv, CopyInv

-----------------------------------------------------------------------------
(* The binary format *)

(* The binary format keeps all there is.                                   *)
LEMMA KeptBinary ==
    ASSUME NEW count, NEW label, IsLabels(label, count)
    PROVE  KeptLabels("binary", label) = label
<1>1. PICK D : D = 0..(count - 1)
  OBVIOUS
<1>2. label \in [D -> Label] /\ \A n \in D : IsAttrs(label[n].attrs)
  BY <1>1 DEF IsLabels
<1>3. ASSUME NEW n \in D PROVE KeptAttrs("binary", label[n].attrs) = label[n].attrs
  <2>1. PICK attrs : attrs = label[n].attrs
    OBVIOUS
  <2>2. attrs \in Seq(Attrs \X Values)
    BY <1>2, <1>3, <2>1 DEF IsAttrs
  <2>3. \A i \in DOMAIN attrs : <<attrs[i][1], attrs[i][2]>> = attrs[i]
    <3> TAKE i \in DOMAIN attrs
    <3>1. attrs[i] \in Attrs \X Values
      BY <2>2
    <3> QED
      BY <3>1
  <2>4. KeptAttrs("binary", attrs) = [i \in DOMAIN attrs |-> <<attrs[i][1], attrs[i][2]>>]
    BY DEF KeptAttrs, Kept
  <2>5. attrs = [i \in DOMAIN attrs |-> attrs[i]]
    BY <2>2
  <2> QED
    BY <2>1, <2>3, <2>4, <2>5
<1>4. KeptLabels("binary", label) = [n \in D |-> [type |-> label[n].type, attrs |-> label[n].attrs]]
  BY <1>2, <1>3 DEF KeptLabels
<1>5. \A n \in D : [type |-> label[n].type, attrs |-> label[n].attrs] = label[n]
  BY <1>2 DEF Label
<1> QED
  BY <1>2, <1>4, <1>5

(* The binary file of a document is what it is called for by.              *)
LEMMA BinaryFile ==
    ASSUME NEW in, NEW events, NEW label, NEW P, NEW C, NEW calls,
           IsSource(in, events, label, P, C, calls)
    PROVE  FileOf("binary", events, label) = calls[Len(events)]
<1>1. PICK n, q : n \in Nat /\ n = Len(events) /\ q = CallPieces(events, label)
  BY DEF IsSource, Trace
<1>2. \A i \in 1..n : IsSeq(q[i])
  BY <1>1, SourceEvents
<1>3. q = [i \in 1..n |-> q[i]]
  BY <1>1 DEF CallPieces
<1>4. IsSeq(q) /\ Len(q) = n
  BY <1>1, <1>3, SeqMade
<1>5. Joins(calls, q, n)
  BY <1>1 DEF IsSource
<1>6. FlattenSeq(q) = calls[n]
  BY <1>2, <1>4, <1>5, FlattenAll
<1> QED
  BY <1>1, <1>6 DEF FileOf

(* The second run is given it, and perhaps an end more.                    *)
LEMMA BinaryInput ==
    ASSUME PipeInv, Emit, format = "binary", NEW P, NEW C, NEW calls,
           IsSource(format, Visit, KeptLabels(format, Labels), P, C, calls)
    PROVE  /\ IsInput(wire', calls, Len(Visit))
           /\ Len(wire') > Len(calls[Len(Visit)]) => "binary" \in Stdin
           /\ IsSeq(sent')
<1>1. PICK v, given, n, c : /\ v = Visit /\ given = KeptLabels(format, Labels)
                            /\ n = Len(v) /\ c = calls[n]
  OBVIOUS
<1>2. File = c
  <2>1. GraphInv /\ node_count > 0 /\ format \in FormatNames
    BY FormatsAssumption DEF PipeInv, Emit
  <2>2. File = FileOf(format, v, given)
    BY <1>1, <2>1, FileIs
  <2>3. FileOf("binary", v, given) = c
    BY <1>1, BinaryFile
  <2> QED
    BY <2>2, <2>3
<1>3. n \in Nat /\ IsSeq(c) /\ Len(c) \in Nat
  <2>1. n \in Nat
    BY <1>1 DEF IsSource, Trace
  <2>2. n \in 0..n
    BY <2>1
  <2>3. IsSeq(c)
    BY <1>1, <2>2 DEF IsSource
  <2> QED
    BY <2>1, <2>3, SeqDomain
<1>4. sent' = c
  BY <1>2 DEF Emit
<1>5. wire' = c \/ (wire' = c \o <<<<"element_none">>>> /\ "binary" \in Stdin)
  <2>1. \E file \in Received(c) : wire' = file
    BY <1>2 DEF Emit, Symbols
  <2>2. Received(c) = IF "binary" \in Stdin THEN {c, c \o <<<<"element_none">>>>} ELSE {c}
    BY DEF Received, BinaryEnd
  <2> QED
    BY <2>1, <2>2
<1>6. CASE wire' = c
  <2>1. IsInput(c, calls, n)
    BY <1>1, <1>3 DEF IsInput
  <2> QED
    BY <1>1, <1>3, <1>4, <1>6, <2>1
<1>7. CASE wire' = c \o <<<<"element_none">>>> /\ "binary" \in Stdin
  <2>1. PICK e, w : e = <<<<"element_none">>>> /\ w = wire'
    OBVIOUS
  <2>2. IsSeq(e) /\ Len(e) = 1 /\ e[1] = <<"element_none">>
    BY <2>1, OneSeq
  <2>3. JoinOf(w, c, e)
    BY <1>3, <1>7, <2>1, <2>2, JoinIs
  <2>4. 1 \in 1..Len(e)
    BY <2>2
  <2>5. IsInput(w, calls, n)
    BY <1>1, <1>3, <2>2, <2>3, <2>4 DEF IsInput, JoinOf
  <2> QED
    BY <1>1, <1>3, <1>4, <1>7, <2>1, <2>5
<1> QED
  BY <1>5, <1>6, <1>7

-----------------------------------------------------------------------------
(* What is there at the end *)

(* There is a call at least for each event.                                *)
LEMMA CallsRise ==
    ASSUME NEW in, NEW events, NEW label, NEW P, NEW C, NEW calls,
           IsSource(in, events, label, P, C, calls), NEW k \in 0..Len(events),
           Len(calls[k]) >= Len(calls[Len(events)])
    PROVE  k = Len(events)
<1>1. PICK n \in Nat : n = Len(events)
  BY DEF IsSource, Trace
<1> SUFFICES ASSUME k # n PROVE FALSE
  BY <1>1
<1>2. PICK i : i = k + 1
  OBVIOUS
<1>3. i \in 1..n /\ i - 1 = k
  BY <1>1, <1>2
<1>4. PICK piece : piece = CallsFor(events[i], label)
  OBVIOUS
<1>5. EventOf(events, label, P, C, calls, i, piece)
  BY <1>1, <1>3, <1>4, SourceEvents
<1>6. PICK a, b, c, d : a = Len(calls[k]) /\ b = Len(calls[i]) /\ c = Len(calls[n]) /\ d = Len(piece)
  OBVIOUS
<1>7. a \in Nat /\ d \in Nat \ {0} /\ b = a + d /\ b <= c
  BY <1>1, <1>3, <1>5, <1>6 DEF EventOf
<1>8. a >= c
  BY <1>1, <1>6
<1>9. c \in Nat
  BY <1>1, <1>6, SeqDomain DEF IsSource
<1> QED
  BY <1>7, <1>8, <1>9

(* When all has been read, the graph is a copy of the source.              *)
LEMMA AllRead ==
    ASSUME NEW events, NEW label, NEW P, NEW C, NEW calls, NEW all, NEW r,
           Copies(events, label, P, C, calls, all, r), wire = <<>>
    PROVE  After(events, label, P, C, Len(events))
<1>1. PICK n \in Nat : n = Len(events)
  BY DEF Copies, IsSource, Trace
<1>2. PICK m : m = Len(calls[n])
  OBVIOUS
<1>3. r = Len(all) /\ r >= m /\ m \in Nat /\ r \in Nat
  <2>1. Len(wire) = 0 /\ Len(all) - r = 0 /\ r \in 0..Len(all)
    BY DEF Copies, IsRest
  <2>2. m \in Nat /\ Len(all) \in {m, m + 1}
    BY <1>1, <1>2 DEF Copies, IsInput
  <2> QED
    BY <2>1, <2>2
<1>4. ASSUME NEW k \in 0..n, After(events, label, P, C, k), r = Len(calls[k])
      PROVE  After(events, label, P, C, n)
  <2>1. k = n
    BY <1>1, <1>2, <1>3, <1>4, CallsRise DEF Copies
  <2> QED
    BY <1>4, <2>1
<1>5. ASSUME NEW k \in 1..n, NEW j \in Nat,
             Within(events, label, P, C, k, j), r = Len(calls[k - 1]) + 1 + j
      PROVE  FALSE
  <2>1. PICK piece, attrs : piece = CallsFor(events[k], label) /\ attrs = label[C[k - 1]].attrs
    OBVIOUS
  <2>2. EventOf(events, label, P, C, calls, k, piece)
    BY <1>1, <2>1, SourceEvents DEF Copies
  <2>3. j \in 0..Len(attrs) /\ events[k][1] = "start"
    BY <1>5, <2>1 DEF Within
  <2>4. StartCalls(piece, label[C[k - 1]]) /\ IsAttrs(attrs)
    BY <2>1, <2>2, <2>3 DEF EventOf
  <2>5. /\ Len(calls[k - 1]) \in Nat
        /\ Len(calls[k]) = Len(calls[k - 1]) + Len(piece)
        /\ Len(calls[k]) <= m
    BY <1>1, <1>2, <2>2 DEF EventOf
  <2>6. Len(attrs) \in Nat /\ Len(piece) = Len(attrs) + 2
    BY <2>1, <2>4 DEF StartCalls, IsAttrs
  <2>7. PICK a, b, l, x : /\ a = Len(calls[k - 1]) /\ b = Len(calls[k])
                          /\ l = Len(attrs) /\ x = Len(piece)
    OBVIOUS
  <2>8. a \in Nat /\ b = a + x /\ b <= m /\ l \in Nat /\ x = l + 2
    BY <2>5, <2>6, <2>7
  <2>9. j \in 0..l /\ r = a + 1 + j
    BY <1>5, <2>3, <2>7
  <2> QED
    BY <1>3, <2>8, <2>9
<1> QED
  BY <1>1, <1>4, <1>5 DEF Copies, Position

(* What is written of the copy is what was sent.                           *)
LEMMA RoundTripHolds ==
    ASSUME PipeInv, stage = "copy", wire = <<>>
    PROVE  node_count > 0 /\ File = sent
<1>1. PICK events, label, P, C, calls, all, r : Copies(events, label, P, C, calls, all, r)
  BY DEF PipeInv, CopyInv
<1>2. IsSource(format, events, label, P, C, calls) /\ sent = FileOf(format, events, label)
  BY <1>1 DEF Copies
<1>3. PICK n \in Nat : n = Len(events)
  BY <1>2 DEF IsSource, Trace
<1>4. /\ events \in Seq(Event) /\ P[n] = <<>> /\ C[n] > 0 /\ IsLabels(label, C[n])
      /\ KeptLabels(format, label) = label
  BY <1>2, <1>3 DEF IsSource, Trace
<1>5. /\ Document = SubSeq(events, 1, n) /\ OpenPath = <<>> /\ node_count = C[n]
      /\ Labels = LabelsUpTo(label, C[n])
  BY <1>1, <1>3, <1>4, AllRead DEF After, Got
<1>6. Document = events
  BY <1>3, <1>4, <1>5
<1>7. Labels = label
  <2>1. DOMAIN label = 0..(C[n] - 1) /\ label = [x \in DOMAIN label |-> label[x]]
    BY <1>4 DEF IsLabels
  <2> QED
    BY <1>5, <2>1 DEF LabelsUpTo
<1>8. GraphInv /\ node_count > 0 /\ format \in FormatNames
  BY <1>4, <1>5, FormatsAssumption DEF PipeInv
<1>9. Visit = Document
  <2>1. node_depth = 0
    <3>1. DOMAIN OpenPath = 1..node_depth /\ node_depth \in Nat
      BY <1>8 DEF OpenPath, GraphInv, TypeOK
    <3> QED
      BY <1>5, <3>1
  <2>2. Visit \in Seq(Event)
    BY <1>8, DocumentIs
  <2>3. node_count # 0
    BY <1>8
  <2>4. SubSeq(Visit, 1, Len(Visit) - 0) = Visit
    BY <2>2
  <2> QED
    BY <2>1, <2>3, <2>4 DEF Document
<1>10. File = FileOf(format, Visit, KeptLabels(format, Labels))
  BY <1>8, FileIs
<1> QED
  BY <1>2, <1>4, <1>6, <1>7, <1>8, <1>9, <1>10

-----------------------------------------------------------------------------
(* A binary file that is cut off *)

Ends(n) == [d \in 1..n |-> <<"element_none">>]

(* There are so many ends.                                                 *)
LEMMA EndsAre ==
    ASSUME NEW n \in Nat
    PROVE  /\ IsSeq(Ends(n)) /\ Len(Ends(n)) = n
           /\ \A d \in 1..n : Ends(n)[d] = <<"element_none">>
<1>1. PICK s : s = Ends(n)
  OBVIOUS
<1>2. s = [d \in 1..n |-> <<"element_none">>]
  BY <1>1 DEF Ends
<1>3. s = [d \in 1..n |-> s[d]]
  BY <1>2
<1>4. IsSeq(s) /\ Len(s) = n
  BY <1>3, SeqMade
<1> QED
  BY <1>1, <1>2, <1>4

(* An end more is added behind.                                            *)
LEMMA EndsMore ==
    ASSUME NEW s, IsSeq(s), NEW n \in Nat \ {0}
    PROVE  s \o Ends(n) = (s \o Ends(n - 1)) \o <<<<"element_none">>>>
<1>1. PICK a, b, e, x, y, z, m : /\ a = Ends(n) /\ b = Ends(n - 1) /\ e = <<<<"element_none">>>>
                                 /\ x = s \o a /\ y = s \o b /\ z = y \o e /\ m = Len(s)
  OBVIOUS
<1>2. /\ IsSeq(a) /\ Len(a) = n /\ \A d \in 1..n : a[d] = <<"element_none">>
      /\ IsSeq(b) /\ Len(b) = n - 1 /\ \A d \in 1..(n - 1) : b[d] = <<"element_none">>
      /\ IsSeq(e) /\ Len(e) = 1 /\ e[1] = <<"element_none">>
      /\ m \in Nat
  <2>1. n - 1 \in Nat
    OBVIOUS
  <2> QED
    BY <1>1, <2>1, EndsAre, OneSeq, SeqDomain
<1>3. JoinOf(x, s, a) /\ JoinOf(y, s, b)
  BY <1>1, <1>2, JoinIs
<1>4. JoinOf(z, y, e)
  <2>1. IsSeq(y)
    BY <1>3 DEF JoinOf
  <2> QED
    BY <1>1, <1>2, <2>1, JoinIs
<1>5. /\ IsSeq(x) /\ Len(x) = m + n /\ Len(y) = m + (n - 1) /\ IsSeq(z) /\ Len(z) = m + n
  BY <1>1, <1>2, <1>3, <1>4 DEF JoinOf
<1>6. ASSUME NEW i \in 1..(m + n) PROVE x[i] = z[i]
  <2>1. CASE i \in 1..m
    <3>1. x[i] = s[i] /\ y[i] = s[i]
      BY <1>1, <1>3, <2>1 DEF JoinOf
    <3>2. i \in 1..Len(y)
      BY <1>2, <1>5, <2>1
    <3> QED
      BY <1>4, <3>1, <3>2 DEF JoinOf
  <2>2. CASE i \in (m + 1)..(m + n)
    <3>1. PICK d : d = i - m
      OBVIOUS
    <3>2. d \in 1..n /\ i = m + d
      BY <1>2, <2>2, <3>1
    <3>3. x[i] = <<"element_none">>
      BY <1>1, <1>2, <1>3, <3>2 DEF JoinOf
    <3>4. CASE d = n
      <4>1. 1 \in 1..Len(e) /\ i = Len(y) + 1
        BY <1>2, <1>5, <3>2, <3>4
      <4> QED
        BY <1>2, <1>4, <3>3, <4>1 DEF JoinOf
    <3>5. CASE d # n
      <4>1. d \in 1..(n - 1) /\ i \in 1..Len(y)
        BY <1>2, <1>5, <3>2, <3>5
      <4>2. y[i] = <<"element_none">>
        BY <1>1, <1>2, <1>3, <3>2, <4>1 DEF JoinOf
      <4> QED
        BY <1>4, <3>3, <4>1, <4>2 DEF JoinOf
    <3> QED
      BY <3>4, <3>5
  <2> QED
    BY <1>2, <2>1, <2>2
<1>7. x = z
  BY <1>5, <1>6, SeqSame
<1> QED
  BY <1>1, <1>7

(* The file of a graph is that of its document, with the ends of what is   *)
(* open.                                                                   *)
LEMMA FileEnds ==
    ASSUME GraphInv, node_count > 0, format = "binary", NEW k \in Nat, k = Len(Document), NEW f,
           Joins(f, CallPieces(Document, Labels), k), \A i \in 0..k : IsSeq(f[i])
    PROVE  File = f[k] \o Ends(node_depth)
<1>1. PICK v, doc, label, n, depth, path : /\ v = Visit /\ doc = Document /\ label = Labels
                                           /\ n = Len(v) /\ depth = node_depth /\ path = OpenPath
  OBVIOUS
<1>2. /\ doc \in Seq(Event) /\ v \in Seq(Event) /\ Len(doc) = n - depth
      /\ Completes(v, doc, path)
  BY <1>1, DocumentIs
<1>3. /\ n \in Nat /\ depth \in Nat /\ n = k + depth
  <2>1. n \in Nat /\ depth \in Nat
    BY <1>1, <1>2 DEF GraphInv, TypeOK
  <2> QED
    BY <1>1, <1>2, <2>1
<1>4. Len(path) = depth
  <2>1. path = [x \in 1..depth |-> node_stack[x - 1]]
    BY <1>1 DEF OpenPath
  <2>2. path = [x \in 1..depth |-> path[x]]
    BY <2>1
  <2> QED
    BY <1>3, <2>2, SeqMade
<1>5. PICK q : q = CallPieces(v, label)
  OBVIOUS
<1>6. /\ \A i \in 1..n : IsSeq(q[i]) /\ q[i] = CallsFor(v[i], label)
      /\ IsSeq(q) /\ Len(q) = n
  <2>1. IsLabels(label, node_count)
    BY <1>1, LabelsAre
  <2>2. \A i \in 1..n : IsSeq(q[i])
    BY <1>1, <1>5, <2>1, VisitPieces
  <2>3. q = [i \in 1..n |-> CallsFor(v[i], label)]
    BY <1>1, <1>5 DEF CallPieces
  <2>4. q = [i \in 1..n |-> q[i]] /\ \A i \in 1..n : q[i] = CallsFor(v[i], label)
    BY <2>3
  <2> QED
    BY <1>3, <2>2, <2>4, SeqMade
<1>7. \A i \in 1..k : q[i] = CallPieces(doc, label)[i]
  <2> TAKE i \in 1..k
  <2>1. i \in 1..Len(doc) /\ i \in 1..n
    BY <1>1, <1>3
  <2>2. v[i] = doc[i]
    BY <1>2, <2>1 DEF Completes
  <2> QED
    BY <1>6, <2>1, <2>2 DEF CallPieces
<1>8. \A i \in (k + 1)..n : q[i] = <<<<"element_none">>>>
  <2> TAKE i \in (k + 1)..n
  <2>1. PICK x : x = n + 1 - i
    OBVIOUS
  <2>2. x \in 1..Len(path) /\ i = n + 1 - x /\ i \in 1..n
    BY <1>3, <1>4, <2>1
  <2>3. v[i] = <<"end", path[x]>>
    BY <1>1, <1>2, <2>2 DEF Completes
  <2>4. v[i][1] # "start"
    BY <2>3
  <2> QED
    BY <1>6, <2>2, <2>4 DEF CallsFor
<1>9. PICK c : c = f[k]
  OBVIOUS
<1>10. IsSeq(c)
  BY <1>9
<1>11. PICK g : g = [i \in 0..n |-> IF i <= k THEN f[i] ELSE c \o Ends(i - k)]
  OBVIOUS
<1>12. Joins(g, q, n)
  <2>1. g[0] = <<>>
    <3>1. 0 \in 0..n /\ 0 <= k
      BY <1>3
    <3> QED
      BY <1>11, <3>1 DEF Joins
  <2>2. ASSUME NEW i \in 1..n PROVE g[i] = g[i - 1] \o q[i]
    <3>1. i \in 0..n /\ i - 1 \in 0..n
      BY <1>3
    <3>2. CASE i <= k
      <4>1. i \in 1..k /\ i - 1 <= k
        BY <3>1, <3>2
      <4>2. f[i] = f[i - 1] \o CallPieces(doc, label)[i]
        BY <1>1, <4>1 DEF Joins
      <4> QED
        BY <1>7, <1>11, <3>1, <3>2, <4>1, <4>2
    <3>3. CASE i = k + 1
      <4>1. g[i - 1] = c /\ g[i] = c \o Ends(1)
        <5>1. i - 1 = k /\ k <= k /\ ~ (i <= k) /\ i - k = 1
          BY <3>3
        <5> QED
          BY <1>9, <1>11, <3>1, <5>1
      <4>2. Ends(1) = <<<<"element_none">>>>
        <5>1. PICK e, o : e = Ends(1) /\ o = <<<<"element_none">>>>
          OBVIOUS
        <5>2. IsSeq(e) /\ Len(e) = 1 /\ e[1] = <<"element_none">>
          <6>1. 1 \in Nat /\ 1 \in 1..1
            OBVIOUS
          <6> QED
            BY <5>1, <6>1, EndsAre
        <5>3. IsSeq(o) /\ Len(o) = 1 /\ o[1] = <<"element_none">>
          BY <5>1, OneSeq
        <5>4. \A d \in 1..Len(e) : e[d] = o[d]
          BY <5>2, <5>3
        <5>5. e = o
          BY <5>2, <5>3, <5>4, SeqSame
        <5> QED
          BY <5>1, <5>5
      <4>3. i \in (k + 1)..n
        BY <1>3, <3>3
      <4> QED
        BY <1>8, <4>1, <4>2, <4>3
    <3>4. CASE i > k + 1
      <4>1. PICK m : m = i - k
        OBVIOUS
      <4>2. m \in Nat \ {0} /\ i - 1 - k = m - 1 /\ ~ (i <= k) /\ ~ (i - 1 <= k) /\ i \in (k + 1)..n
        BY <1>3, <3>4, <4>1
      <4>3. g[i] = c \o Ends(m) /\ g[i - 1] = c \o Ends(m - 1)
        BY <1>11, <3>1, <4>1, <4>2
      <4>4. c \o Ends(m) = (c \o Ends(m - 1)) \o <<<<"element_none">>>>
        BY <1>10, <4>2, EndsMore
      <4>5. q[i] = <<<<"element_none">>>>
        BY <1>8, <4>2
      <4> QED
        BY ONLY <4>3, <4>4, <4>5
    <3>5. i <= k \/ i = k + 1 \/ i > k + 1
      BY <1>3, <3>1
    <3> QED
      BY ONLY <3>5, <3>2, <3>3, <3>4
  <2> QED
    BY <2>1, <2>2 DEF Joins
<1>13. FlattenSeq(q) = g[n]
  BY <1>6, <1>12, FlattenAll
<1>14. g[n] = c \o Ends(depth)
  <2>1. n \in 0..n
    BY <1>3
  <2>2. CASE depth = 0
    <3>1. n = k /\ n <= k
      BY <1>3, <2>2
    <3>2. g[n] = c
      BY <1>9, <1>11, <2>1, <3>1
    <3>3. PICK e, u : e = Ends(0) /\ u = c \o e
      OBVIOUS
    <3>4. IsSeq(e) /\ Len(e) = 0
      BY <3>3, EndsAre
    <3>5. JoinOf(u, c, e)
      BY <1>10, <3>3, <3>4, JoinIs
    <3>6. IsSeq(u) /\ Len(u) = Len(c) /\ \A i \in 1..Len(u) : u[i] = c[i]
      <4>1. Len(c) \in Nat
        BY <1>10, SeqDomain
      <4> QED
        BY <3>4, <3>5, <4>1 DEF JoinOf
    <3>7. u = c
      BY <1>10, <3>6, SeqSame
    <3> QED
      BY <2>2, <3>2, <3>3, <3>7
  <2>3. CASE depth # 0
    <3>1. ~ (n <= k) /\ n - k = depth
      BY <1>3, <2>3
    <3> QED
      BY <1>11, <2>1, <3>1
  <2> QED
    BY <2>2, <2>3
<1>15. File = FlattenSeq(q)
  <2>1. format \in FormatNames
    BY DEF FormatNames
  <2>2. File = FileOf(format, v, KeptLabels(format, label))
    BY <1>1, <2>1, FileIs
  <2>3. KeptLabels("binary", label) = label
    BY <1>1, LabelsAre, KeptBinary
  <2> QED
    BY <1>5, <2>2, <2>3 DEF FileOf
<1> QED
  BY <1>1, <1>9, <1>13, <1>14, <1>15

(* The calls of a source are joined.                                       *)
LEMMA SourceJoined ==
    ASSUME NEW in, NEW events, NEW label, NEW P, NEW C, NEW calls,
           IsSource(in, events, label, P, C, calls)
    PROVE  Joined(calls, CallPieces(events, label), Len(events))
<1>1. PICK n, q : n = Len(events) /\ q = CallPieces(events, label)
  OBVIOUS
<1>2. n \in Nat
  BY <1>1 DEF IsSource, Trace
<1>3. \A i \in 1..n : IsSeq(q[i])
  BY <1>1, SourceEvents
<1>4. Joins(calls, q, n) /\ \A k \in 0..n : IsSeq(calls[k])
  BY <1>1 DEF IsSource
<1>5. Joined(calls, q, n)
  BY <1>3, <1>4, <1>2, JoinsHold
<1> QED
  BY <1>1, <1>5

(* Labels that agree on what has been started make the same calls.         *)
Agree(given, label, count) == \A c \in 0..(count - 1) : given[c] = label[c]

Begins(doc, events, k) ==
    Len(doc) \in Nat /\ k <= Len(doc) /\ \A i \in 1..k : doc[i] = events[i]

Alike(in, events, label, P, C, calls, k, given, doc) ==
    /\ IsSource(in, events, label, P, C, calls)
    /\ k \in 0..Len(events)
    /\ Agree(given, label, C[k])
    /\ Begins(doc, events, k)

SameUpTo(calls, k, q) == \A i \in 1..k : calls[i] = calls[i - 1] \o q[i]

(* A document that begins alike is called for alike.                       *)
LEMMA SameCalls ==
    ASSUME NEW in, NEW events, NEW label, NEW P, NEW C, NEW calls, NEW k, NEW given, NEW doc,
           Alike(in, events, label, P, C, calls, k, given, doc)
    PROVE  SameUpTo(calls, k, CallPieces(doc, given))
<1>a. /\ IsSource(in, events, label, P, C, calls)
      /\ k \in 0..Len(events)
      /\ Agree(given, label, C[k])
      /\ Begins(doc, events, k)
  BY DEF Alike
<1>1. PICK n \in Nat : n = Len(events)
  BY <1>a DEF IsSource, Trace
<1>2. ASSUME NEW i \in 1..k
      PROVE  calls[i] = calls[i - 1] \o CallPieces(doc, given)[i]
  <2>1. i \in 1..n /\ k \in Nat /\ k \in i..n /\ i \in 0..n
    BY <1>a, <1>1
  <2>2. i \in 1..Len(doc) /\ doc[i] = events[i]
    BY <1>a, <2>1 DEF Begins
  <2>3. PICK piece : piece = CallsFor(events[i], label)
    OBVIOUS
  <2>4. EventOf(events, label, P, C, calls, i, piece)
    BY <1>a, <1>1, <2>1, <2>3, SourceEvents
  <2>5. events[i][1] = "start" => given[events[i][2]] = label[events[i][2]]
    <3> SUFFICES ASSUME events[i][1] = "start" PROVE given[events[i][2]] = label[events[i][2]]
      OBVIOUS
    <3>1. events[i][2] = C[i - 1] /\ C[i] = C[i - 1] + 1 /\ C[i - 1] \in Nat
      BY <2>4 DEF EventOf, Turn
    <3>2. C[i] <= C[k]
      BY <1>a, <1>1, <2>1, TraceRises DEF IsSource
    <3>3. C[k] \in Nat
      BY <1>a DEF IsSource, Trace
    <3>4. C[i - 1] \in 0..(C[k] - 1)
      BY <3>1, <3>2, <3>3
    <3> QED
      BY <1>a, <3>1, <3>4 DEF Agree
  <2>6. CallsFor(doc[i], given) = CallsFor(events[i], label)
    BY <2>2, <2>5 DEF CallsFor
  <2>7. CallPieces(doc, given)[i] = CallPieces(events, label)[i]
    BY <1>1, <2>1, <2>2, <2>6 DEF CallPieces
  <2>8. calls[i] = calls[i - 1] \o CallPieces(events, label)[i]
    BY <1>a, <1>1, <2>1 DEF IsSource, Joins
  <2> QED
    BY <2>7, <2>8
<1> QED
  BY <1>2 DEF SameUpTo

(* What is written after k events is what was read for them, and the ends; *)
LEMMA CutBetween ==
    ASSUME PipeInv, format = "binary", node_count > 0,
           NEW events, NEW label, NEW P, NEW C, NEW calls,
           IsSource("binary", events, label, P, C, calls), NEW k,
           After(events, label, P, C, k)
    PROVE  File = SubSeq(calls[Len(events)], 1, Len(calls[k])) \o Ends(node_depth)
<1>1. PICK n, doc, given : n \in Nat /\ n = Len(events) /\ doc = Document /\ given = Labels
  BY DEF IsSource, Trace
<1>2. /\ events \in Seq(Event) /\ k \in 0..n /\ doc = SubSeq(events, 1, k)
      /\ given = LabelsUpTo(label, C[k])
  BY <1>1 DEF IsSource, Trace, After, Got
<1>3. k \in Nat /\ Len(doc) = k /\ \A i \in 1..k : doc[i] = events[i]
  BY <1>1, <1>2
<1>4. Agree(given, label, C[k])
  BY <1>2 DEF LabelsUpTo, Agree
<1>5. \A i \in 1..k : calls[i] = calls[i - 1] \o CallPieces(doc, given)[i]
  <2>1. Begins(doc, events, k) /\ k \in 0..Len(events)
    BY <1>1, <1>2, <1>3 DEF Begins
  <2>2. Alike("binary", events, label, P, C, calls, k, given, doc)
    BY <1>4, <2>1 DEF Alike
  <2>3. SameUpTo(calls, k, CallPieces(doc, given))
    BY ONLY <2>2, SameCalls
  <2> QED
    BY <2>3 DEF SameUpTo
<1>6. Joins(calls, CallPieces(doc, given), k) /\ \A i \in 0..k : IsSeq(calls[i])
  <2>1. calls[0] = <<>> /\ \A i \in 0..n : IsSeq(calls[i])
    BY <1>1 DEF IsSource, Joins
  <2>2. \A i \in 0..k : i \in 0..n
    BY <1>1, <1>2
  <2> QED
    BY <1>5, <2>1, <2>2 DEF Joins
<1>7. File = calls[k] \o Ends(node_depth)
  <2>1. GraphInv
    BY DEF PipeInv
  <2> QED
    BY <1>1, <1>3, <1>6, <2>1, FileEnds
<1>8. SubSeq(calls[n], 1, Len(calls[k])) = calls[k]
  <2>1. PICK a, b, m, z : a = calls[k] /\ b = calls[n] /\ m = Len(a) /\ z = SubSeq(b, 1, m)
    OBVIOUS
  <2>2. IsSeq(a) /\ m \in Nat
    BY <1>3, <1>6, <2>1, SeqDomain
  <2>3. \A x \in 1..m : b[x] = a[x]
    <3>1. Joined(calls, CallPieces(events, label), n)
      BY <1>1, SourceJoined
    <3> QED
      BY <1>2, <2>1, <3>1 DEF Joined
  <2>4. IsSeq(z) /\ Len(z) = m /\ \A x \in 1..m : z[x] = b[x]
    <3>1. 1 \in Int /\ m \in Int /\ m - 1 + 1 = m
          /\ (1 <= m \/ m = 0) /\ \A x \in 1..m : 1 + x - 1 = x
      BY <2>2
    <3> QED
      BY <2>1, <3>1, SeqPart
  <2>5. \A x \in 1..Len(z) : z[x] = a[x]
    BY <2>3, <2>4
  <2>6. z = a
    BY <2>1, <2>2, <2>4, <2>5, SeqSame
  <2> QED
    BY <2>1, <2>6
<1> QED
  BY <1>1, <1>7, <1>8

(* within a start, there is the end of the attributes as well.             *)
LEMMA CutWithin ==
    ASSUME PipeInv, format = "binary", node_count > 0,
           NEW events, NEW label, NEW P, NEW C, NEW calls,
           IsSource("binary", events, label, P, C, calls), NEW k, NEW j,
           Within(events, label, P, C, k, j)
    PROVE  File = (SubSeq(calls[Len(events)], 1, Len(calls[k - 1]) + 1 + j) \o <<<<"attr_none">>>>)
                      \o Ends(node_depth)
<1>1. PICK n, doc, given : n \in Nat /\ n = Len(events) /\ doc = Document /\ given = Labels
  BY DEF IsSource, Trace
<1>2. PICK c, one, attrs, h : c = C[k - 1] /\ one = label[c] /\ attrs = one.attrs /\ h = k - 1
  OBVIOUS
<1>3. /\ events \in Seq(Event) /\ k \in 1..n /\ doc = SubSeq(events, 1, k)
      /\ events[k][1] = "start" /\ j \in 0..Len(attrs)
      /\ given = LabelsWithin(label, c, j)
  BY <1>1, <1>2 DEF IsSource, Trace, Within, Got
<1>4. k \in Nat /\ Len(doc) = k /\ \A i \in 1..k : doc[i] = events[i]
  BY <1>1, <1>3
<1>5. PICK piece : piece = CallsFor(events[k], label)
  OBVIOUS
<1>6. EventOf(events, label, P, C, calls, k, piece)
  BY <1>1, <1>3, <1>5, SourceEvents
<1>7. StartCalls(piece, one) /\ IsAttrs(attrs) /\ c \in Nat /\ events[k] = <<"start", c>>
  <2>1. events[k][1] = "start" /\ C[k - 1] = c /\ label[C[k - 1]] = one /\ one.attrs = attrs
    BY <1>2, <1>3
  <2>2. /\ StartCalls(piece, one) /\ IsAttrs(one.attrs) /\ c \in Nat
        /\ Turn(events[k], P[k - 1], c, P[k], C[k])
    BY <1>6, <2>1 DEF EventOf
  <2>3. PICK e, p, q, d : e = events[k] /\ p = P[k - 1] /\ q = P[k] /\ d = C[k]
    OBVIOUS
  <2>4. Turn(e, p, c, q, d) /\ e[1] = "start"
    BY <2>1, <2>2, <2>3
  <2>5. e = <<"start", c>>
    BY <2>4 DEF Turn
  <2> QED
    BY <2>1, <2>2, <2>3, <2>5
<1>8. PICK part : part = SubSeq(attrs, 1, j)
  OBVIOUS
<1>9. j \in Nat /\ j <= Len(attrs) /\ Len(attrs) \in Nat
  BY <1>3, <1>7 DEF IsAttrs
<1>10. IsSeq(part) /\ Len(part) = j /\ \A i \in 1..j : part[i] = attrs[i]
  <2>1. 1 \in Int /\ j \in Int /\ j - 1 + 1 = j
        /\ (1 <= j \/ j = 0) /\ \A x \in 1..j : 1 + x - 1 = x
    BY <1>9
  <2> QED
    BY <1>8, <2>1, SeqPart
<1>11. given[c] = [type |-> one.type, attrs |-> part]
  <2>1. c \in 0..c
    BY <1>7
  <2> QED
    BY <1>2, <1>3, <1>8, <2>1 DEF LabelsWithin
<1>12. IsAttrs(part)
  <2>1. given \in [0..(node_count - 1) -> Label] /\ \A m \in 0..(node_count - 1) : IsAttrs(given[m].attrs)
    BY <1>1, LabelsAre DEF PipeInv, IsLabels
  <2>2. c \in 0..(node_count - 1)
    <3>1. node_count = C[k] /\ C[k] = c + 1
      BY <1>2, <1>3, <1>6 DEF Within, Got, EventOf, Turn
    <3> QED
      BY <1>7, <3>1
  <2> QED
    BY <1>11, <2>1, <2>2
<1>13. PICK now : now = CallsFor(events[k], given)
  OBVIOUS
<1>14. IsSeq(now) /\ StartCalls(now, given[c])
  <2>1. IsAttrs(given[events[k][2]].attrs)
    BY <1>7, <1>11, <1>12
  <2> QED
    BY <1>3, <1>7, <1>13, <2>1, CallsForIs
<1>15. /\ Len(now) = j + 2 /\ now[1] = piece[1]
       /\ \A i \in 1..j : now[1 + i] = piece[1 + i]
       /\ now[j + 2] = <<"attr_none">>
       /\ Len(piece) = Len(attrs) + 2
  <2>1. PICK x : x = given[c]
    OBVIOUS
  <2>2. x.type = one.type /\ x.attrs = part
    BY <1>11, <2>1
  <2>3. StartCalls(now, x)
    BY <1>14, <2>1
  <2>4. /\ Len(now) = j + 2 /\ now[1] = <<"element", one.type>>
        /\ \A i \in 1..j : now[1 + i] = <<"attr", part[i][1], part[i][2]>>
        /\ now[j + 2] = <<"attr_none">>
    BY <1>10, <2>2, <2>3 DEF StartCalls
  <2>5. /\ piece[1] = <<"element", one.type>> /\ Len(piece) = Len(attrs) + 2
        /\ \A i \in 1..Len(attrs) : piece[1 + i] = <<"attr", attrs[i][1], attrs[i][2]>>
    BY <1>2, <1>7 DEF StartCalls
  <2>6. \A i \in 1..j : i \in 1..Len(attrs)
    BY <1>9
  <2> QED
    BY <1>10, <2>4, <2>5, <2>6
<1>16. h \in 0..n /\ h \in Nat /\ h + 1 = k /\ h < k
  BY <1>1, <1>2, <1>3
<1>17. PICK f : f = [i \in 0..k |-> IF i < k THEN calls[i] ELSE calls[h] \o now]
  OBVIOUS
<1>18. \A i \in 1..h : calls[i] = calls[i - 1] \o CallPieces(doc, given)[i]
  <2>1. Agree(given, label, C[h])
    <3>1. C[h] = c
      BY <1>2
    <3>2. \A m \in 0..(c - 1) : m \in 0..c /\ m # c
      BY <1>7
    <3> QED
      BY <1>3, <3>1, <3>2 DEF LabelsWithin, Agree
  <2>2. Begins(doc, events, h) /\ h \in 0..Len(events)
    <3>1. \A i \in 1..h : i \in 1..k
      BY <1>4, <1>16
    <3> QED
      BY <1>1, <1>4, <1>16, <3>1 DEF Begins
  <2>3. Alike("binary", events, label, P, C, calls, h, given, doc)
    BY <2>1, <2>2 DEF Alike
  <2>4. SameUpTo(calls, h, CallPieces(doc, given))
    BY ONLY <2>3, SameCalls
  <2> QED
    BY <2>4 DEF SameUpTo
<1>19. CallPieces(doc, given)[k] = now
  <2>1. k \in 1..Len(doc) /\ doc[k] = events[k]
    BY <1>3, <1>4
  <2> QED
    BY <1>13, <2>1 DEF CallPieces
<1>20. /\ \A i \in 0..n : IsSeq(calls[i])
       /\ calls[0] = <<>>
  BY <1>1 DEF IsSource, Joins
<1>21. Joins(f, CallPieces(doc, given), k)
  <2>1. f[0] = <<>>
    <3>1. 0 \in 0..k /\ 0 < k
      BY <1>1, <1>3
    <3> QED
      BY <1>17, <1>20, <3>1
  <2>2. ASSUME NEW i \in 1..k PROVE f[i] = f[i - 1] \o CallPieces(doc, given)[i]
    <3>1. i \in 0..k /\ i - 1 \in 0..k /\ i - 1 < k
      BY <1>1, <1>3
    <3>2. f[i - 1] = calls[i - 1]
      BY <1>17, <3>1
    <3>3. CASE i = k
      <4>1. f[i] = calls[h] \o now
        BY <1>4, <1>17, <3>1, <3>3
      <4> QED
        BY <1>2, <1>19, <3>2, <3>3, <4>1
    <3>4. CASE i # k
      <4>1. i < k /\ i \in 1..h
        BY <1>4, <1>16, <3>1, <3>4
      <4>2. f[i] = calls[i]
        BY <1>17, <3>1, <4>1
      <4> QED
        BY <1>18, <3>2, <4>1, <4>2
    <3> QED
      BY <3>3, <3>4
  <2> QED
    BY <2>1, <2>2 DEF Joins
<1>22. f[k] = calls[h] \o now
  <2>1. k \in 0..k /\ ~ (k < k)
    BY <1>4
  <2> QED
    BY <1>17, <2>1
<1>23. PICK a, u, b, all : /\ a = calls[h] /\ u = a \o now /\ b = Len(a) /\ all = calls[n]
  OBVIOUS
<1>24. IsSeq(a) /\ b \in Nat /\ JoinOf(u, a, now)
  <2>1. IsSeq(a)
    BY <1>16, <1>20, <1>23
  <2> QED
    BY <1>14, <1>23, <2>1, SeqDomain, JoinIs
<1>25. \A i \in 0..k : IsSeq(f[i])
  <2> TAKE i \in 0..k
  <2>1. CASE i = k
    BY <1>22, <1>23, <1>24, <2>1 DEF JoinOf
  <2>2. CASE i # k
    <3>1. i < k /\ i \in 0..n
      BY <1>1, <1>3, <2>2
    <3> QED
      BY <1>17, <1>20, <3>1
  <2> QED
    BY <2>1, <2>2
<1>26. File = u \o Ends(node_depth)
  <2>1. GraphInv
    BY DEF PipeInv
  <2> QED
    BY <1>1, <1>4, <1>21, <1>22, <1>23, <1>25, <2>1, FileEnds
<1>27. PICK s, e, w, m : /\ m = b + 1 + j /\ s = SubSeq(all, 1, m) /\ e = <<<<"attr_none">>>> /\ w = s \o e
  OBVIOUS
<1>28. m \in Nat /\ m = b + (j + 1)
  BY <1>9, <1>24, <1>27
<1>29. IsSeq(s) /\ Len(s) = m /\ \A x \in 1..m : s[x] = all[x]
  <2>1. 1 \in Int /\ m \in Int /\ m - 1 + 1 = m
        /\ (1 <= m \/ m = 0) /\ \A x \in 1..m : 1 + x - 1 = x
    BY <1>28
  <2> QED
    BY <1>27, <2>1, SeqPart
<1>30. IsSeq(e) /\ Len(e) = 1 /\ e[1] = <<"attr_none">>
  BY <1>27, OneSeq
<1>31. JoinOf(w, s, e)
  BY <1>27, <1>29, <1>30, JoinIs
<1>32. /\ IsSeq(u) /\ Len(u) = m + 1 /\ IsSeq(w) /\ Len(w) = m + 1
  <2>1. IsSeq(u) /\ Len(u) = b + (j + 2) /\ IsSeq(w) /\ Len(w) = m + 1
    BY <1>15, <1>23, <1>24, <1>29, <1>30, <1>31 DEF JoinOf
  <2> QED
    BY <1>9, <1>24, <1>28, <2>1
<1>33. ASSUME NEW x \in 1..(m + 1) PROVE u[x] = w[x]
  <2>1. CASE x \in 1..b
    <3>1. u[x] = a[x]
      BY <1>23, <1>24, <2>1 DEF JoinOf
    <3>2. all[x] = a[x]
      <4>1. Joined(calls, CallPieces(events, label), n)
        BY <1>1, SourceJoined
      <4> QED
        BY <1>16, <1>23, <2>1, <4>1 DEF Joined
    <3>3. x \in 1..m
      BY <1>9, <1>24, <1>28, <2>1
    <3> QED
      BY <1>29, <1>31, <3>1, <3>2, <3>3 DEF JoinOf
  <2>2. CASE x \in (b + 1)..m
    <3>1. PICK y : y = x - b
      OBVIOUS
    <3>2. y \in 1..(j + 1) /\ x = b + y /\ x \in 1..m
      BY <1>9, <1>24, <1>28, <2>2, <3>1
    <3>3. y \in 1..Len(now) /\ y \in 1..Len(piece)
      BY <1>9, <1>15, <3>2
    <3>4. u[x] = now[y]
      BY <1>23, <1>24, <3>2, <3>3 DEF JoinOf
    <3>5. now[y] = piece[y]
      <4>1. CASE y = 1
        BY <1>15, <4>1
      <4>2. CASE y # 1
        <5>1. PICK z : z = y - 1
          OBVIOUS
        <5>2. z \in 1..j /\ 1 + z = y
          BY <1>9, <3>2, <4>2, <5>1
        <5> QED
          BY <1>15, <5>2
      <4> QED
        BY <4>1, <4>2
    <3>6. all[b + y] = piece[y]
      BY <1>1, <1>2, <1>6, <1>23, <3>3 DEF EventOf
    <3>7. w[x] = all[x]
      BY <1>29, <1>31, <3>2 DEF JoinOf
    <3> QED
      BY <3>2, <3>4, <3>5, <3>6, <3>7
  <2>3. CASE x = m + 1
    <3>1. x = b + (j + 2) /\ j + 2 \in 1..Len(now)
      BY <1>9, <1>15, <1>24, <1>28, <2>3
    <3>2. u[x] = now[j + 2]
      BY <1>23, <1>24, <3>1 DEF JoinOf
    <3>3. 1 \in 1..Len(e) /\ x = Len(s) + 1
      BY <1>29, <1>30, <2>3
    <3>4. w[x] = e[1]
      BY <1>31, <3>3 DEF JoinOf
    <3> QED
      BY <1>15, <1>30, <3>2, <3>4
  <2>4. x \in 1..b \/ x \in (b + 1)..m \/ x = m + 1
    BY <1>24, <1>28
  <2> QED
    BY <2>1, <2>2, <2>3, <2>4
<1>34. u = w
  BY <1>32, <1>33, SeqSame
<1> QED
  BY <1>1, <1>2, <1>23, <1>26, <1>27, <1>34

(* Wherever a binary file is cut off, that is what would be written.       *)
LEMMA BinaryCut ==
    ASSUME PipeInv, stage = "copy", format = "binary", "binary" \notin Stdin, node_count > 0
    PROVE  LET read == SubSeq(sent, 1, Len(sent) - Len(wire))
               rest == IF reading THEN <<<<"attr_none">>>> ELSE <<>>
           IN  File = read \o rest \o [d \in 1..node_depth |-> <<"element_none">>]
<1>1. PICK events, label, P, C, calls, all, r : Copies(events, label, P, C, calls, all, r)
  BY DEF PipeInv, CopyInv
<1>2. IsSource("binary", events, label, P, C, calls) /\ sent = calls[Len(events)]
  <2>1. IsSource("binary", events, label, P, C, calls) /\ sent = FileOf("binary", events, label)
    BY <1>1 DEF Copies
  <2> QED
    BY <2>1, BinaryFile
<1>3. PICK n, m, read : /\ n = Len(events) /\ m = Len(sent)
                        /\ read = SubSeq(sent, 1, Len(sent) - Len(wire))
  OBVIOUS
<1>4. m \in Nat /\ Len(all) = m
  <2>1. Len(all) \in {m, m + 1} /\ m \in Nat /\ ~ (Len(all) > m)
    BY <1>1, <1>2, <1>3 DEF Copies, IsInput
  <2> QED
    BY <2>1
<1>5. r \in 0..m /\ read = SubSeq(sent, 1, r)
  <2>1. r \in 0..m /\ Len(wire) = m - r
    BY <1>1, <1>4 DEF Copies, IsRest
  <2>2. m - (m - r) = r
    BY <1>4, <2>1
  <2> QED
    BY <1>3, <2>1, <2>2
<1>6. PICK E : E = Ends(node_depth)
  OBVIOUS
<1>7. CASE ~reading /\ \E k \in 0..n : After(events, label, P, C, k) /\ r = Len(calls[k])
  <2>1. PICK k \in 0..n : After(events, label, P, C, k) /\ r = Len(calls[k])
    BY <1>7
  <2>2. File = SubSeq(calls[n], 1, Len(calls[k])) \o Ends(node_depth)
    BY <1>2, <1>3, <2>1, CutBetween
  <2>3. File = read \o E
    BY <1>2, <1>3, <1>5, <1>6, <2>1, <2>2
  <2>4. read \o <<>> = read
    <3>1. IsSeq(read)
      <4>1. 1 \in Int /\ r \in Int
        BY <1>4, <1>5
      <4> QED
        BY <1>5, <4>1, SeqPart
    <3>2. PICK z, u : z = <<>> /\ u = read \o z
      OBVIOUS
    <3>3. IsSeq(z) /\ Len(z) = 0
      BY <3>2, EmptyIsSeq
    <3>4. JoinOf(u, read, z)
      BY <3>1, <3>2, <3>3, JoinIs
    <3>5. IsSeq(u) /\ Len(u) = Len(read) /\ \A i \in 1..Len(u) : u[i] = read[i]
      <4>1. Len(read) \in Nat
        BY <3>1, SeqDomain
      <4> QED
        BY <3>3, <3>4, <4>1 DEF JoinOf
    <3>6. u = read
      BY <3>1, <3>5, SeqSame
    <3> QED
      BY <3>2, <3>6
  <2> QED
    BY <1>3, <1>6, <1>7, <2>3, <2>4 DEF Ends
<1>8. CASE reading /\ \E k \in 1..n : \E j \in Nat :
                        Within(events, label, P, C, k, j) /\ r = Len(calls[k - 1]) + 1 + j
  <2>1. PICK k \in 1..n, j \in Nat :
             Within(events, label, P, C, k, j) /\ r = Len(calls[k - 1]) + 1 + j
    BY <1>8
  <2>2. File = (SubSeq(calls[n], 1, Len(calls[k - 1]) + 1 + j) \o <<<<"attr_none">>>>)
                      \o Ends(node_depth)
    BY <1>2, <1>3, <2>1, CutWithin
  <2>3. File = (read \o <<<<"attr_none">>>>) \o E
    BY <1>2, <1>3, <1>5, <1>6, <2>1, <2>2
  <2> QED
    BY <1>3, <1>6, <1>8, <2>3 DEF Ends
<1>9. ~ (r = Len(calls[n]) + 1)
  BY <1>2, <1>3, <1>4, <1>5
<1> QED
  <2>1. Position(events, label, P, C, calls, r)
    BY <1>1 DEF Copies
  <2> QED
    BY <1>3, <1>7, <1>8, <1>9, <2>1 DEF Position

-----------------------------------------------------------------------------
(* Searching a text *)

(* f is the first place of T, or n + 1, behind them all.                   *)
Foremost(f, T, n) ==
    /\ f \in T \/ f = n + 1
    /\ \A j \in T : f <= j

(* That is the least of T and n + 1.                                       *)
LEMMA ForemostIs ==
    ASSUME NEW n \in Nat, NEW T \in SUBSET (0..n)
    PROVE  /\ Foremost(Min(T \union {n + 1}), T, n)
           /\ \A f : Foremost(f, T, n) => f = Min(T \union {n + 1})
<1>1. PICK U : U = T \union {n + 1}
  OBVIOUS
<1>2. U \in SUBSET Nat /\ U # {}
  BY <1>1
<1>3. PICK m : m = Min(U)
  OBVIOUS
<1>4. m \in U /\ \A x \in U : m <= x
  BY <1>2, <1>3, MinIs
<1>5. Foremost(m, T, n)
  BY <1>1, <1>4 DEF Foremost
<1>6. \A f : Foremost(f, T, n) => f = m
  <2> SUFFICES ASSUME NEW f, Foremost(f, T, n) PROVE f = m
    OBVIOUS
  <2>1. f \in U /\ f \in Nat /\ m \in Nat
    BY <1>1, <1>2, <1>4 DEF Foremost
  <2>2. m <= f
    BY <1>4, <2>1
  <2>3. f <= m
    <3>1. CASE m \in T
      BY <3>1 DEF Foremost
    <3>2. CASE m = n + 1
      <4>1. f <= n + 1
        BY <1>1, <2>1
      <4> QED
        BY <3>2, <4>1
    <3> QED
      BY <1>1, <1>4, <3>1, <3>2
  <2> QED
    BY <2>1, <2>2, <2>3
<1> QED
  BY <1>1, <1>3, <1>5, <1>6

(* Where a mark is found from i on, *)
Hits(f, text, i, marks) ==
    /\ f \in Nat /\ f <= Len(text) + 1
    /\ f <= Len(text) => i <= f /\ text[f] \in marks
    /\ \A j \in i..Len(text) : text[j] \in marks => f <= j

(* Find is there.                                                          *)
LEMMA FindIs ==
    ASSUME NEW text, Len(text) \in Nat, NEW i \in Nat, NEW marks
    PROVE  /\ Hits(Find(text, i, marks), text, i, marks)
           /\ \A f : Hits(f, text, i, marks) => f = Find(text, i, marks)
<1>1. PICK n \in Nat : n = Len(text)
  OBVIOUS
<1>2. PICK T : T = {j \in i..n : text[j] \in marks}
  OBVIOUS
<1>3. T \in SUBSET (0..n)
  BY <1>2
<1>4. PICK m : m = Min(T \union {n + 1})
  OBVIOUS
<1>5. Foremost(m, T, n) /\ \A f : Foremost(f, T, n) => f = m
  BY <1>3, <1>4, ForemostIs
<1>6. Find(text, i, marks) = m
  BY <1>1, <1>2, <1>4 DEF Find
<1>7. Hits(m, text, i, marks)
  BY <1>1, <1>2, <1>3, <1>5 DEF Foremost, Hits
<1>8. \A f : Hits(f, text, i, marks) => Foremost(f, T, n)
  BY <1>1, <1>2 DEF Foremost, Hits
<1> QED
  BY <1>5, <1>6, <1>7, <1>8

(* and where something else is. *)
Misses(f, text, i, marks) ==
    /\ f \in Nat /\ f <= Len(text) + 1
    /\ f <= Len(text) => i <= f /\ text[f] \notin marks
    /\ \A j \in i..Len(text) : text[j] \notin marks => f <= j

(* Skip is there.                                                          *)
LEMMA SkipIs ==
    ASSUME NEW text, Len(text) \in Nat, NEW i \in Nat, NEW marks
    PROVE  /\ Misses(Skip(text, i, marks), text, i, marks)
           /\ \A f : Misses(f, text, i, marks) => f = Skip(text, i, marks)
<1>1. PICK n \in Nat : n = Len(text)
  OBVIOUS
<1>2. PICK T : T = {j \in i..n : text[j] \notin marks}
  OBVIOUS
<1>3. T \in SUBSET (0..n)
  BY <1>2
<1>4. PICK m : m = Min(T \union {n + 1})
  OBVIOUS
<1>5. Foremost(m, T, n) /\ \A f : Foremost(f, T, n) => f = m
  BY <1>3, <1>4, ForemostIs
<1>6. Skip(text, i, marks) = m
  BY <1>1, <1>2, <1>4 DEF Skip
<1>7. Misses(m, text, i, marks)
  BY <1>1, <1>2, <1>3, <1>5 DEF Foremost, Misses
<1>8. \A f : Misses(f, text, i, marks) => Foremost(f, T, n)
  BY <1>1, <1>2 DEF Foremost, Misses
<1> QED
  BY <1>5, <1>6, <1>7, <1>8

(* The usual cases: it is there at once, or one further, or two. *)
LEMMA FindHere ==
    ASSUME NEW text, Len(text) \in Nat, NEW i \in 1..Len(text), NEW marks, text[i] \in marks
    PROVE  Find(text, i, marks) = i
<1>1. Hits(i, text, i, marks)
  BY DEF Hits
<1>2. i \in Nat
  OBVIOUS
<1> QED
  BY <1>1, <1>2, FindIs

(* It is not here, so it is further on.                                    *)
LEMMA FindNext ==
    ASSUME NEW text, Len(text) \in Nat, NEW i \in 1..Len(text), NEW marks, text[i] \notin marks
    PROVE  Find(text, i, marks) = Find(text, i + 1, marks)
<1>1. PICK f : f = Find(text, i + 1, marks)
  OBVIOUS
<1>2. i \in Nat /\ i + 1 \in Nat
  OBVIOUS
<1>3. Hits(f, text, i + 1, marks)
  BY <1>1, <1>2, FindIs
<1>4. Hits(f, text, i, marks)
  BY <1>2, <1>3 DEF Hits
<1> QED
  BY <1>1, <1>2, <1>4, FindIs

(* There is none behind the text.                                          *)
LEMMA FindNone ==
    ASSUME NEW text, Len(text) \in Nat, NEW i \in Nat, i > Len(text), NEW marks
    PROVE  Find(text, i, marks) = Len(text) + 1
<1>1. Hits(Len(text) + 1, text, i, marks)
  BY DEF Hits
<1> QED
  BY <1>1, FindIs

(* Something else is here.                                                 *)
LEMMA SkipHere ==
    ASSUME NEW text, Len(text) \in Nat, NEW i \in 1..Len(text), NEW marks, text[i] \notin marks
    PROVE  Skip(text, i, marks) = i
<1>1. Misses(i, text, i, marks)
  BY DEF Misses
<1>2. i \in Nat
  OBVIOUS
<1> QED
  BY <1>1, <1>2, SkipIs

(* It is not here, so it is further on.                                    *)
LEMMA SkipNext ==
    ASSUME NEW text, Len(text) \in Nat, NEW i \in 1..Len(text), NEW marks, text[i] \in marks
    PROVE  Skip(text, i, marks) = Skip(text, i + 1, marks)
<1>1. PICK f : f = Skip(text, i + 1, marks)
  OBVIOUS
<1>2. i \in Nat /\ i + 1 \in Nat
  OBVIOUS
<1>3. Misses(f, text, i + 1, marks)
  BY <1>1, <1>2, SkipIs
<1>4. Misses(f, text, i, marks)
  BY <1>2, <1>3 DEF Misses
<1> QED
  BY <1>1, <1>2, <1>4, SkipIs

(* There is nothing behind the text.                                       *)
LEMMA SkipNone ==
    ASSUME NEW text, Len(text) \in Nat, NEW i \in Nat, i > Len(text), NEW marks
    PROVE  Skip(text, i, marks) = Len(text) + 1
<1>1. Misses(Len(text) + 1, text, i, marks)
  BY DEF Misses
<1> QED
  BY <1>1, SkipIs

-----------------------------------------------------------------------------
(* The tags of a text *)

(* The next tag from i on, between o and c.                                *)
OpenAt(text, i) == Find(text, i, {"<"})
CloseAt(text, i) == Find(text, OpenAt(text, i) + 1, {">"})
TagAt(text, i) == SubSeq(text, OpenAt(text, i) + 1, CloseAt(text, i) - 1)

IsTags(g, text) ==
    g = [i \in 1..(Len(text) + 1) |->
            IF CloseAt(text, i) > Len(text) THEN <<>>
            ELSE <<TagAt(text, i)>> \o g[CloseAt(text, i) + 1]]

(* A tag is finished behind where it begins.                               *)
LEMMA TagPlaces ==
    ASSUME NEW text, Len(text) \in Nat, NEW i \in Nat
    PROVE  /\ Hits(OpenAt(text, i), text, i, {"<"})
           /\ Hits(CloseAt(text, i), text, OpenAt(text, i) + 1, {">"})
           /\ OpenAt(text, i) \in Nat /\ CloseAt(text, i) \in Nat
           /\ CloseAt(text, i) <= Len(text) =>
                 i <= OpenAt(text, i) /\ OpenAt(text, i) < CloseAt(text, i)
<1>1. PICK o, c : o = OpenAt(text, i) /\ c = CloseAt(text, i)
  OBVIOUS
<1>2. Hits(o, text, i, {"<"})
  BY <1>1, FindIs DEF OpenAt
<1>3. o \in Nat /\ o + 1 \in Nat
  BY <1>2 DEF Hits
<1>4. Hits(c, text, o + 1, {">"})
  BY <1>1, <1>3, FindIs DEF CloseAt
<1>5. c \in Nat /\ (c <= Len(text) => i <= o /\ o < c)
  BY <1>2, <1>3, <1>4 DEF Hits
<1> QED
  BY <1>1, <1>2, <1>3, <1>4, <1>5

(* There are such tags.                                                    *)
LEMMA TagsExist ==
    ASSUME NEW text, IsSeq(text)
    PROVE  \E g \in [1..(Len(text) + 1) -> Seq(Seq(Range(text)))] : IsTags(g, text)
<1> DEFINE n == Len(text)
           S == Range(text)
           V == Seq(Seq(S))
           Stops(i) == CloseAt(text, i) > n
           left == [s \in 1..n |-> IF Stops(n + 1 - s) THEN 0 ELSE n - CloseAt(text, n + 1 - s)]
           G == [s \in 1..n |-> [x \in V |-> IF Stops(n + 1 - s) THEN <<>>
                                             ELSE <<TagAt(text, n + 1 - s)>> \o x]]
<1>1. n \in Nat /\ text \in Seq(S)
  BY SeqDomain DEF IsSeq
<1>2. \A i \in 1..(n + 1) : /\ CloseAt(text, i) \in Nat /\ OpenAt(text, i) \in Nat
                            /\ CloseAt(text, i) <= n => i <= OpenAt(text, i) /\ OpenAt(text, i) < CloseAt(text, i)
  BY <1>1, TagPlaces
<1>3. \A i \in 1..(n + 1) : CloseAt(text, i) <= n => TagAt(text, i) \in Seq(S)
  <2> TAKE i \in 1..(n + 1)
  <2> HAVE CloseAt(text, i) <= n
  <2>1. PICK a, b : a = OpenAt(text, i) + 1 /\ b = CloseAt(text, i) - 1
    OBVIOUS
  <2>2. a \in 1..n + 1 /\ b \in 0..n
    BY <1>1, <1>2, <2>1
  <2>3. SubSeq(text, a, b) \in Seq(S)
    BY <1>1, <2>2
  <2> QED
    BY <2>1, <2>3 DEF TagAt
<1>4. \A s \in 1..n : n + 1 - s \in 1..n
  BY <1>1
<1>5. IsChain(n, left, V, <<>>, G)
  <2>1. left \in [1..n -> Nat] /\ \A s \in 1..n : left[s] < s
    <3> SUFFICES ASSUME NEW s \in 1..n PROVE left[s] \in Nat /\ left[s] < s
      OBVIOUS
    <3>1. PICK i : i = n + 1 - s
      OBVIOUS
    <3>2. i \in 1..n /\ i \in 1..(n + 1) /\ s = n + 1 - i
      BY <1>1, <3>1
    <3>3. left[s] = IF CloseAt(text, i) > n THEN 0 ELSE n - CloseAt(text, i)
      BY <3>1
    <3>4. /\ CloseAt(text, i) \in Nat
          /\ CloseAt(text, i) <= n => i < CloseAt(text, i)
      BY <1>2, <3>2
    <3> QED
      BY <1>1, <3>2, <3>3, <3>4
  <2>2. G \in [1..n -> [V -> V]]
    <3> SUFFICES ASSUME NEW s \in 1..n, NEW x \in V
                 PROVE  (IF Stops(n + 1 - s) THEN <<>> ELSE <<TagAt(text, n + 1 - s)>> \o x) \in V
      OBVIOUS
    <3>1. PICK i : i = n + 1 - s
      OBVIOUS
    <3>2. i \in 1..(n + 1) /\ (Stops(i) \/ CloseAt(text, i) <= n)
      <4>1. i \in 1..(n + 1)
        BY <1>1, <3>1
      <4>2. PICK c \in Nat : c = CloseAt(text, i)
        BY <1>2, <4>1
      <4>3. c > n \/ c <= n
        BY <1>1
      <4> QED
        BY <4>1, <4>2, <4>3
    <3>3. ASSUME ~ Stops(i) PROVE <<TagAt(text, i)>> \o x \in V
      <4>1. TagAt(text, i) \in Seq(S)
        BY <1>3, <3>2, <3>3
      <4> QED
        BY <4>1
    <3> QED
      BY <3>1, <3>3
  <2>3. <<>> \in V
    OBVIOUS
  <2> QED
    BY <1>1, <2>1, <2>2, <2>3 DEF IsChain
<1>6. PICK f : Follows(f, n, left, V, <<>>, G)
  <2> HIDE DEF n, V, left, G
  <2> QED
    BY <1>5, ChainRecursion
<1>7. /\ f \in [0..n -> V]
      /\ \A s \in 0..n : f[s] = IF s = 0 THEN <<>> ELSE G[s][f[left[s]]]
  BY <1>6 DEF Follows
<1>8. \A s \in 1..n : f[s] = IF Stops(n + 1 - s) THEN <<>>
                             ELSE <<TagAt(text, n + 1 - s)>> \o f[n - CloseAt(text, n + 1 - s)]
  <2> TAKE s \in 1..n
  <2>1. f[s] = G[s][f[left[s]]]
    <3>1. s \in 0..n /\ s # 0
      BY <1>1
    <3> HIDE DEF G, left
    <3> QED
      BY <1>7, <3>1
  <2>2. left[s] \in 0..n
    <3>1. left \in [1..n -> Nat] /\ left[s] < s
      BY <1>5 DEF IsChain
    <3>2. left[s] \in Nat
      <4> HIDE DEF left
      <4> QED
        BY <3>1
    <3> HIDE DEF left
    <3> QED
      BY <1>1, <3>1, <3>2
  <2>3. PICK x : x = f[left[s]]
    OBVIOUS
  <2>4. x \in V
    <3> HIDE DEF left, V
    <3> QED
      BY <1>7, <2>2, <2>3
  <2>5. f[s] = IF Stops(n + 1 - s) THEN <<>> ELSE <<TagAt(text, n + 1 - s)>> \o x
    BY <2>1, <2>3, <2>4
  <2>6. ~ Stops(n + 1 - s) => x = f[n - CloseAt(text, n + 1 - s)]
    BY <2>3
  <2> QED
    BY <2>5, <2>6
<1>9. PICK g : g = [i \in 1..(n + 1) |-> f[n + 1 - i]]
  OBVIOUS
<1>10. \A i \in 1..(n + 1) : n + 1 - i \in 0..n
  BY <1>1
<1>11. g \in [1..(n + 1) -> V]
  <2> HIDE DEF V
  <2> QED
    BY <1>7, <1>9, <1>10
<1>12. ASSUME NEW i \in 1..(n + 1)
       PROVE  g[i] = IF CloseAt(text, i) > n THEN <<>> ELSE <<TagAt(text, i)>> \o g[CloseAt(text, i) + 1]
  <2>1. PICK s : s = n + 1 - i
    OBVIOUS
  <2>2. s \in 0..n /\ n + 1 - s = i /\ g[i] = f[s]
    BY <1>1, <1>9, <1>10, <2>1
  <2>3. CASE s = 0
    <3>1. i = n + 1 /\ ~ (CloseAt(text, i) <= n)
      <4>1. i = n + 1
        BY <1>1, <2>2, <2>3
      <4>2. CloseAt(text, i) <= n => i <= OpenAt(text, i) /\ OpenAt(text, i) < CloseAt(text, i)
        BY <1>2
      <4>3. CloseAt(text, i) \in Nat /\ OpenAt(text, i) \in Nat
        BY <1>2
      <4> QED
        BY <1>1, <4>1, <4>2, <4>3
    <3>2. CloseAt(text, i) > n
      BY <1>1, <1>2, <3>1
    <3>3. f[s] = <<>>
      BY <1>7, <2>2, <2>3
    <3> QED
      BY <2>2, <3>2, <3>3
  <2>4. CASE s \in 1..n
    <3>1. f[s] = IF CloseAt(text, i) > n THEN <<>>
                 ELSE <<TagAt(text, i)>> \o f[n - CloseAt(text, i)]
      BY <1>8, <2>2, <2>4
    <3>2. ASSUME ~ (CloseAt(text, i) > n) PROVE g[CloseAt(text, i) + 1] = f[n - CloseAt(text, i)]
      <4>1. PICK c : c = CloseAt(text, i)
        OBVIOUS
      <4>2. c \in Nat /\ c <= n
        BY <1>1, <1>2, <3>2, <4>1
      <4>3. c + 1 \in 1..(n + 1) /\ n + 1 - (c + 1) = n - c
        BY <1>1, <4>2
      <4>4. g[c + 1] = f[n - c]
        <5>1. g[c + 1] = f[n + 1 - (c + 1)]
          BY <1>9, <4>3
        <5> QED
          BY <4>3, <5>1
      <4> QED
        BY <4>1, <4>4
    <3> QED
      BY <2>2, <3>1, <3>2
  <2> QED
    BY <1>1, <2>2, <2>3, <2>4
<1>13. g = [i \in 1..(n + 1) |-> g[i]]
  BY <1>9
<1>14. IsTags(g, text)
  BY <1>12, <1>13 DEF IsTags
<1> QED
  BY <1>11, <1>14

-----------------------------------------------------------------------------
(* Joining *)

(* s is what t begins with. *)
Starts(s, t) == IsSeq(s) /\ IsSeq(t) /\ Len(s) <= Len(t) /\ \A i \in 1..Len(s) : s[i] = t[i]

(* An item in front of both changes nothing.                               *)
LEMMA StartsMore ==
    ASSUME NEW s, NEW t, Starts(s, t), NEW x
    PROVE  Starts(<<x>> \o s, <<x>> \o t)
<1>1. PICK o, a, b, m, n : o = <<x>> /\ a = o \o s /\ b = o \o t /\ m = Len(s) /\ n = Len(t)
  OBVIOUS
<1>2. IsSeq(o) /\ Len(o) = 1
  BY <1>1, OneSeq
<1>3. IsSeq(s) /\ IsSeq(t) /\ m \in Nat /\ n \in Nat /\ m <= n /\ \A i \in 1..m : s[i] = t[i]
  BY <1>1, SeqDomain DEF Starts
<1>4. JoinOf(a, o, s) /\ JoinOf(b, o, t)
  BY <1>1, <1>2, <1>3, JoinIs
<1>5. IsSeq(a) /\ IsSeq(b) /\ Len(a) = m + 1 /\ Len(b) = n + 1
  BY <1>1, <1>2, <1>3, <1>4 DEF JoinOf
<1>6. ASSUME NEW i \in 1..(m + 1) PROVE a[i] = b[i]
  <2>1. CASE i = 1
    <3>1. 1 \in 1..Len(o)
      BY <1>2
    <3> QED
      BY <1>4, <2>1, <3>1 DEF JoinOf
  <2>2. CASE i # 1
    <3>1. PICK j : j = i - 1
      OBVIOUS
    <3>2. j \in 1..m /\ j \in 1..n /\ i = Len(o) + j
      BY <1>2, <1>3, <2>2, <3>1
    <3> QED
      BY <1>1, <1>3, <1>4, <3>2 DEF JoinOf
  <2> QED
    BY <2>1, <2>2
<1>7. Starts(a, b)
  BY <1>3, <1>5, <1>6 DEF Starts
<1> QED
  BY <1>1, <1>7

-----------------------------------------------------------------------------

(* The tags are texts.                                                     *)
LEMMA TagsType ==
    ASSUME NEW text, IsSeq(text), NEW g, IsTags(g, text)
    PROVE  \A i \in 1..(Len(text) + 1) : g[i] \in Seq(Seq(Range(text)))
<1>1. PICK n, V : n = Len(text) /\ V = Seq(Seq(Range(text)))
  OBVIOUS
<1>2. n \in Nat /\ n + 1 \in Nat
  BY <1>1, SeqDomain
<1>3. PICK T : T = {i \in 1..(n + 1) : g[i] \in V}
  OBVIOUS
<1>4. ASSUME NEW i \in 1..(n + 1), \A j \in (i + 1)..(n + 1) : j \in T
      PROVE  i \in T
  <2>1. PICK o, c : o = OpenAt(text, i) /\ c = CloseAt(text, i)
    OBVIOUS
  <2>2. c \in Nat /\ o \in Nat /\ (c <= n => i <= o /\ o < c)
    <3>1. i \in Nat
      OBVIOUS
    <3> QED
      BY <1>1, <1>2, <2>1, <3>1, TagPlaces
  <2>3. g[i] = IF c > n THEN <<>> ELSE <<TagAt(text, i)>> \o g[c + 1]
    BY <1>1, <2>1 DEF IsTags
  <2>4. CASE c > n
    <3>1. <<>> \in V
      BY <1>1
    <3> QED
      BY <1>3, <2>3, <2>4, <3>1
  <2>5. CASE c <= n
    <3>1. c + 1 \in (i + 1)..(n + 1)
      BY <1>2, <2>2, <2>5
    <3>2. g[c + 1] \in V
      BY <1>3, <1>4, <3>1
    <3>3. TagAt(text, i) \in Seq(Range(text))
      <4>1. PICK a, b : a = o + 1 /\ b = c - 1
        OBVIOUS
      <4>2. a \in 1..(n + 1) /\ b \in 0..n
        BY <1>2, <2>2, <2>5, <4>1
      <4>3. SubSeq(text, a, b) \in Seq(Range(text))
        BY <1>1, <1>2, <4>2 DEF IsSeq
      <4> QED
        BY <2>1, <4>1, <4>3 DEF TagAt
    <3>4. <<TagAt(text, i)>> \o g[c + 1] \in V
      <4>1. PICK x, y : x = TagAt(text, i) /\ y = g[c + 1]
        OBVIOUS
      <4>2. x \in Seq(Range(text)) /\ y \in Seq(Seq(Range(text)))
        BY <1>1, <3>2, <3>3, <4>1
      <4>3. <<x>> \o y \in Seq(Seq(Range(text)))
        BY <4>2
      <4> QED
        BY <1>1, <4>1, <4>3
    <3>5. ~ (c > n)
      BY <1>2, <2>2, <2>5
    <3> QED
      BY <1>3, <2>3, <3>4, <3>5
  <2> QED
    BY <1>2, <2>2, <2>4, <2>5
<1>5. 1..(n + 1) \subseteq T
  BY <1>2, <1>4, Downwards
<1> QED
  BY <1>1, <1>3, <1>5

(* What Tags is, and what its parts are.                                   *)
TagsOf(g, text) ==
    /\ IsTags(g, text)
    /\ Tags(text) = g[1]
    /\ \A i \in 1..(Len(text) + 1) :
          IsSeq(g[i]) /\ \A x \in DOMAIN g[i] : IsSeq(g[i][x])

(* Every text has such tags.                                               *)
LEMMA TagsAre ==
    ASSUME NEW text, IsSeq(text)
    PROVE  \E g : TagsOf(g, text)
<1>1. PICK g : g = CHOOSE h : IsTags(h, text)
  OBVIOUS
<1>2. IsTags(g, text)
  <2>1. \E h : IsTags(h, text)
    BY TagsExist
  <2> QED
    BY <1>1, <2>1
<1>3. Tags(text) = (CHOOSE h : IsTags(h, text))[1]
  BY DEF Tags, IsTags, OpenAt, CloseAt, TagAt
<1>4. \A i \in 1..(Len(text) + 1) : g[i] \in Seq(Seq(Range(text)))
  BY <1>2, TagsType
<1>5. \A i \in 1..(Len(text) + 1) : IsSeq(g[i]) /\ \A x \in DOMAIN g[i] : IsSeq(g[i][x])
  <2> TAKE i \in 1..(Len(text) + 1)
  <2>1. PICK s : s = g[i]
    OBVIOUS
  <2>2. s \in Seq(Seq(Range(text)))
    BY <1>4, <2>1
  <2>3. IsSeq(s) /\ \A x \in DOMAIN s : IsSeq(s[x])
    <3>1. \A x \in DOMAIN s : s[x] \in Seq(Range(text))
      BY <2>2
    <3> QED
      BY <2>2, <3>1, SeqOfAny
  <2> QED
    BY <2>1, <2>3
<1> QED
  BY <1>1, <1>2, <1>3, <1>5 DEF TagsOf

-----------------------------------------------------------------------------
(* A text that is cut off *)

(* What is found in the beginning is found in the whole.                   *)
LEMMA HitsStart ==
    ASSUME NEW s, NEW t, Starts(s, t), NEW f, NEW i \in Nat \ {0}, NEW marks,
           Hits(f, s, i, marks), f <= Len(s)
    PROVE  Hits(f, t, i, marks)
<1>1. PICK m, n : m = Len(s) /\ n = Len(t)
  OBVIOUS
<1>2. m \in Nat /\ n \in Nat /\ m <= n /\ \A j \in 1..m : s[j] = t[j]
  BY <1>1, SeqDomain DEF Starts
<1>3. /\ f \in Nat /\ f <= m /\ i <= f /\ s[f] \in marks
      /\ \A j \in i..m : s[j] \in marks => f <= j
  BY <1>1 DEF Hits
<1>4. t[f] \in marks /\ f <= n + 1
  <2>1. f \in 1..m
    BY <1>2, <1>3
  <2> QED
    BY <1>2, <1>3, <2>1
<1>5. ASSUME NEW j \in i..n, t[j] \in marks
      PROVE  f <= j
  <2>1. CASE j <= m
    <3>1. j \in 1..m /\ j \in i..m
      BY <1>2, <2>1
    <3> QED
      BY <1>2, <1>3, <1>5, <3>1
  <2>2. CASE m < j
    BY <1>2, <1>3, <2>2
  <2> QED
    BY <1>2, <2>1, <2>2
<1> QED
  BY <1>1, <1>3, <1>4, <1>5 DEF Hits

(* So is a tag that is finished there,                                     *)
LEMMA TagStart ==
    ASSUME NEW s, NEW t, Starts(s, t), NEW i \in Nat \ {0}, CloseAt(s, i) <= Len(s)
    PROVE  CloseAt(t, i) = CloseAt(s, i) /\ TagAt(t, i) = TagAt(s, i) /\ CloseAt(t, i) <= Len(t)
<1>1. PICK m, n, o, c : m = Len(s) /\ n = Len(t) /\ o = OpenAt(s, i) /\ c = CloseAt(s, i)
  OBVIOUS
<1>2. m \in Nat /\ n \in Nat /\ m <= n /\ \A j \in 1..m : s[j] = t[j]
  BY <1>1, SeqDomain DEF Starts
<1>3. /\ Hits(o, s, i, {"<"}) /\ Hits(c, s, o + 1, {">"})
      /\ o \in Nat /\ c \in Nat /\ i <= o /\ o < c /\ c <= m
  BY <1>1, <1>2, TagPlaces
<1>4. Hits(o, t, i, {"<"}) /\ Hits(c, t, o + 1, {">"})
  <2>1. o <= Len(s) /\ c <= Len(s) /\ o + 1 \in Nat \ {0}
    BY <1>1, <1>2, <1>3
  <2> QED
    BY <1>3, <2>1, HitsStart
<1>5. OpenAt(t, i) = o
  BY <1>1, <1>2, <1>4, FindIs DEF OpenAt
<1>6. CloseAt(t, i) = c
  BY <1>1, <1>2, <1>3, <1>4, <1>5, FindIs DEF CloseAt
<1>7. SubSeq(t, o + 1, c - 1) = SubSeq(s, o + 1, c - 1)
  <2>1. PICK a, b, x, y : a = o + 1 /\ b = c - 1 /\ x = SubSeq(t, a, b) /\ y = SubSeq(s, a, b)
    OBVIOUS
  <2>2. a \in Int /\ b \in Int /\ 1 <= a /\ b <= m /\ b <= n
    BY <1>2, <1>3, <2>1
  <2>3. /\ IsSeq(x) /\ Len(x) = (IF a <= b THEN b - a + 1 ELSE 0)
        /\ \A j \in 1..(b - a + 1) : x[j] = t[a + j - 1]
    BY <2>1, <2>2, SeqPart
  <2>4. /\ IsSeq(y) /\ Len(y) = (IF a <= b THEN b - a + 1 ELSE 0)
        /\ \A j \in 1..(b - a + 1) : y[j] = s[a + j - 1]
    BY <2>1, <2>2, SeqPart
  <2>5. \A j \in 1..Len(x) : x[j] = y[j]
    <3> TAKE j \in 1..Len(x)
    <3>1. j \in 1..(b - a + 1) /\ a + j - 1 \in 1..m
      BY <1>2, <2>2, <2>3
    <3> QED
      BY <1>2, <2>3, <2>4, <3>1
  <2>6. x = y
    BY <2>3, <2>4, <2>5, SeqSame
  <2> QED
    BY <2>1, <2>6
<1> QED
  <2>1. TagAt(t, i) = SubSeq(t, o + 1, c - 1)
    BY <1>5, <1>6 DEF TagAt
  <2>2. TagAt(s, i) = SubSeq(s, o + 1, c - 1)
    BY <1>1 DEF TagAt
  <2>3. c <= n
    BY <1>2, <1>3
  <2> QED
    BY <1>1, <1>6, <1>7, <2>1, <2>2, <2>3

(* and all of them.                                                        *)
LEMMA TagsStart ==
    ASSUME NEW s, NEW t, Starts(s, t), NEW g, NEW h, TagsOf(g, s), TagsOf(h, t)
    PROVE  \A i \in 1..(Len(s) + 1) : Starts(g[i], h[i])
<1>1. PICK m, n : m = Len(s) /\ n = Len(t)
  OBVIOUS
<1>2. m \in Nat /\ n \in Nat /\ m <= n /\ m + 1 \in Nat
  BY <1>1, SeqDomain DEF Starts
<1>3. PICK T : T = {i \in 1..(m + 1) : Starts(g[i], h[i])}
  OBVIOUS
<1>4. ASSUME NEW i \in 1..(m + 1), \A j \in (i + 1)..(m + 1) : j \in T
      PROVE  i \in T
  <2>1. PICK c : c = CloseAt(s, i)
    OBVIOUS
  <2>2. c \in Nat /\ (c <= m => i < c)
    <3>1. i \in Nat
      OBVIOUS
    <3>2. /\ OpenAt(s, i) \in Nat /\ CloseAt(s, i) \in Nat
          /\ CloseAt(s, i) <= Len(s) => i <= OpenAt(s, i) /\ OpenAt(s, i) < CloseAt(s, i)
      BY <1>1, <1>2, <3>1, TagPlaces
    <3> QED
      BY <1>1, <2>1, <3>2
  <2>3. g[i] = IF c > m THEN <<>> ELSE <<TagAt(s, i)>> \o g[c + 1]
    BY <1>1, <2>1 DEF TagsOf, IsTags
  <2>4. i \in 1..(n + 1)
    BY <1>2
  <2>5. h[i] = IF CloseAt(t, i) > n THEN <<>> ELSE <<TagAt(t, i)>> \o h[CloseAt(t, i) + 1]
    BY <1>1, <2>4 DEF TagsOf, IsTags
  <2>6. CASE c > m
    <3>1. g[i] = <<>>
      BY <2>3, <2>6
    <3>2. IsSeq(h[i])
      BY <1>1, <2>4 DEF TagsOf
    <3>3. Len(h[i]) \in Nat
      BY <3>2, SeqDomain
    <3>4. Starts(<<>>, h[i])
      BY <3>2, <3>3, EmptyIsSeq DEF Starts
    <3> QED
      BY <1>3, <3>1, <3>4
  <2>7. CASE c <= m
    <3>1. CloseAt(t, i) = c /\ TagAt(t, i) = TagAt(s, i) /\ c <= n
      <4>1. i \in Nat \ {0}
        OBVIOUS
      <4> QED
        BY <1>1, <2>1, <2>7, <4>1, TagStart
    <3>2. ~ (c > m) /\ ~ (c > n)
      BY <1>2, <2>2, <2>7, <3>1
    <3>3. g[i] = <<TagAt(s, i)>> \o g[c + 1] /\ h[i] = <<TagAt(s, i)>> \o h[c + 1]
      BY <2>3, <2>5, <3>1, <3>2
    <3>4. c + 1 \in (i + 1)..(m + 1)
      BY <1>2, <2>2, <2>7
    <3>5. Starts(g[c + 1], h[c + 1])
      BY <1>3, <1>4, <3>4
    <3>6. Starts(<<TagAt(s, i)>> \o g[c + 1], <<TagAt(s, i)>> \o h[c + 1])
      BY <3>5, StartsMore
    <3> QED
      BY <1>3, <3>3, <3>6
  <2> QED
    BY <1>2, <2>2, <2>6, <2>7
<1>5. 1..(m + 1) \subseteq T
  BY <1>2, <1>4, Downwards
<1> QED
  BY <1>1, <1>3, <1>5

-----------------------------------------------------------------------------
(* A text that is put together *)

(* Where a mark is found in the second part of a text.                     *)
LEMMA HitsBehind ==
    ASSUME NEW t, NEW u, IsSeq(t), IsSeq(u), NEW w, JoinOf(w, t, u),
           NEW i \in Nat, NEW k \in Nat \ {0}, i <= Len(t) + k, NEW marks,
           \A j \in i..(Len(t) + k - 1) : w[j] \notin marks,
           NEW f, Hits(f, u, k, marks)
    PROVE  Hits(Len(t) + f, w, i, marks)
<1>1. PICK l, n, m : l = Len(t) /\ n = Len(u) /\ m = Len(w)
  OBVIOUS
<1>2. l \in Nat /\ n \in Nat /\ m = l + n /\ \A x \in 1..n : w[l + x] = u[x]
  BY <1>1, SeqDomain DEF JoinOf
<1>3. /\ f \in Nat /\ f <= n + 1
      /\ f <= n => k <= f /\ u[f] \in marks
      /\ \A j \in k..n : u[j] \in marks => f <= j
  BY <1>1 DEF Hits
<1>4. l + f \in Nat /\ l + f <= m + 1
  BY <1>2, <1>3
<1>5. ASSUME l + f <= m PROVE i <= l + f /\ w[l + f] \in marks
  <2>1. f <= n
    BY ONLY <1>2, <1>3, <1>5
  <2>2. f \in 1..n /\ i <= l + f
    BY <1>1, <1>2, <1>3, <2>1
  <2> QED
    BY <1>2, <1>3, <2>1, <2>2
<1>6. ASSUME NEW j \in i..m, w[j] \in marks
      PROVE  l + f <= j
  <2>1. CASE j <= l + k - 1
    <3>1. j \in i..(l + k - 1)
      BY <1>1, <1>2, <2>1
    <3> QED
      BY <1>1, <1>6, <3>1
  <2>2. CASE l + k - 1 < j
    <3>1. PICK x : x = j - l
      OBVIOUS
    <3>2. x \in k..n /\ x \in 1..n /\ j = l + x
      BY <1>1, <1>2, <2>2, <3>1
    <3>3. f <= x
      BY <1>2, <1>3, <1>6, <3>2
    <3> QED
      BY ONLY <1>2, <1>3, <3>2, <3>3
  <2> QED
    BY <1>2, <2>1, <2>2
<1> QED
  BY <1>1, <1>4, <1>5, <1>6 DEF Hits

(* A part of the second part is a part of the whole.                       *)
LEMMA PartBehind ==
    ASSUME NEW t, NEW u, IsSeq(t), IsSeq(u), NEW w, JoinOf(w, t, u),
           NEW a \in Nat \ {0}, NEW b \in Int, b <= Len(u)
    PROVE  SubSeq(w, Len(t) + a, Len(t) + b) = SubSeq(u, a, b)
<1>1. PICK l, n : l = Len(t) /\ n = Len(u)
  OBVIOUS
<1>2. l \in Nat /\ n \in Nat /\ b <= n /\ \A x \in 1..n : w[l + x] = u[x]
  BY <1>1, SeqDomain DEF JoinOf
<1>3. PICK c, d, x, y : c = l + a /\ d = l + b /\ x = SubSeq(w, c, d) /\ y = SubSeq(u, a, b)
  OBVIOUS
<1>4. c \in Int /\ d \in Int /\ d - c = b - a /\ (c <= d <=> a <= b)
  <2>1. l \in Int /\ a \in Int /\ b \in Int /\ c = l + a /\ d = l + b
    BY <1>2, <1>3
  <2> QED
    BY ONLY <2>1
<1>5. /\ IsSeq(x) /\ Len(x) = (IF c <= d THEN d - c + 1 ELSE 0)
      /\ \A j \in 1..(d - c + 1) : x[j] = w[c + j - 1]
  BY <1>3, <1>4, SeqPart
<1>6. /\ IsSeq(y) /\ Len(y) = (IF a <= b THEN b - a + 1 ELSE 0)
      /\ \A j \in 1..(b - a + 1) : y[j] = u[a + j - 1]
  BY <1>3, SeqPart
<1>7. Len(x) = Len(y)
  BY ONLY <1>4, <1>5, <1>6
<1>8. \A j \in 1..Len(x) : x[j] = y[j]
  <2> TAKE j \in 1..Len(x)
  <2>1. j \in 1..(b - a + 1) /\ j \in 1..(d - c + 1)
    BY ONLY <1>4, <1>5, j \in 1..Len(x), a \in Nat \ {0}, b \in Int
  <2>2. PICK p : p = a + j - 1
    OBVIOUS
  <2>3. p \in 1..n /\ c + j - 1 = l + p
    BY ONLY <1>2, <1>3, <2>1, <2>2, a \in Nat \ {0}, b \in Int
  <2> QED
    BY <1>2, <1>5, <1>6, <2>1, <2>2, <2>3
<1>9. x = y
  BY <1>5, <1>6, <1>7, <1>8, SeqSame
<1> QED
  BY <1>1, <1>3, <1>9

(* So is a tag of it, where none begins before.                            *)
LEMMA TagBehind ==
    ASSUME NEW t, NEW u, IsSeq(t), IsSeq(u), NEW w, JoinOf(w, t, u),
           NEW i \in Nat, NEW k \in Nat \ {0}, i <= Len(t) + k,
           \A j \in i..(Len(t) + k - 1) : w[j] # "<"
    PROVE  /\ CloseAt(w, i) = Len(t) + CloseAt(u, k)
           /\ CloseAt(u, k) <= Len(u) => TagAt(w, i) = TagAt(u, k)
<1>1. PICK l, n, o, c, m : l = Len(t) /\ n = Len(u) /\ o = OpenAt(u, k) /\ c = CloseAt(u, k) /\ m = Len(w)
  OBVIOUS
<1>2. l \in Nat /\ n \in Nat /\ m \in Nat
  BY <1>1, SeqDomain DEF JoinOf
<1>3. Hits(o, u, k, {"<"}) /\ Hits(c, u, o + 1, {">"}) /\ o \in Nat /\ c \in Nat
  BY <1>1, <1>2, TagPlaces
<1>4. Hits(l + o, w, i, {"<"})
  <2>1. \A j \in i..(Len(t) + k - 1) : w[j] \notin {"<"}
    OBVIOUS
  <2> QED
    BY <1>1, <1>3, <2>1, HitsBehind
<1>5. OpenAt(w, i) = l + o
  BY <1>1, <1>2, <1>4, FindIs DEF OpenAt
<1>6. Hits(l + c, w, l + o + 1, {">"})
  <2>1. PICK a, b : a = l + o + 1 /\ b = o + 1
    OBVIOUS
  <2>2. a \in Nat /\ b \in Nat \ {0} /\ a <= l + b /\ a..(l + b - 1) = {}
    BY ONLY <1>2, <1>3, <2>1
  <2>3. Hits(c, u, b, {">"})
    BY <1>3, <2>1
  <2>4. \A j \in a..(Len(t) + b - 1) : w[j] \notin {">"}
    BY <1>1, <2>2
  <2>5. a <= Len(t) + b
    BY <1>1, <2>2
  <2>6. Hits(Len(t) + c, w, a, {">"})
    BY <2>2, <2>3, <2>4, <2>5, HitsBehind
  <2> QED
    BY <1>1, <2>1, <2>6
<1>7. CloseAt(w, i) = l + c
  <2>1. l + o + 1 \in Nat
    BY <1>2, <1>3
  <2> QED
    BY <1>1, <1>2, <1>5, <1>6, <2>1, FindIs DEF CloseAt
<1>8. ASSUME c <= n PROVE TagAt(w, i) = TagAt(u, k)
  <2>1. PICK a, b : a = o + 1 /\ b = c - 1
    OBVIOUS
  <2>2. a \in Nat \ {0} /\ b \in Int /\ b <= n /\ l + o + 1 = l + a /\ l + c - 1 = l + b
    BY ONLY <1>2, <1>3, <1>8, <2>1
  <2>3. SubSeq(w, Len(t) + a, Len(t) + b) = SubSeq(u, a, b)
    <3>1. b <= Len(u)
      BY <1>1, <2>2
    <3> QED
      BY <2>2, <3>1, PartBehind
  <2>4. SubSeq(w, l + o + 1, l + c - 1) = SubSeq(u, o + 1, c - 1)
    BY <1>1, <2>1, <2>2, <2>3
  <2>5. o = OpenAt(u, k) /\ c = CloseAt(u, k)
    BY <1>1
  <2> QED
    <3>1. TagAt(w, i) = SubSeq(w, l + o + 1, l + c - 1)
      <4>1. TagAt(w, i) = SubSeq(w, (l + o) + 1, (l + c) - 1)
        BY ONLY <1>5, <1>7 DEF TagAt
      <4>2. (l + c) - 1 = l + c - 1
        BY <1>2, <1>3
      <4> QED
        BY ONLY <4>1, <4>2
    <3>2. TagAt(u, k) = SubSeq(u, o + 1, c - 1)
      BY ONLY <2>5 DEF TagAt
    <3> QED
      BY ONLY <2>4, <3>1, <3>2
<1> QED
  BY <1>1, <1>7, <1>8

(* The tags from a place in the second part on are its own.                *)
LEMMA TagsBehind ==
    ASSUME NEW t, NEW u, IsSeq(t), IsSeq(u), NEW w, JoinOf(w, t, u),
           NEW g, NEW h, TagsOf(g, w), TagsOf(h, u)
    PROVE  \A k \in 1..(Len(u) + 1) : g[Len(t) + k] = h[k]
<1>1. PICK l, n, m : l = Len(t) /\ n = Len(u) /\ m = Len(w)
  OBVIOUS
<1>2. l \in Nat /\ n \in Nat /\ m = l + n /\ n + 1 \in Nat
  BY <1>1, SeqDomain DEF JoinOf
<1>3. PICK T : T = {k \in 1..(n + 1) : g[l + k] = h[k]}
  OBVIOUS
<1>4. ASSUME NEW k \in 1..(n + 1), \A j \in (k + 1)..(n + 1) : j \in T
      PROVE  k \in T
  <2>1. PICK i, c, d : i = l + k /\ c = CloseAt(u, k) /\ d = CloseAt(w, i)
    OBVIOUS
  <2>2. i \in Nat /\ i \in 1..(m + 1) /\ k \in Nat \ {0} /\ k \in Nat /\ i <= l + k /\ i..(l + k - 1) = {}
    BY <1>2, <2>1
  <2>3. c \in Nat /\ (c <= n => k < c)
    <3>1. /\ OpenAt(u, k) \in Nat /\ CloseAt(u, k) \in Nat
          /\ CloseAt(u, k) <= Len(u) => k <= OpenAt(u, k) /\ OpenAt(u, k) < CloseAt(u, k)
      BY <1>1, <1>2, <2>2, TagPlaces
    <3> QED
      BY <1>1, <2>1, <3>1
  <2>4. d = l + c /\ (c <= n => TagAt(w, i) = TagAt(u, k))
    <3>1. i <= Len(t) + k /\ \A j \in i..(Len(t) + k - 1) : w[j] # "<"
      BY <1>1, <2>2
    <3>2. /\ CloseAt(w, i) = Len(t) + CloseAt(u, k)
          /\ CloseAt(u, k) <= Len(u) => TagAt(w, i) = TagAt(u, k)
      BY <2>2, <3>1, TagBehind
    <3> QED
      BY <1>1, <2>1, <3>2
  <2>5. g[i] = IF d > m THEN <<>> ELSE <<TagAt(w, i)>> \o g[d + 1]
    BY <1>1, <2>1, <2>2 DEF TagsOf, IsTags
  <2>6. h[k] = IF c > n THEN <<>> ELSE <<TagAt(u, k)>> \o h[c + 1]
    BY <1>1, <2>1 DEF TagsOf, IsTags
  <2>7. CASE c > n
    <3>1. d > m
      BY <1>2, <2>3, <2>4, <2>7
    <3> QED
      BY <1>3, <2>1, <2>5, <2>6, <2>7, <3>1
  <2>8. CASE c <= n
    <3>1. ~ (d > m) /\ ~ (c > n) /\ d + 1 = l + (c + 1) /\ c + 1 \in (k + 1)..(n + 1)
      BY <1>2, <2>3, <2>4, <2>8
    <3>2. g[l + (c + 1)] = h[c + 1]
      BY <1>3, <1>4, <3>1
    <3> QED
      BY <1>3, <2>1, <2>4, <2>5, <2>6, <2>8, <3>1, <3>2
  <2> QED
    BY <1>2, <2>3, <2>7, <2>8
<1>5. 1..(n + 1) \subseteq T
  BY <1>2, <1>4, Downwards
<1> QED
  BY <1>1, <1>3, <1>5

-----------------------------------------------------------------------------
(* Putting together *)

(* The tags of a whole text and another are those of the one and of the    *)
(* other.                                                                  *)
LEMMA TagsJoined ==
    ASSUME NEW t, NEW u, IsSeq(t), IsSeq(u), IsWhole(t)
    PROVE  Tags(t \o u) = Tags(t) \o Tags(u)
<1>1. PICK w, l, n, m : w = t \o u /\ l = Len(t) /\ n = Len(u) /\ m = Len(w)
  OBVIOUS
<1>2. JoinOf(w, t, u) /\ IsSeq(w)
  <2>1. JoinOf(w, t, u)
    BY <1>1, JoinIs
  <2> QED
    BY <2>1 DEF JoinOf
<1>3. l \in Nat /\ n \in Nat /\ m = l + n /\ \A i \in 1..l : w[i] = t[i]
  BY <1>1, <1>2, SeqDomain DEF JoinOf
<1>4. PICK g, a, b : TagsOf(g, w) /\ TagsOf(a, t) /\ TagsOf(b, u)
  BY <1>2, TagsAre
<1>5. Starts(t, w)
  BY <1>1, <1>2, <1>3 DEF Starts
<1>6. g[l + 1] = b[1]
  <2>1. 1 \in 1..(Len(u) + 1)
    BY <1>1, <1>3
  <2> QED
    BY <1>1, <1>2, <1>4, <2>1, TagsBehind
<1>7. PICK T : T = {i \in 1..(l + 1) : g[i] = a[i] \o b[1]}
  OBVIOUS
<1>8. IsSeq(b[1]) /\ \A i \in 1..(l + 1) : IsSeq(a[i])
  <2>1. 1 \in 1..(Len(u) + 1)
    BY <1>1, <1>3
  <2> QED
    BY <1>1, <1>4, <2>1 DEF TagsOf
<1>9. ASSUME NEW i \in 1..(l + 1), \A j \in (i + 1)..(l + 1) : j \in T
      PROVE  i \in T
  <2>1. PICK c, d : c = CloseAt(t, i) /\ d = CloseAt(w, i)
    OBVIOUS
  <2>2. i \in Nat \ {0} /\ i \in Nat /\ i \in 1..(m + 1)
    BY <1>3
  <2>3. c \in Nat /\ (c <= l => i < c)
    <3>1. /\ OpenAt(t, i) \in Nat /\ CloseAt(t, i) \in Nat
          /\ CloseAt(t, i) <= Len(t) => i <= OpenAt(t, i) /\ OpenAt(t, i) < CloseAt(t, i)
      BY <1>1, <1>3, <2>2, TagPlaces
    <3> QED
      BY <1>1, <2>1, <3>1
  <2>4. g[i] = IF d > m THEN <<>> ELSE <<TagAt(w, i)>> \o g[d + 1]
    BY <1>1, <1>4, <2>1, <2>2 DEF TagsOf, IsTags
  <2>5. a[i] = IF c > l THEN <<>> ELSE <<TagAt(t, i)>> \o a[c + 1]
    BY <1>1, <1>4, <2>1 DEF TagsOf, IsTags
  <2>6. CASE c <= l
    <3>1. d = c /\ TagAt(w, i) = TagAt(t, i) /\ d <= m
      <4>1. CloseAt(t, i) <= Len(t)
        BY <1>1, <2>1, <2>6
      <4>2. /\ CloseAt(w, i) = CloseAt(t, i) /\ TagAt(w, i) = TagAt(t, i)
            /\ CloseAt(w, i) <= Len(w)
        BY ONLY <1>5, <2>2, <4>1, TagStart
      <4> QED
        BY <1>1, <2>1, <4>2
    <3>2. ~ (c > l) /\ ~ (d > m) /\ c + 1 \in (i + 1)..(l + 1) /\ c + 1 \in 1..(l + 1)
      BY <1>3, <2>3, <2>6, <3>1
    <3>3. PICK x, y, z : x = <<TagAt(t, i)>> /\ y = a[c + 1] /\ z = b[1]
      OBVIOUS
    <3>4. IsSeq(x) /\ IsSeq(y) /\ IsSeq(z)
      BY <1>8, <3>2, <3>3, OneSeq
    <3>5. g[c + 1] = y \o z
      BY <1>7, <1>9, <3>2, <3>3
    <3>6. g[i] = x \o (y \o z) /\ a[i] = x \o y
      BY <2>4, <2>5, <3>1, <3>2, <3>3, <3>5
    <3>7. (x \o y) \o z = x \o (y \o z)
      BY ONLY <3>4, JoinedAgain
    <3> QED
      BY <1>7, <3>3, <3>6, <3>7
  <2>7. CASE c > l
    <3>1. ASSUME NEW j \in i..l, t[j] = "<" PROVE FALSE
      <4>1. PICK o : o = OpenAt(t, i)
        OBVIOUS
      <4>2. Hits(o, t, i, {"<"}) /\ Hits(c, t, o + 1, {">"}) /\ o \in Nat
        BY <1>1, <1>3, <2>1, <2>2, <4>1, TagPlaces
      <4>3. o <= j /\ o \in i..l /\ o \in 1..l /\ t[o] = "<"
        <5>1. t[j] \in {"<"} /\ j \in i..Len(t)
          BY <1>1, <3>1
        <5>2. o <= j
          BY <4>2, <5>1 DEF Hits
        <5>3. o <= Len(t)
          BY <1>1, <1>3, <4>2, <5>2
        <5>4. i <= o /\ t[o] \in {"<"}
          BY <4>2, <5>3 DEF Hits
        <5> QED
          BY <1>1, <1>3, <2>2, <4>2, <5>2, <5>3, <5>4
      <4>4. PICK e \in 1..l : e > o /\ t[e] = ">"
        <5>1. DOMAIN t = 1..l
          BY <1>1, SeqDomain
        <5> QED
          BY <4>3, <5>1 DEF IsWhole
      <4>5. e \in (o + 1)..Len(t) /\ t[e] \in {">"}
        BY <1>1, <1>3, <4>2, <4>4
      <4>6. c <= e
        BY <4>2, <4>5 DEF Hits
      <4> QED
        BY <1>3, <2>3, <2>7, <4>4, <4>6
    <3>2. PICK k, e, z : k = l + 1 /\ e = CloseAt(w, k) /\ z = CloseAt(u, 1)
      OBVIOUS
    <3>3. /\ i <= Len(t) + 1 /\ k <= Len(t) + 1 /\ k \in Nat /\ 1 \in Nat \ {0}
          /\ k \in 1..(m + 1)
          /\ k..(Len(t) + 1 - 1) = {}
          /\ i..(Len(t) + 1 - 1) = i..l /\ i..l \subseteq 1..l
      BY <1>1, <1>3, <2>2, <3>2
    <3>4. \A j \in i..(Len(t) + 1 - 1) : w[j] # "<"
      BY <1>3, <3>1, <3>3
    <3>5. d = l + z /\ (z <= n => TagAt(w, i) = TagAt(u, 1))
      <4>1. /\ CloseAt(w, i) = Len(t) + CloseAt(u, 1)
            /\ CloseAt(u, 1) <= Len(u) => TagAt(w, i) = TagAt(u, 1)
        BY ONLY IsSeq(t), IsSeq(u), <1>2, <2>2, <3>3, <3>4, TagBehind
      <4> QED
        BY <1>1, <2>1, <3>2, <4>1
    <3>6. e = l + z /\ (z <= n => TagAt(w, k) = TagAt(u, 1))
      <4>1. \A j \in k..(Len(t) + 1 - 1) : w[j] # "<"
        BY <3>3
      <4>2. /\ CloseAt(w, k) = Len(t) + CloseAt(u, 1)
            /\ CloseAt(u, 1) <= Len(u) => TagAt(w, k) = TagAt(u, 1)
        BY ONLY IsSeq(t), IsSeq(u), <1>2, <3>3, <4>1, TagBehind
      <4> QED
        BY <1>1, <3>2, <4>2
    <3>7. g[k] = IF e > m THEN <<>> ELSE <<TagAt(w, k)>> \o g[e + 1]
      BY <1>1, <1>4, <3>2, <3>3 DEF TagsOf, IsTags
    <3>8. z \in Nat
      BY <1>1, <1>3, <3>2, <3>3, TagPlaces
    <3>9. z <= n \/ (d > m /\ e > m)
      BY <1>3, <3>5, <3>6, <3>8
    <3>10. g[i] = g[k]
      BY <2>4, <3>5, <3>6, <3>7, <3>9
    <3>11. a[i] = <<>>
      BY <2>5, <2>7
    <3>12. <<>> \o b[1] = b[1]
      BY <1>8, NoneJoined
    <3> QED
      BY <1>6, <1>7, <3>2, <3>10, <3>11, <3>12
  <2> QED
    BY <1>3, <2>3, <2>6, <2>7
<1>10. 1..(l + 1) \subseteq T
  <2>1. PICK e : e = l + 1
    OBVIOUS
  <2>2. e \in Nat
    BY <1>3, <2>1
  <2>3. \A i \in 1..e : (\A j \in (i + 1)..e : j \in T) => i \in T
    BY <1>9, <2>1
  <2>4. 1..e \subseteq T
    BY ONLY <2>2, <2>3, Downwards
  <2> QED
    BY <2>1, <2>4
<1>11. 1 \in 1..(l + 1)
  BY <1>3
<1> QED
  BY <1>1, <1>4, <1>7, <1>10, <1>11 DEF TagsOf

-----------------------------------------------------------------------------
(* Lists that are read from the left *)

(* From i on, a list is what last has if i is in stop; or else head[i] and *)
(* then what there is from next[i] on.                                     *)
IsCourse(n, stop, last, head, next, S) ==
    /\ n \in Nat
    /\ \A i \in 1..n : IF i \in stop THEN last[i] \in Seq(S)
                                     ELSE head[i] \in S /\ next[i] \in (i + 1)..n

IsRun(g, n, stop, last, head, next) ==
    g = [i \in 1..n |-> IF i \in stop THEN last[i] ELSE <<head[i]>> \o g[next[i]]]

(* Its pieces are single elements, and what is last.                       *)
RunPieces(n, stop, last, head) ==
    [i \in 1..n |-> IF i \in stop THEN last[i] ELSE <<head[i]>>]

LEMMA RunIsPieced ==
    ASSUME NEW n, NEW stop, NEW last, NEW head, NEW next, NEW S,
           IsCourse(n, stop, last, head, next, S)
    PROVE  /\ IsPieces(n, stop, RunPieces(n, stop, last, head), next, S)
           /\ \A g : Pieced(g, n, stop, RunPieces(n, stop, last, head), next)
                     <=> IsRun(g, n, stop, last, head, next)
<1>1. PICK piece : piece = RunPieces(n, stop, last, head)
  OBVIOUS
<1>2. \A i \in 1..n : piece[i] = IF i \in stop THEN last[i] ELSE <<head[i]>>
  BY <1>1 DEF RunPieces
<1>3. IsPieces(n, stop, piece, next, S)
  <2>1. n \in Nat
    BY DEF IsCourse
  <2>2. ASSUME NEW i \in 1..n
        PROVE  piece[i] \in Seq(S) /\ (i \in stop \/ next[i] \in (i + 1)..n)
    <3>1. CASE i \in stop
      BY <1>2, <3>1 DEF IsCourse
    <3>2. CASE i \notin stop
      <4>1. head[i] \in S /\ next[i] \in (i + 1)..n
        BY <3>2 DEF IsCourse
      <4>2. <<head[i]>> \in Seq(S)
        BY <4>1
      <4> QED
        BY <1>2, <3>2, <4>1, <4>2
    <3> QED
      BY <3>1, <3>2
  <2> QED
    BY <2>1, <2>2 DEF IsPieces
<1>4. ASSUME NEW g
      PROVE  Pieced(g, n, stop, piece, next) <=> IsRun(g, n, stop, last, head, next)
  <2>1. [i \in 1..n |-> IF i \in stop THEN piece[i] ELSE piece[i] \o g[next[i]]]
           = [i \in 1..n |-> IF i \in stop THEN last[i] ELSE <<head[i]>> \o g[next[i]]]
    BY <1>2
  <2> QED
    BY <2>1 DEF Pieced, IsRun
<1> QED
  BY <1>1, <1>3, <1>4

(* There is such a list.                                                   *)
LEMMA RunExists ==
    ASSUME NEW n, NEW stop, NEW last, NEW head, NEW next, NEW S,
           IsCourse(n, stop, last, head, next, S)
    PROVE  \E g : IsRun(g, n, stop, last, head, next)
<1>1. PICK piece : piece = RunPieces(n, stop, last, head)
  OBVIOUS
<1>2. PICK g : Pieced(g, n, stop, piece, next)
  BY <1>1, RunIsPieced, PiecesExist
<1>3. IsRun(g, n, stop, last, head, next)
  BY <1>1, <1>2, RunIsPieced
<1> QED
  BY <1>3

(* It is a list of what it is made of.                                     *)
LEMMA RunType ==
    ASSUME NEW n, NEW stop, NEW last, NEW head, NEW next, NEW S,
           IsCourse(n, stop, last, head, next, S), NEW g, IsRun(g, n, stop, last, head, next)
    PROVE  \A i \in 1..n : g[i] \in Seq(S)
<1>1. PICK piece : piece = RunPieces(n, stop, last, head)
  OBVIOUS
<1>2. IsPieces(n, stop, piece, next, S) /\ Pieced(g, n, stop, piece, next)
  BY <1>1, RunIsPieced
<1> QED
  BY <1>2, PiecesType

-----------------------------------------------------------------------------
(* The attributes of a tag *)

(* The next one from i on: where its name begins and is over, and where    *)
(* the quotes around its value are.                                        *)
NameAt(tag, i) == Skip(tag, i, {" "})
StopAt(tag, i) == Find(tag, NameAt(tag, i), {" ", "="})
QuoteAt(tag, i) == Find(tag, StopAt(tag, i) + 1, {"\""})
UnquoteAt(tag, i) == Find(tag, QuoteAt(tag, i) + 1, {"\""})

NameOf(tag, i) == SubSeq(tag, NameAt(tag, i), StopAt(tag, i) - 1)
ValueOf(tag, i) == SubSeq(tag, QuoteAt(tag, i) + 1, UnquoteAt(tag, i) - 1)

AttribsFrom(g, tag, i) ==
    CASE NameAt(tag, i) > Len(tag) -> <<>>
      [] At(tag, NameAt(tag, i)) = "/" -> <<<<>>>>
      [] NameAt(tag, i) <= Len(tag) /\ At(tag, NameAt(tag, i)) # "/" /\ QuoteAt(tag, i) > Len(tag) ->
            <<<<NameOf(tag, i)>>>>
      [] OTHER ->
            <<<<NameOf(tag, i), ValueOf(tag, i)>>>> \o g[UnquoteAt(tag, i) + 1]

IsAttribs(g, tag) == g = [i \in 1..(Len(tag) + 2) |-> AttribsFrom(g, tag, i)]

(* These are places of the tag, and behind its end nothing is.             *)
LEMMA AttribPlaces ==
    ASSUME NEW tag, Len(tag) \in Nat, NEW i \in Nat
    PROVE  /\ NameAt(tag, i) \in Nat /\ StopAt(tag, i) \in Nat
           /\ QuoteAt(tag, i) \in Nat /\ UnquoteAt(tag, i) \in Nat
           /\ UnquoteAt(tag, i) <= Len(tag) + 1
           /\ QuoteAt(tag, i) <= Len(tag) => i < UnquoteAt(tag, i)
<1>1. PICK n, a, b, c, d : /\ n = Len(tag) /\ a = NameAt(tag, i) /\ b = StopAt(tag, i)
                           /\ c = QuoteAt(tag, i) /\ d = UnquoteAt(tag, i)
  OBVIOUS
<1>2. n \in Nat
  BY <1>1
<1>3. Misses(a, tag, i, {" "})
  BY <1>1, SkipIs DEF NameAt
<1>4. a \in Nat /\ a <= n + 1 /\ (a <= n => i <= a)
  BY <1>1, <1>3 DEF Misses
<1>5. Hits(b, tag, a, {" ", "="})
  BY <1>1, <1>4, FindIs DEF StopAt
<1>6. b \in Nat /\ b + 1 \in Nat /\ b <= n + 1 /\ (b <= n => a <= b)
  <2>1. b \in Nat /\ b <= n + 1 /\ (b <= n => a <= b)
    BY <1>1, <1>5 DEF Hits
  <2> QED
    BY <2>1
<1>7. Hits(c, tag, b + 1, {"\""})
  BY <1>1, <1>6, FindIs DEF QuoteAt
<1>8. c \in Nat /\ c + 1 \in Nat /\ c <= n + 1 /\ (c <= n => b + 1 <= c)
  <2>1. c \in Nat /\ c <= n + 1 /\ (c <= n => b + 1 <= c)
    BY <1>1, <1>7 DEF Hits
  <2> QED
    BY <2>1
<1>9. Hits(d, tag, c + 1, {"\""})
  BY <1>1, <1>8, FindIs DEF UnquoteAt
<1>10. d \in Nat /\ d <= n + 1 /\ (d <= n => c + 1 <= d)
  BY <1>1, <1>9 DEF Hits
<1>11. c <= n => i < d
  BY ONLY <1>2, <1>4, <1>6, <1>8, <1>10, i \in Nat
<1> QED
  BY <1>1, <1>4, <1>6, <1>8, <1>10, <1>11

(* Those of a tag are a list that is read from the left. *)
AttribStops(tag) ==
    {i \in 1..(Len(tag) + 2) :
        \/ NameAt(tag, i) > Len(tag)
        \/ At(tag, NameAt(tag, i)) = "/"
        \/ QuoteAt(tag, i) > Len(tag)}

AttribLast(tag) ==
    [i \in 1..(Len(tag) + 2) |->
        IF NameAt(tag, i) > Len(tag) THEN <<>>
        ELSE IF At(tag, NameAt(tag, i)) = "/" THEN <<<<>>>>
        ELSE <<<<NameOf(tag, i)>>>>]

AttribHead(tag) == [i \in 1..(Len(tag) + 2) |-> <<NameOf(tag, i), ValueOf(tag, i)>>]
AttribNext(tag) == [i \in 1..(Len(tag) + 2) |-> UnquoteAt(tag, i) + 1]

AttribKinds(tag) ==
    {<<>>} \union {<<NameOf(tag, i)>> : i \in 1..(Len(tag) + 2)}
           \union {<<NameOf(tag, i), ValueOf(tag, i)>> : i \in 1..(Len(tag) + 2)}

AttribRun(g, tag) ==
    IsRun(g, Len(tag) + 2, AttribStops(tag), AttribLast(tag), AttribHead(tag), AttribNext(tag))

(* They make up a course,                                                  *)
LEMMA AttribCourse ==
    ASSUME NEW tag, IsSeq(tag)
    PROVE  IsCourse(Len(tag) + 2, AttribStops(tag), AttribLast(tag), AttribHead(tag),
                    AttribNext(tag), AttribKinds(tag))
<1>1. PICK m, n : m = Len(tag) /\ n = m + 2
  OBVIOUS
<1>2. m \in Nat /\ n \in Nat /\ n = Len(tag) + 2
  BY <1>1, SeqDomain
<1>3. ASSUME NEW i \in 1..n, i \in AttribStops(tag)
      PROVE  AttribLast(tag)[i] \in Seq(AttribKinds(tag))
  <2>1. <<>> \in AttribKinds(tag) /\ <<NameOf(tag, i)>> \in AttribKinds(tag)
    BY <1>2 DEF AttribKinds
  <2>2. AttribLast(tag)[i] \in {<<>>, <<<<>>>>, <<<<NameOf(tag, i)>>>>}
    BY <1>2 DEF AttribLast
  <2>3. PICK S, x, y : S = AttribKinds(tag) /\ x = <<NameOf(tag, i)>> /\ y = AttribLast(tag)[i]
    OBVIOUS
  <2>4. <<>> \in S /\ x \in S /\ y \in {<<>>, <<<<>>>>, <<x>>}
    BY <2>1, <2>2, <2>3
  <2>5. <<>> \in Seq(S) /\ <<<<>>>> \in Seq(S) /\ <<x>> \in Seq(S)
    BY ONLY <2>4
  <2> QED
    BY <2>3, <2>4, <2>5
<1>4. ASSUME NEW i \in 1..n, i \notin AttribStops(tag)
      PROVE  AttribHead(tag)[i] \in AttribKinds(tag) /\ AttribNext(tag)[i] \in (i + 1)..n
  <2>1. AttribHead(tag)[i] \in AttribKinds(tag)
    BY <1>2 DEF AttribHead, AttribKinds
  <2>2. PICK d, c : d = UnquoteAt(tag, i) /\ c = QuoteAt(tag, i)
    OBVIOUS
  <2>3. ~ (c > m)
    BY <1>1, <1>2, <1>4, <2>2 DEF AttribStops
  <2>4. d \in Nat /\ c \in Nat /\ d <= m + 1 /\ (c <= m => i < d)
    <3>1. i \in Nat
      BY <1>2
    <3> QED
      BY <1>1, <1>2, <2>2, <3>1, AttribPlaces
  <2>5. AttribNext(tag)[i] = d + 1
    BY <1>2, <2>2 DEF AttribNext
  <2>6. d + 1 \in (i + 1)..n
    BY <1>1, <1>2, <2>3, <2>4
  <2> QED
    BY <2>1, <2>5, <2>6
<1> QED
  BY <1>2, <1>3, <1>4 DEF IsCourse

(* and run through it.                                                     *)
LEMMA AttribRuns ==
    ASSUME NEW tag, IsSeq(tag), NEW g
    PROVE  IsAttribs(g, tag) <=> AttribRun(g, tag)
<1>1. PICK n : n = Len(tag) + 2
  OBVIOUS
<1>2. Len(tag) \in Nat /\ n \in Nat
  BY <1>1, SeqDomain
<1>3. ASSUME NEW i \in 1..n
      PROVE  AttribsFrom(g, tag, i) =
                IF i \in AttribStops(tag) THEN AttribLast(tag)[i]
                ELSE <<AttribHead(tag)[i]>> \o g[AttribNext(tag)[i]]
  <2>1. PICK m, a, c : m = Len(tag) /\ a = NameAt(tag, i) /\ c = QuoteAt(tag, i)
    OBVIOUS
  <2>2. m \in Nat /\ a \in Nat /\ c \in Nat
    BY <1>2, <2>1, AttribPlaces
  <2>3. i \in AttribStops(tag) <=> a > m \/ At(tag, a) = "/" \/ c > m
    BY <1>1, <2>1 DEF AttribStops
  <2>4. AttribLast(tag)[i] =
           IF a > m THEN <<>> ELSE IF At(tag, a) = "/" THEN <<<<>>>> ELSE <<<<NameOf(tag, i)>>>>
    BY <1>1, <2>1 DEF AttribLast
  <2>5. AttribHead(tag)[i] = <<NameOf(tag, i), ValueOf(tag, i)>> /\ AttribNext(tag)[i] = UnquoteAt(tag, i) + 1
    BY <1>1 DEF AttribHead, AttribNext
  <2>6. AttribsFrom(g, tag, i) =
           CASE a > m -> <<>>
             [] At(tag, a) = "/" -> <<<<>>>>
             [] a <= m /\ At(tag, a) # "/" /\ c > m -> <<<<NameOf(tag, i)>>>>
             [] OTHER -> <<<<NameOf(tag, i), ValueOf(tag, i)>>>> \o g[UnquoteAt(tag, i) + 1]
    BY <2>1 DEF AttribsFrom
  <2>7. a <= m <=> ~ (a > m)
    BY <2>2
  <2>8. a > m => At(tag, a) # "/"
    BY <2>1, <2>2 DEF At
  <2> QED
    BY ONLY <2>3, <2>4, <2>5, <2>6, <2>7, <2>8
<1>4. [i \in 1..n |-> AttribsFrom(g, tag, i)] =
         [i \in 1..n |-> IF i \in AttribStops(tag) THEN AttribLast(tag)[i]
                         ELSE <<AttribHead(tag)[i]>> \o g[AttribNext(tag)[i]]]
  BY <1>3
<1> QED
  BY <1>1, <1>4 DEF IsAttribs, AttribRun, IsRun

(* What Attribs is. *)
AttribsOf(g, tag) ==
    /\ IsAttribs(g, tag)
    /\ \A i : Attribs(tag, i) = SubSeq(g[i], 1, Min({Len(g[i]), MaxAttribs \div 2}))
    /\ \A i \in 1..(Len(tag) + 2) : IsSeq(g[i])

(* Every tag has such attributes.                                          *)
LEMMA AttribsAre ==
    ASSUME NEW tag, IsSeq(tag)
    PROVE  \E g : AttribsOf(g, tag)
<1>1. PICK g : g = CHOOSE h : IsAttribs(h, tag)
  OBVIOUS
<1>2. IsAttribs(g, tag) /\ AttribRun(g, tag)
  <2>1. \E h : AttribRun(h, tag)
    BY AttribCourse, RunExists DEF AttribRun
  <2>2. \E h : IsAttribs(h, tag)
    BY <2>1, AttribRuns
  <2>3. IsAttribs(g, tag)
    BY <1>1, <2>2
  <2> QED
    BY <2>3, AttribRuns
<1>3. \A i : Attribs(tag, i) = SubSeq(g[i], 1, Min({Len(g[i]), MaxAttribs \div 2}))
  BY <1>1 DEF Attribs, IsAttribs, AttribsFrom, NameAt, StopAt, QuoteAt, UnquoteAt, NameOf, ValueOf
<1>4. \A i \in 1..(Len(tag) + 2) : g[i] \in Seq(AttribKinds(tag))
  BY <1>2, AttribCourse, RunType DEF AttribRun
<1>5. \A i \in 1..(Len(tag) + 2) : IsSeq(g[i])
  BY <1>4, SeqOfAny
<1> QED
  BY <1>2, <1>3, <1>5 DEF AttribsOf

-----------------------------------------------------------------------------
(* The calls of a text *)

(* Attributes are a list.                                                  *)
LEMMA AttribsSeq ==
    ASSUME NEW tag, IsSeq(tag), NEW i \in 1..(Len(tag) + 2)
    PROVE  IsSeq(Attribs(tag, i))
<1>1. PICK g : AttribsOf(g, tag)
  BY AttribsAre
<1>2. PICK s, T : s = g[i] /\ T = {Len(s), MaxAttribs \div 2}
  OBVIOUS
<1>3. IsSeq(s)
  BY <1>1, <1>2 DEF AttribsOf
<1>4. T \in SUBSET Nat /\ T # {}
  <2>1. Len(s) \in Nat
    BY <1>3, SeqDomain
  <2>2. MaxAttribs \div 2 \in Nat
    BY NamesAssumption
  <2> QED
    BY <1>2, <2>1, <2>2
<1>5. Min(T) \in Int
  <2>1. PICK m : m = Min(T)
    OBVIOUS
  <2>2. m \in T
    BY <1>4, <2>1, MinIs
  <2>3. m \in Nat
    BY <1>4, <2>2
  <2> QED
    BY <2>1, <2>3
<1>6. IsSeq(SubSeq(s, 1, Min(T)))
  <2>1. 1 \in Int
    OBVIOUS
  <2> QED
    BY <1>5, <2>1, SeqPart
<1>7. Attribs(tag, i) = SubSeq(s, 1, Min(T))
  BY <1>1, <1>2 DEF AttribsOf
<1> QED
  BY <1>6, <1>7

AttrCalls(attrs) == [i \in DOMAIN attrs |-> AttrCall(attrs[i])]

(* Each attribute makes a list of calls.                                   *)
LEMMA AttrCallsAre ==
    ASSUME NEW attrs, IsSeq(attrs)
    PROVE  /\ IsSeq(AttrCalls(attrs)) /\ Len(AttrCalls(attrs)) = Len(attrs)
           /\ \A i \in 1..Len(attrs) : /\ AttrCalls(attrs)[i] = AttrCall(attrs[i])
                                       /\ IsSeq(AttrCalls(attrs)[i])
<1>1. PICK n, q : n = Len(attrs) /\ q = AttrCalls(attrs)
  OBVIOUS
<1>2. n \in Nat /\ DOMAIN attrs = 1..n
  BY <1>1, SeqDomain
<1>3. q = [i \in 1..n |-> AttrCall(attrs[i])]
  BY <1>1, <1>2 DEF AttrCalls
<1>4. q = [i \in 1..n |-> q[i]] /\ \A i \in 1..n : q[i] = AttrCall(attrs[i])
  BY <1>3
<1>5. IsSeq(q) /\ Len(q) = n
  BY <1>2, <1>4, SeqMade
<1>6. \A a : IsSeq(AttrCall(a))
  <2> TAKE a
  <2>1. PICK x, y, z : x = <<>> /\ y = <<<<"attr", a[1][1], a[2][1]>>>> /\ z = <<<<"fault">>>>
    OBVIOUS
  <2>2. IsSeq(x) /\ IsSeq(y) /\ IsSeq(z)
    BY <2>1, EmptyIsSeq, OneSeq
  <2>3. AttrCall(a) \in {x, y, z}
    BY <2>1 DEF AttrCall
  <2> QED
    BY <2>2, <2>3
<1> QED
  BY <1>1, <1>4, <1>5, <1>6

(* So do all of them.                                                      *)
LEMMA AttrCallsSeq ==
    ASSUME NEW attrs, IsSeq(attrs)
    PROVE  IsSeq(FlattenSeq(AttrCalls(attrs)))
<1>1. PICK q : q = AttrCalls(attrs)
  OBVIOUS
<1>2. IsSeq(q) /\ Len(q) = Len(attrs) /\ \A i \in 1..Len(attrs) : IsSeq(q[i])
  BY <1>1, AttrCallsAre
<1>3. DOMAIN q = 1..Len(attrs)
  BY <1>2, SeqDomain
<1>4. IsSeq(FlattenSeq(q))
  BY <1>2, <1>3, FlattenIsSeq
<1> QED
  BY <1>1, <1>4

(* The parts that Calls goes by. *)
FirstAt(tag) == Skip(tag, 1, {" "})
EndingTag(tag) == At(tag, FirstAt(tag)) = "/"
StartAt(tag) == IF EndingTag(tag) THEN FirstAt(tag) + 1 ELSE FirstAt(tag)
TypeEnd(tag) == Find(tag, StartAt(tag), {" "})
TypeOf(tag) == SubSeq(tag, StartAt(tag), TypeEnd(tag) - 1)
ListAt(tag) == Min({TypeEnd(tag), Len(tag)}) + 1
ListOf(tag) == IF EndingTag(tag) THEN <<>> ELSE Attribs(tag, ListAt(tag))
Itself(tag) == ListOf(tag) # <<>> /\ Last(ListOf(tag)) = <<>>
GivenTo(tag) == IF Itself(tag) THEN Front(ListOf(tag)) ELSE ListOf(tag)
Opened(tag) ==
    <<<<"element", TypeOf(tag)[1]>>>> \o FlattenSeq(AttrCalls(GivenTo(tag))) \o <<<<"attr_none">>>>
Closed(tag) == IF EndingTag(tag) \/ Itself(tag) THEN <<<<"element_none">>>> ELSE <<>>

(* The calls of a tag go by these parts.                                   *)
LEMMA CallsAre ==
    ASSUME NEW tag
    PROVE  Calls(tag) =
              IF At(tag, StartAt(tag)) \in {"end", "?", "!"} \/ TypeOf(tag) \notin {<<n>> : n \in Elements}
              THEN <<>>
              ELSE (IF EndingTag(tag) THEN <<>> ELSE Opened(tag)) \o Closed(tag)
  BY DEF Calls, FirstAt, EndingTag, StartAt, TypeEnd, TypeOf, ListAt, ListOf, Itself, GivenTo,
         Opened, Closed, AttrCalls

(* These are places of the tag.                                            *)
LEMMA TagSpots ==
    ASSUME NEW tag, IsSeq(tag)
    PROVE  /\ FirstAt(tag) \in Nat /\ StartAt(tag) \in Nat /\ TypeEnd(tag) \in Nat
           /\ ListAt(tag) \in 1..(Len(tag) + 2)
<1>1. PICK n, a, b, c : n = Len(tag) /\ a = FirstAt(tag) /\ b = StartAt(tag) /\ c = TypeEnd(tag)
  OBVIOUS
<1>2. n \in Nat /\ 1 \in Nat
  BY <1>1, SeqDomain
<1>3. Misses(a, tag, 1, {" "})
  BY <1>1, <1>2, SkipIs DEF FirstAt
<1>4. a \in Nat
  BY <1>3 DEF Misses
<1>5. b \in Nat
  BY <1>1, <1>4 DEF StartAt
<1>6. Hits(c, tag, b, {" "})
  BY <1>1, <1>2, <1>5, FindIs DEF TypeEnd
<1>7. c \in Nat /\ c <= n + 1
  BY <1>1, <1>6 DEF Hits
<1>8. PICK T, m : T = {c, n} /\ m = Min(T)
  OBVIOUS
<1>9. m \in T /\ m <= n /\ m \in Nat
  <2>1. T \in SUBSET Nat /\ T # {} /\ n \in T
    BY <1>2, <1>7, <1>8
  <2> QED
    BY <1>8, <2>1, MinIs
<1>10. m + 1 \in 1..(n + 2)
  BY <1>2, <1>9
<1> QED
  BY <1>1, <1>4, <1>5, <1>7, <1>8, <1>10 DEF ListAt

(* The calls of a tag are a list.                                          *)
LEMMA CallsSeq ==
    ASSUME NEW tag, IsSeq(tag)
    PROVE  IsSeq(Calls(tag))
<1>1. IsSeq(ListOf(tag))
  <2>1. IsSeq(Attribs(tag, ListAt(tag)))
    BY TagSpots, AttribsSeq
  <2> QED
    BY <2>1, EmptyIsSeq DEF ListOf
<1>2. IsSeq(GivenTo(tag))
  <2>1. PICK s, n : s = ListOf(tag) /\ n = Len(s) - 1
    OBVIOUS
  <2>2. n \in Int /\ 1 \in Int
    BY <1>1, <2>1, SeqDomain
  <2>3. IsSeq(SubSeq(s, 1, n))
    BY <2>2, SeqPart
  <2> QED
    BY <1>1, <2>1, <2>3 DEF GivenTo, Front
<1>3. PICK a, b, c, d : /\ a = <<<<"element", TypeOf(tag)[1]>>>> /\ b = FlattenSeq(AttrCalls(GivenTo(tag)))
                        /\ c = <<<<"attr_none">>>> /\ d = <<<<"element_none">>>>
  OBVIOUS
<1>4. IsSeq(a) /\ IsSeq(b) /\ IsSeq(c) /\ IsSeq(d) /\ IsSeq(<<>>)
  BY <1>2, <1>3, OneSeq, EmptyIsSeq, AttrCallsSeq
<1>5. IsSeq((a \o b) \o c)
  <2>1. IsSeq(a \o b)
    BY <1>4, SeqJoined
  <2> QED
    BY <1>4, <2>1, SeqJoined
<1>6. PICK x, y : x = (IF EndingTag(tag) THEN <<>> ELSE Opened(tag)) /\ y = Closed(tag)
  OBVIOUS
<1>7. IsSeq(x) /\ IsSeq(y)
  BY <1>3, <1>4, <1>5, <1>6 DEF Opened, Closed
<1>8. IsSeq(x \o y)
  BY <1>7, SeqJoined
<1>9. Calls(tag) = <<>> \/ Calls(tag) = x \o y
  BY <1>6, CallsAre
<1> QED
  BY <1>4, <1>8, <1>9

CallsIn(tags) == [i \in DOMAIN tags |-> Calls(tags[i])]

(* So are those of a text.                                                 *)
LEMMA CallsInAre ==
    ASSUME NEW text, IsSeq(text)
    PROVE  /\ CallsOf(text) = FlattenSeq(CallsIn(Tags(text)))
           /\ IsSeq(Tags(text)) /\ IsSeq(CallsIn(Tags(text)))
           /\ Len(CallsIn(Tags(text))) = Len(Tags(text))
           /\ \A i \in 1..Len(Tags(text)) : /\ IsSeq(CallsIn(Tags(text))[i])
                                            /\ CallsIn(Tags(text))[i] = Calls(Tags(text)[i])
           /\ IsSeq(CallsOf(text))
<1>1. CallsOf(text) = FlattenSeq(CallsIn(Tags(text)))
  BY DEF CallsOf, CallsIn
<1>2. PICK g : TagsOf(g, text)
  BY TagsAre
<1>3. PICK t, n, q : t = Tags(text) /\ n = Len(t) /\ q = CallsIn(t)
  OBVIOUS
<1>4. IsSeq(t) /\ \A i \in DOMAIN t : IsSeq(t[i])
  <2>1. 1 \in 1..(Len(text) + 1)
    BY SeqDomain
  <2>2. t = g[1]
    BY <1>2, <1>3 DEF TagsOf
  <2> QED
    BY <1>2, <2>1, <2>2 DEF TagsOf
<1>5. n \in Nat /\ DOMAIN t = 1..n
  BY <1>3, <1>4, SeqDomain
<1>6. q = [i \in 1..n |-> q[i]] /\ \A i \in 1..n : q[i] = Calls(t[i])
  BY <1>3, <1>5 DEF CallsIn
<1>7. IsSeq(q) /\ Len(q) = n /\ DOMAIN q = 1..n
  BY <1>5, <1>6, SeqMade
<1>8. \A i \in 1..n : IsSeq(q[i])
  BY <1>4, <1>5, <1>6, CallsSeq
<1>9. IsSeq(FlattenSeq(q))
  BY <1>7, <1>8, FlattenIsSeq
<1> QED
  BY <1>1, <1>3, <1>4, <1>6, <1>7, <1>8, <1>9

(* A whole text and another make the calls of the one and of the other. *)
LEMMA CallsJoined ==
    ASSUME NEW t, NEW u, IsSeq(t), IsSeq(u), IsWhole(t)
    PROVE  CallsOf(t \o u) = CallsOf(t) \o CallsOf(u)
<1>1. PICK w, x, y, z : w = t \o u /\ x = Tags(t) /\ y = Tags(u) /\ z = Tags(w)
  OBVIOUS
<1>2. IsSeq(w)
  BY <1>1, SeqJoined
<1>3. z = x \o y
  BY <1>1, TagsJoined
<1>4. PICK p, q, r : p = CallsIn(x) /\ q = CallsIn(y) /\ r = CallsIn(z)
  OBVIOUS
<1>5. /\ CallsOf(t) = FlattenSeq(p) /\ IsSeq(x) /\ IsSeq(p) /\ Len(p) = Len(x)
      /\ \A i \in 1..Len(x) : IsSeq(p[i]) /\ p[i] = Calls(x[i])
  BY <1>1, <1>4, CallsInAre
<1>6. /\ CallsOf(u) = FlattenSeq(q) /\ IsSeq(y) /\ IsSeq(q) /\ Len(q) = Len(y)
      /\ \A i \in 1..Len(y) : IsSeq(q[i]) /\ q[i] = Calls(y[i])
  BY <1>1, <1>4, CallsInAre
<1>7. /\ CallsOf(w) = FlattenSeq(r) /\ IsSeq(z) /\ IsSeq(r) /\ Len(r) = Len(z)
      /\ \A i \in 1..Len(z) : IsSeq(r[i]) /\ r[i] = Calls(z[i])
  BY <1>1, <1>2, <1>4, CallsInAre
<1>8. r = p \o q
  <2>1. PICK s, l, n : s = p \o q /\ l = Len(x) /\ n = Len(y)
    OBVIOUS
  <2>2. JoinOf(z, x, y)
    BY <1>3, <1>5, <1>6, JoinIs
  <2>3. JoinOf(s, p, q)
    BY <1>5, <1>6, <2>1, JoinIs
  <2>4. l \in Nat /\ n \in Nat
    BY <1>5, <1>6, <2>1, SeqDomain
  <2>5. Len(z) = l + n /\ Len(s) = l + n /\ IsSeq(s) /\ Len(p) = l /\ Len(q) = n
    BY <1>5, <1>6, <2>1, <2>2, <2>3 DEF JoinOf
  <2>6. \A i \in 1..Len(r) : r[i] = s[i]
    <3> TAKE i \in 1..Len(r)
    <3>1. i \in 1..(l + n) /\ r[i] = Calls(z[i])
      BY <1>7, <2>5
    <3>2. CASE i \in 1..l
      <4>1. z[i] = x[i] /\ s[i] = p[i]
        BY <2>1, <2>2, <2>3, <2>5, <3>2 DEF JoinOf
      <4>2. p[i] = Calls(x[i])
        BY <1>5, <2>1, <3>2
      <4> QED
        BY <3>1, <4>1, <4>2
    <3>3. CASE i \in (l + 1)..(l + n)
      <4>1. PICK j : j = i - l
        OBVIOUS
      <4>2. j \in 1..n /\ i = l + j
        BY <2>4, <3>3, <4>1
      <4>3. z[i] = y[j] /\ s[i] = q[j]
        BY <2>1, <2>2, <2>3, <2>5, <4>2 DEF JoinOf
      <4>4. q[j] = Calls(y[j])
        BY <1>6, <2>1, <4>2
      <4> QED
        BY <3>1, <4>3, <4>4
    <3> QED
      BY <2>4, <3>1, <3>2, <3>3
  <2>7. r = s
    BY <1>7, <2>5, <2>6, SeqSame
  <2> QED
    BY <2>1, <2>7
<1>9. \A i \in DOMAIN p : IsSeq(p[i])
  BY <1>5, SeqDomain
<1>10. \A i \in DOMAIN q : IsSeq(q[i])
  BY <1>6, SeqDomain
<1>11. FlattenSeq(p \o q) = FlattenSeq(p) \o FlattenSeq(q)
  BY <1>5, <1>6, <1>9, <1>10, FlattenJoined
<1> QED
  BY <1>1, <1>5, <1>6, <1>7, <1>8, <1>11

-----------------------------------------------------------------------------
(* A text that is cut off *)

(* The calls of the beginning are the beginning of the calls.              *)
LEMMA CallsStart ==
    ASSUME NEW s, NEW t, Starts(s, t)
    PROVE  Starts(CallsOf(s), CallsOf(t))
<1>1. PICK x, y : x = Tags(s) /\ y = Tags(t)
  OBVIOUS
<1>2. IsSeq(s) /\ IsSeq(t)
  BY DEF Starts
<1>3. Starts(x, y)
  <2>1. PICK g, h : TagsOf(g, s) /\ TagsOf(h, t)
    BY <1>2, TagsAre
  <2>2. 1 \in 1..(Len(s) + 1)
    BY <1>2, SeqDomain
  <2>3. Starts(g[1], h[1])
    BY <2>1, <2>2, TagsStart
  <2> QED
    BY <1>1, <2>1, <2>3 DEF TagsOf
<1>4. PICK p, q, l, n : p = CallsIn(x) /\ q = CallsIn(y) /\ l = Len(x) /\ n = Len(y)
  OBVIOUS
<1>5. /\ CallsOf(s) = FlattenSeq(p) /\ IsSeq(p) /\ Len(p) = l
      /\ \A i \in 1..l : p[i] = Calls(x[i])
      /\ IsSeq(CallsOf(s))
  BY <1>1, <1>2, <1>4, CallsInAre
<1>6. /\ CallsOf(t) = FlattenSeq(q) /\ IsSeq(q) /\ Len(q) = n
      /\ \A i \in 1..n : IsSeq(q[i]) /\ q[i] = Calls(y[i])
      /\ IsSeq(CallsOf(t))
  BY <1>1, <1>2, <1>4, CallsInAre
<1>7. l \in Nat /\ n \in Nat /\ l \in 0..n /\ \A i \in 1..l : x[i] = y[i]
  BY <1>3, <1>4, SeqDomain DEF Starts
<1>8. \A i \in 1..l : p[i] = q[i]
  BY <1>5, <1>6, <1>7
<1>9. PICK f : Joins(f, q, n) /\ \A k \in 0..n : IsSeq(f[k])
  BY <1>6, <1>7, JoinsExist
<1>10. FlattenSeq(p) = f[l]
  <2>1. FirstOf(p, l, f, q, n)
    BY <1>5, <1>6, <1>7, <1>8, <1>9 DEF FirstOf
  <2> QED
    BY <2>1, FlattenFirst
<1>11. FlattenSeq(q) = f[n]
  BY <1>6, <1>9, FlattenAll
<1>12. Joined(f, q, n)
  BY <1>6, <1>7, <1>9, JoinsHold
<1>13. Len(f[l]) <= Len(f[n]) /\ \A i \in 1..Len(f[l]) : f[l][i] = f[n][i]
  <2>1. n \in l..n
    BY <1>7
  <2> QED
    BY <1>7, <1>12, <2>1 DEF Joined
<1> QED
  BY <1>5, <1>6, <1>10, <1>11, <1>13 DEF Starts

(* That is what a prefix is.                                               *)
LEMMA StartIsPrefix ==
    ASSUME NEW s, NEW t, Starts(s, t)
    PROVE  IsPrefix(s, t)
<1>1. PICK m, x, y : m = Len(s) /\ x = SubSeq(s, 1, m) /\ y = SubSeq(t, 1, m)
  OBVIOUS
<1>2. m \in Nat /\ Len(t) \in Nat /\ m <= Len(t) /\ \A i \in 1..m : s[i] = t[i]
  BY <1>1, SeqDomain DEF Starts
<1>3. 1 \in Int /\ m \in Int /\ m - 1 + 1 = m /\ (1 <= m \/ m = 0) /\ \A i \in 1..m : 1 + i - 1 = i
  BY <1>2
<1>4. IsSeq(x) /\ Len(x) = m /\ \A i \in 1..m : x[i] = s[i]
  BY <1>1, <1>3, SeqPart
<1>5. IsSeq(y) /\ Len(y) = m /\ \A i \in 1..m : y[i] = t[i]
  BY <1>1, <1>3, SeqPart
<1>6. x = y
  BY <1>2, <1>4, <1>5, SeqSame
<1> QED
  BY <1>1, <1>2, <1>6 DEF IsPrefix

(* Wherever XML text is cut off, its calls are the first of those of the   *)
(* whole.                                                                  *)
LEMMA XmlCut ==
    ASSUME PipeInv, stage = "copy"
    PROVE  \A k \in 0..Len(sent) : IsPrefix(CallsOf(SubSeq(sent, 1, k)), CallsOf(sent))
<1> TAKE k \in 0..Len(sent)
<1>1. PICK t, s : t = sent /\ s = SubSeq(t, 1, k)
  OBVIOUS
<1>2. IsSeq(t) /\ Len(t) \in Nat /\ k \in 0..Len(t)
  BY <1>1, SeqDomain DEF PipeInv
<1>3. 1 \in Int /\ k \in Int /\ k \in Nat /\ k <= Len(t) /\ k - 1 + 1 = k /\ (1 <= k \/ k = 0)
      /\ \A i \in 1..k : 1 + i - 1 = i
  BY <1>2
<1>4. IsSeq(s) /\ Len(s) = k /\ \A i \in 1..k : s[i] = t[i]
  BY <1>1, <1>3, SeqPart
<1>5. Starts(s, t)
  BY <1>2, <1>3, <1>4 DEF Starts
<1>6. IsPrefix(CallsOf(s), CallsOf(t))
  BY <1>5, CallsStart, StartIsPrefix
<1> QED
  BY <1>1, <1>6

-----------------------------------------------------------------------------
(* Texts in which every tag is finished *)

(* There is a ">" behind every "<", and no other "<" between them.         *)
Paired(t) ==
    \A i \in 1..Len(t) :
        t[i] = "<" => \E j \in (i + 1)..Len(t) :
                         t[j] = ">" /\ \A m \in (i + 1)..j : t[m] # "<"

(* Such a text is whole.                                                   *)
LEMMA PairedWhole ==
    ASSUME NEW t, IsSeq(t), Paired(t)
    PROVE  IsWhole(t)
<1>1. Len(t) \in Nat /\ DOMAIN t = 1..Len(t)
  BY SeqDomain
<1>2. ASSUME NEW i \in 1..Len(t), t[i] = "<"
      PROVE  \E j \in 1..Len(t) : j > i /\ t[j] = ">"
  <2>1. PICK j \in (i + 1)..Len(t) : t[j] = ">"
    BY <1>2 DEF Paired
  <2>2. j \in 1..Len(t) /\ j > i
    BY <1>1
  <2> QED
    BY <2>1, <2>2
<1> QED
  BY <1>1, <1>2 DEF IsWhole

(* Two such texts make another;                                            *)
LEMMA PairedJoined ==
    ASSUME NEW t, NEW u, IsSeq(t), IsSeq(u), Paired(t), Paired(u)
    PROVE  Paired(t \o u)
<1>1. PICK w, l, n : w = t \o u /\ l = Len(t) /\ n = Len(u)
  OBVIOUS
<1>2. JoinOf(w, t, u)
  BY <1>1, JoinIs
<1>3. /\ l \in Nat /\ n \in Nat /\ Len(w) = l + n
      /\ \A i \in 1..l : w[i] = t[i]
      /\ \A i \in 1..n : w[l + i] = u[i]
  BY <1>1, <1>2, SeqDomain DEF JoinOf
<1>4. ASSUME NEW i \in 1..(l + n), w[i] = "<"
      PROVE  \E j \in (i + 1)..(l + n) : w[j] = ">" /\ \A m \in (i + 1)..j : w[m] # "<"
  <2>1. CASE i \in 1..l
    <3>1. t[i] = "<"
      BY <1>3, <1>4, <2>1
    <3>2. PICK j \in (i + 1)..l : t[j] = ">" /\ \A m \in (i + 1)..j : t[m] # "<"
      BY <1>1, <2>1, <3>1 DEF Paired
    <3>3. j \in 1..l /\ j \in (i + 1)..(l + n) /\ \A m \in (i + 1)..j : m \in 1..l
      BY <1>3
    <3>4. w[j] = ">" /\ \A m \in (i + 1)..j : w[m] # "<"
      BY <1>3, <3>2, <3>3
    <3> QED
      BY <3>3, <3>4
  <2>2. CASE i \in (l + 1)..(l + n)
    <3>1. PICK a : a = i - l
      OBVIOUS
    <3>2. a \in 1..n /\ i = l + a
      BY <1>3, <2>2, <3>1
    <3>3. u[a] = "<"
      BY <1>3, <1>4, <3>2
    <3>4. PICK b \in (a + 1)..n : u[b] = ">" /\ \A m \in (a + 1)..b : u[m] # "<"
      BY <1>1, <3>2, <3>3 DEF Paired
    <3>5. PICK j : j = l + b
      OBVIOUS
    <3>6. b \in 1..n /\ j \in (i + 1)..(l + n)
      BY <1>3, <3>2, <3>5
    <3>7. w[j] = ">"
      BY <1>3, <3>4, <3>5, <3>6
    <3>8. ASSUME NEW m \in (i + 1)..j PROVE w[m] # "<"
      <4>1. PICK c : c = m - l
        OBVIOUS
      <4>2. c \in (a + 1)..b /\ c \in 1..n /\ m = l + c
        BY <1>3, <3>2, <3>5, <3>6, <4>1
      <4> QED
        BY <1>3, <3>4, <4>2
    <3> QED
      BY <3>6, <3>7, <3>8
  <2> QED
    BY <1>3, <2>1, <2>2
<1>5. Len(w) = l + n
  BY <1>3
<1>6. Paired(w)
  BY ONLY <1>4, <1>5 DEF Paired
<1> QED
  BY <1>1, <1>6

(* so do two whole ones.                                                   *)
LEMMA WholeJoined ==
    ASSUME NEW t, NEW u, IsSeq(t), IsSeq(u), IsWhole(t), IsWhole(u)
    PROVE  IsWhole(t \o u)
<1>1. PICK w, l, n : w = t \o u /\ l = Len(t) /\ n = Len(u)
  OBVIOUS
<1>2. JoinOf(w, t, u)
  BY <1>1, JoinIs
<1>3. /\ l \in Nat /\ n \in Nat /\ Len(w) = l + n /\ IsSeq(w)
      /\ \A i \in 1..l : w[i] = t[i]
      /\ \A i \in 1..n : w[l + i] = u[i]
  BY <1>1, <1>2, SeqDomain DEF JoinOf
<1>4. DOMAIN w = 1..(l + n) /\ DOMAIN t = 1..l /\ DOMAIN u = 1..n
  BY <1>1, <1>3, SeqDomain
<1>5. ASSUME NEW i \in 1..(l + n), w[i] = "<"
      PROVE  \E j \in 1..(l + n) : j > i /\ w[j] = ">"
  <2>1. CASE i \in 1..l
    <3>1. t[i] = "<"
      BY <1>3, <1>5, <2>1
    <3>2. PICK j \in 1..l : j > i /\ t[j] = ">"
      BY <1>4, <2>1, <3>1 DEF IsWhole
    <3>3. j \in 1..(l + n) /\ w[j] = ">"
      BY <1>3, <3>2
    <3> QED
      BY <3>2, <3>3
  <2>2. CASE i \in (l + 1)..(l + n)
    <3>1. PICK a : a = i - l
      OBVIOUS
    <3>2. a \in 1..n /\ i = l + a
      BY <1>3, <2>2, <3>1
    <3>3. u[a] = "<"
      BY <1>3, <1>5, <3>2
    <3>4. PICK b \in 1..n : b > a /\ u[b] = ">"
      BY <1>4, <3>2, <3>3 DEF IsWhole
    <3>5. w[l + b] = ">" /\ l + b \in 1..(l + n) /\ l + b > i
      BY <1>3, <3>2, <3>4
    <3> QED
      BY <3>5
  <2> QED
    BY <1>3, <2>1, <2>2
<1> QED
  BY <1>1, <1>4, <1>5 DEF IsWhole

-----------------------------------------------------------------------------
(* What is received of a text makes the calls of the text *)

(* No text makes no call.                                                  *)
LEMMA NoCalls == CallsOf(<<>>) = <<>> /\ IsWhole(<<>>)
<1>1. PICK z : z = <<>>
  OBVIOUS
<1>2. IsSeq(z) /\ Len(z) = 0
  BY <1>1, EmptyIsSeq
<1>3. IsWhole(z)
  <2>1. DOMAIN z = 1..Len(z)
    BY <1>2, SeqDomain
  <2>2. DOMAIN z = {}
    BY <1>2, <2>1
  <2> QED
    BY <2>2 DEF IsWhole
<1>4. PICK c, n : c = CallsOf(z) /\ n = Len(c)
  OBVIOUS
<1>5. IsSeq(c) /\ n \in Nat
  BY <1>2, <1>4, CallsInAre, SeqDomain
<1>6. c = c \o c
  <2>1. CallsOf(z \o z) = CallsOf(z) \o CallsOf(z)
    BY <1>2, <1>3, CallsJoined
  <2>2. z \o z = z
    BY <1>1, <1>2, NoneJoined
  <2> QED
    BY <1>4, <2>1, <2>2
<1>7. n = n + n
  <2>1. JoinOf(c, c, c)
    BY <1>5, <1>6, JoinIs
  <2> QED
    BY <1>4, <2>1 DEF JoinOf
<1>8. c = <<>>
  BY <1>4, <1>5, <1>7, EmptyIsSeq
<1> QED
  BY <1>1, <1>3, <1>4, <1>8

(* A text is its first part and the rest; *)
LEMMA CutInTwo ==
    ASSUME NEW t, IsSeq(t), NEW k \in 1..(Len(t) + 1)
    PROVE  /\ IsSeq(SubSeq(t, 1, k - 1)) /\ IsSeq(SubSeq(t, k, Len(t)))
           /\ Len(SubSeq(t, 1, k - 1)) = k - 1
           /\ \A i \in 1..(k - 1) : SubSeq(t, 1, k - 1)[i] = t[i]
           /\ Len(SubSeq(t, k, Len(t))) = Len(t) + 1 - k
           /\ \A i \in 1..(Len(t) + 1 - k) : SubSeq(t, k, Len(t))[i] = t[k + i - 1]
           /\ t = SubSeq(t, 1, k - 1) \o SubSeq(t, k, Len(t))
<1>1. PICK n, h, a, b : n = Len(t) /\ h = k - 1 /\ a = SubSeq(t, 1, h) /\ b = SubSeq(t, k, n)
  OBVIOUS
<1>2. n \in Nat /\ h \in Nat /\ h <= n /\ k = h + 1 /\ k \in Int /\ n \in Int /\ h \in Int /\ 1 \in Int
  BY <1>1, SeqDomain
<1>3. IsSeq(a) /\ Len(a) = h /\ \A i \in 1..h : a[i] = t[i]
  <2>1. h - 1 + 1 = h /\ (1 <= h \/ h = 0) /\ \A i \in 1..h : 1 + i - 1 = i
    BY <1>2
  <2> QED
    BY <1>1, <1>2, <2>1, SeqPart
<1>4. IsSeq(b) /\ Len(b) = n + 1 - k /\ \A i \in 1..(n + 1 - k) : b[i] = t[k + i - 1]
  <2>1. n - k + 1 = n + 1 - k /\ (k <= n \/ n + 1 - k = 0)
    BY <1>2
  <2> QED
    BY <1>1, <1>2, <2>1, SeqPart
<1>5. PICK w : w = a \o b
  OBVIOUS
<1>6. JoinOf(w, a, b)
  BY <1>3, <1>4, <1>5, JoinIs
<1>7. IsSeq(w) /\ Len(w) = n
  BY <1>2, <1>3, <1>4, <1>6 DEF JoinOf
<1>8. ASSUME NEW i \in 1..n PROVE t[i] = w[i]
  <2>1. CASE i \in 1..h
    BY <1>3, <1>6, <2>1 DEF JoinOf
  <2>2. CASE i \in (h + 1)..n
    <3>1. PICK j : j = i - h
      OBVIOUS
    <3>2. j \in 1..(n + 1 - k) /\ i = h + j /\ k + j - 1 = i
      BY <1>2, <2>2, <3>1
    <3>3. w[h + j] = b[j]
      BY <1>3, <1>4, <1>6, <3>2 DEF JoinOf
    <3> QED
      BY <1>4, <3>2, <3>3
  <2> QED
    BY <1>2, <2>1, <2>2
<1>9. t = w
  BY <1>1, <1>7, <1>8, SeqSame
<1> QED
  BY <1>1, <1>3, <1>4, <1>5, <1>9

(* both are whole if the cut is where a tag begins, or at the end.         *)
LEMMA WholeParts ==
    ASSUME NEW t, IsSeq(t), Paired(t), NEW k \in 1..(Len(t) + 1),
           k = Len(t) + 1 \/ t[k] = "<"
    PROVE  IsWhole(SubSeq(t, 1, k - 1)) /\ IsWhole(SubSeq(t, k, Len(t)))
<1>1. PICK n, h, a, b : n = Len(t) /\ h = k - 1 /\ a = SubSeq(t, 1, k - 1) /\ b = SubSeq(t, k, Len(t))
  OBVIOUS
<1>2. n \in Nat /\ h \in Nat /\ h <= n /\ k = h + 1
  BY <1>1, SeqDomain
<1>3. /\ IsSeq(a) /\ Len(a) = h /\ \A i \in 1..h : a[i] = t[i]
      /\ IsSeq(b) /\ Len(b) = n + 1 - k /\ \A i \in 1..(n + 1 - k) : b[i] = t[k + i - 1]
  BY <1>1, CutInTwo
<1>4. DOMAIN a = 1..h /\ DOMAIN b = 1..(n + 1 - k)
  BY <1>3, SeqDomain
<1>5. ASSUME NEW i \in 1..h, a[i] = "<"
      PROVE  \E j \in 1..h : j > i /\ a[j] = ">"
  <2>1. t[i] = "<" /\ i \in 1..n
    BY <1>2, <1>3, <1>5
  <2>2. PICK j \in (i + 1)..n : t[j] = ">" /\ \A m \in (i + 1)..j : t[m] # "<"
    BY <1>1, <2>1 DEF Paired
  <2>3. j <= h
    <3>1. CASE k = n + 1
      BY <1>2, <3>1
    <3>2. CASE t[k] = "<"
      <4>1. k \notin (i + 1)..j
        BY <2>2, <3>2
      <4> QED
        BY <1>2, <4>1
    <3> QED
      BY <1>1, <3>1, <3>2
  <2>4. j \in 1..h /\ j > i
    BY <1>2, <2>3
  <2> QED
    BY <1>3, <2>2, <2>4
<1>6. ASSUME NEW i \in 1..(n + 1 - k), b[i] = "<"
      PROVE  \E j \in 1..(n + 1 - k) : j > i /\ b[j] = ">"
  <2>1. PICK c : c = k + i - 1
    OBVIOUS
  <2>2. c \in 1..n /\ c = h + i
    BY <1>2, <2>1
  <2>3. t[c] = "<"
    BY <1>3, <1>6, <2>1
  <2>4. PICK d \in (c + 1)..n : t[d] = ">"
    BY <1>1, <2>2, <2>3 DEF Paired
  <2>5. PICK j : j = d - h
    OBVIOUS
  <2>6. j \in 1..(n + 1 - k) /\ j > i /\ k + j - 1 = d
    BY <1>2, <2>2, <2>5
  <2>7. b[j] = ">"
    BY <1>3, <2>4, <2>6
  <2> QED
    BY <2>6, <2>7
<1>7. IsWhole(a) /\ IsWhole(b)
  BY <1>4, <1>5, <1>6 DEF IsWhole
<1> QED
  BY <1>1, <1>7

(* Noise makes no call, and is whole.                                      *)
LEMMA NoiseIs ==
    ASSUME NEW noise \in Noise
    PROVE  IsSeq(noise) /\ IsWhole(noise) /\ CallsOf(noise) = <<>>
  BY NoiseAssumption DEF IsSeq

(* Nor does what is behind the end.                                        *)
LEMMA GarbageIs ==
    ASSUME NEW text \in Garbage
    PROVE  IsSeq(text) /\ CallsOf(text) = <<>>
  BY NoiseAssumption DEF IsSeq

SaysThe(text, t) == IsSeq(text) /\ IsWhole(text) /\ CallsOf(text) = CallsOf(t)

(* With noise in it, a text says the same;                                 *)
LEMMA NoisyCalls ==
    ASSUME NEW t, IsSeq(t), Paired(t), NEW text \in Noisy(t)
    PROVE  SaysThe(text, t)
<1>1. CASE text = t
  BY <1>1, PairedWhole DEF SaysThe
<1>2. ASSUME NEW k \in {i \in DOMAIN t : t[i] = "<"} \union {Len(t) + 1}, NEW noise \in Noise,
             text = SubSeq(t, 1, k - 1) \o noise \o SubSeq(t, k, Len(t))
      PROVE  SaysThe(text, t)
  <2>1. PICK a, b, x : a = SubSeq(t, 1, k - 1) /\ b = SubSeq(t, k, Len(t)) /\ x = a \o noise
    OBVIOUS
  <2>2. k \in 1..(Len(t) + 1) /\ (k = Len(t) + 1 \/ t[k] = "<")
    <3>1. DOMAIN t = 1..Len(t) /\ Len(t) \in Nat
      BY SeqDomain
    <3> QED
      BY <3>1
  <2>3. IsWhole(a) /\ IsWhole(b)
    BY <2>1, <2>2, WholeParts
  <2>4. IsSeq(a) /\ IsSeq(b) /\ t = a \o b
    BY <2>1, <2>2, CutInTwo
  <2>5. IsSeq(noise) /\ IsWhole(noise) /\ CallsOf(noise) = <<>>
    BY NoiseIs
  <2>6. IsSeq(x) /\ IsWhole(x)
    BY <2>1, <2>3, <2>4, <2>5, WholeJoined, SeqJoined
  <2>7. IsSeq(x \o b) /\ IsWhole(x \o b)
    BY <2>3, <2>4, <2>6, WholeJoined, SeqJoined
  <2>8. PICK c, d : c = CallsOf(a) /\ d = CallsOf(b)
    OBVIOUS
  <2>9. IsSeq(c) /\ IsSeq(d)
    BY <2>4, <2>8, CallsInAre
  <2>10. CallsOf(x) = c
    <3>1. CallsOf(a \o noise) = CallsOf(a) \o CallsOf(noise)
      BY <2>3, <2>4, <2>5, CallsJoined
    <3>2. c \o <<>> = c
      BY <2>9, NoneJoined
    <3> QED
      BY <2>1, <2>5, <2>8, <3>1, <3>2
  <2>11. CallsOf(x \o b) = c \o d
    <3>1. CallsOf(x \o b) = CallsOf(x) \o CallsOf(b)
      BY <2>4, <2>6, CallsJoined
    <3> QED
      BY <2>8, <2>10, <3>1
  <2>12. CallsOf(t) = c \o d
    <3>1. CallsOf(a \o b) = CallsOf(a) \o CallsOf(b)
      BY <2>3, <2>4, CallsJoined
    <3> QED
      BY <2>4, <2>8, <3>1
  <2>13. text = x \o b
    BY <1>2, <2>1
  <2> QED
    BY <2>7, <2>11, <2>12, <2>13 DEF SaysThe
<1>3. \/ text = t
      \/ \E k \in {i \in DOMAIN t : t[i] = "<"} \union {Len(t) + 1}, noise \in Noise :
            text = SubSeq(t, 1, k - 1) \o noise \o SubSeq(t, k, Len(t))
  <2> DEFINE K == {i \in DOMAIN t : t[i] = "<"} \union {Len(t) + 1}
             With(k, noise) == SubSeq(t, 1, k - 1) \o noise \o SubSeq(t, k, Len(t))
  <2>1. text \in {t} \union UNION {{With(k, noise) : k \in K} : noise \in Noise}
    BY DEF Noisy
  <2>2. text = t \/ \E k \in K, noise \in Noise : text = With(k, noise)
    <3> HIDE DEF K, With
    <3> QED
      BY <2>1
  <2> QED
    BY <2>2
<1> QED
  BY <1>1, <1>2, <1>3

(* so does a copy with something behind it,                                *)
LEMMA CopiedCalls ==
    ASSUME NEW t, NEW text, SaysThe(text, t), NEW file \in Copied(text)
    PROVE  IsSeq(file) /\ CallsOf(file) = CallsOf(t)
<1>1. PICK extra \in {<<>>} \union Garbage : file = text \o extra
  BY DEF Copied
<1>2. IsSeq(text) /\ IsWhole(text) /\ CallsOf(text) = CallsOf(t)
  BY DEF SaysThe
<1>3. IsSeq(extra) /\ CallsOf(extra) = <<>>
  BY GarbageIs, NoCalls, EmptyIsSeq
<1>4. CallsOf(text \o extra) = CallsOf(text) \o CallsOf(extra)
  BY <1>2, <1>3, CallsJoined
<1>5. PICK c : c = CallsOf(text)
  OBVIOUS
<1>6. c \o <<>> = c
  BY <1>2, <1>5, CallsInAre, NoneJoined
<1>7. IsSeq(text \o extra)
  BY <1>2, <1>3, SeqJoined
<1> QED
  BY <1>1, <1>2, <1>3, <1>4, <1>5, <1>6, <1>7

(* and whatever is received of it.                                         *)
LEMMA ReceivedCalls ==
    ASSUME format = "xml", NEW t, IsSeq(t), Paired(t), NEW file \in Received(t)
    PROVE  IsSeq(Symbols(file)) /\ Symbols(file) = CallsOf(t)
<1>1. IsSeq(file) /\ CallsOf(file) = CallsOf(t)
  <2>1. CASE format \in Stdin
    <3>1. file \in Noisy(t)
      BY <2>1 DEF Received
    <3> QED
      BY <3>1, NoisyCalls DEF SaysThe
  <2>2. CASE format \notin Stdin
    <3>1. PICK text \in Noisy(t) : file \in Copied(text)
      BY <2>2 DEF Received
    <3> QED
      BY <3>1, NoisyCalls, CopiedCalls
  <2> QED
    BY <2>1, <2>2
<1>2. Symbols(file) = CallsOf(file)
  BY DEF Symbols
<1>3. IsSeq(CallsOf(file))
  BY <1>1, CallsInAre
<1> QED
  BY <1>1, <1>2, <1>3

-----------------------------------------------------------------------------
(* The text of one tag *)

IsTag(w, tag) ==
    /\ IsSeq(w) /\ Len(w) = Len(tag) + 3
    /\ w[1] = "<" /\ w[Len(tag) + 2] = ">" /\ w[Len(tag) + 3] = " "
    /\ \A i \in 1..Len(tag) : w[i + 1] = tag[i]

Unmarked(tag) == IsSeq(tag) /\ \A i \in 1..Len(tag) : tag[i] # "<" /\ tag[i] # ">"

(* The text of a tag has that tag, and is finished.                        *)
LEMMA TagIs ==
    ASSUME NEW w, NEW tag, Unmarked(tag), IsTag(w, tag)
    PROVE  Tags(w) = <<tag>> /\ Paired(w)
<1>1. PICK n : n = Len(tag)
  OBVIOUS
<1>2. n \in Nat /\ IsSeq(tag)
  BY <1>1, SeqDomain DEF Unmarked
<1>3. /\ IsSeq(w) /\ Len(w) = n + 3 /\ Len(w) \in Nat
      /\ w[1] = "<" /\ w[n + 2] = ">" /\ w[n + 3] = " "
      /\ \A i \in 1..n : w[i + 1] = tag[i]
  <2>1. /\ IsSeq(w) /\ Len(w) = n + 3
        /\ w[1] = "<" /\ w[n + 2] = ">" /\ w[n + 3] = " "
        /\ \A i \in 1..n : w[i + 1] = tag[i]
    BY <1>1 DEF IsTag
  <2>2. Len(w) \in Nat
    BY <2>1, SeqDomain
  <2> QED
    BY <2>1, <2>2
<1>4. PICK z : z = Len(w) /\ z \in Nat /\ z = n + 3
  BY <1>3
<1>5. \A i \in 2..(n + 1) : w[i] = tag[i - 1] /\ w[i] # "<" /\ w[i] # ">"
  <2> TAKE i \in 2..(n + 1)
  <2>1. PICK j : j = i - 1
    OBVIOUS
  <2>2. j \in 1..n /\ i = j + 1
    BY <1>2, <2>1
  <2> QED
    BY <1>1, <1>3, <2>1, <2>2 DEF Unmarked
<1>6. OpenAt(w, 1) = 1
  <2>1. 1 \in 1..Len(w) /\ w[1] \in {"<"}
    <3>1. 1 \in 1..z
      BY <1>2, <1>4
    <3> QED
      BY <1>3, <1>4, <3>1
  <2> QED
    BY <1>3, <2>1, FindHere DEF OpenAt
<1>7. CloseAt(w, 1) = n + 2
  <2>1. Hits(n + 2, w, 2, {">"})
    <3>1. n + 2 \in Nat /\ n + 2 <= Len(w) + 1 /\ 2 <= n + 2
      <4>1. n + 2 \in Nat /\ n + 2 <= z + 1 /\ 2 <= n + 2
        BY <1>2, <1>4
      <4> QED
        BY <1>4, <4>1
    <3>2. ASSUME NEW j \in 2..Len(w), w[j] \in {">"} PROVE n + 2 <= j
      <4>1. j \notin 2..(n + 1)
        BY <1>5, <3>2
      <4>2. j \in 2..z
        BY <1>4
      <4> QED
        BY <1>2, <1>4, <4>1, <4>2
    <3> QED
      BY <1>3, <3>1, <3>2 DEF Hits
  <2>2. 2 \in Nat /\ 1 + 1 = 2
    OBVIOUS
  <2>3. n + 2 = Find(w, 2, {">"})
    BY <1>3, <2>1, <2>2, FindIs
  <2> QED
    BY <1>6, <2>2, <2>3 DEF CloseAt
<1>8. TagAt(w, 1) = tag
  <2>1. PICK b, s : b = n + 1 /\ s = SubSeq(w, 2, b)
    OBVIOUS
  <2>2. /\ 2 \in Int /\ b \in Int /\ b - 2 + 1 = n /\ (2 <= b \/ n = 0) /\ 1 + 1 = 2 /\ (n + 2) - 1 = b
        /\ \A i \in 1..n : 2 + i - 1 = i + 1
    BY <1>2, <2>1
  <2>3. IsSeq(s) /\ Len(s) = n /\ \A i \in 1..n : s[i] = w[i + 1]
    BY <1>2, <2>1, <2>2, SeqPart
  <2>4. \A i \in 1..n : s[i] = tag[i]
    BY <1>3, <2>3
  <2>5. s = tag
    BY <1>1, <1>2, <2>3, <2>4, SeqSame
  <2> QED
    BY <1>6, <1>7, <2>1, <2>2, <2>5 DEF TagAt
<1>9. PICK g : TagsOf(g, w)
  BY <1>3, TagsAre
<1>10. g[1] = <<tag>> \o g[n + 3]
  <2>1. 1 \in 1..(Len(w) + 1) /\ ~ (n + 2 > Len(w)) /\ (n + 2) + 1 = n + 3
    <3>1. 1 \in 1..(z + 1) /\ ~ (n + 2 > z) /\ (n + 2) + 1 = n + 3
      BY <1>2, <1>4
    <3> QED
      BY <1>4, <3>1
  <2> QED
    BY <1>7, <1>8, <1>9, <2>1 DEF TagsOf, IsTags
<1>11. g[n + 3] = <<>>
  <2>1. PICK k : k = n + 3
    OBVIOUS
  <2>2. k \in Nat /\ k \in 1..Len(w) /\ w[k] = " " /\ Len(w) = k /\ k \in 1..(Len(w) + 1)
        /\ k + 1 \in Nat /\ k + 1 > Len(w) /\ k + 2 \in Nat /\ k + 2 > Len(w) /\ (k + 1) + 1 = k + 2
    <3>1. k \in Nat /\ k \in 1..z /\ z = k /\ k \in 1..(z + 1)
          /\ k + 1 \in Nat /\ k + 1 > z /\ k + 2 \in Nat /\ k + 2 > z /\ (k + 1) + 1 = k + 2
      BY <1>2, <1>4, <2>1
    <3> QED
      BY <1>3, <1>4, <2>1, <3>1
  <2>3. OpenAt(w, k) = k + 1
    <3>1. w[k] \notin {"<"}
      BY <2>2
    <3>2. Find(w, k, {"<"}) = Find(w, k + 1, {"<"})
      BY <2>2, <3>1, FindNext
    <3>3. Find(w, k + 1, {"<"}) = Len(w) + 1
      BY <2>2, FindNone
    <3> QED
      BY <2>2, <3>2, <3>3 DEF OpenAt
  <2>4. CloseAt(w, k) = k + 1
    <3>1. Find(w, k + 2, {">"}) = Len(w) + 1
      BY <2>2, FindNone
    <3> QED
      BY <2>2, <2>3, <3>1 DEF CloseAt
  <2> QED
    BY <1>9, <2>1, <2>2, <2>4 DEF TagsOf, IsTags
<1>12. Tags(w) = <<tag>>
  <2>1. IsSeq(<<tag>>)
    BY OneSeq
  <2>2. <<tag>> \o <<>> = <<tag>>
    BY <2>1, NoneJoined
  <2> QED
    BY <1>9, <1>10, <1>11, <2>2 DEF TagsOf
<1>13. Paired(w)
  <2>1. ASSUME NEW i \in 1..(n + 3), w[i] = "<"
        PROVE  \E j \in (i + 1)..(n + 3) : w[j] = ">" /\ \A m \in (i + 1)..j : w[m] # "<"
    <3>1. i \notin 2..(n + 1) /\ i # n + 2 /\ i # n + 3
      BY <1>3, <1>5, <2>1
    <3>2. i = 1
      BY <1>2, <3>1
    <3>3. n + 2 \in (i + 1)..(n + 3)
      BY <1>2, <3>2
    <3>4. \A m \in (i + 1)..(n + 2) : w[m] # "<"
      <4> TAKE m \in (i + 1)..(n + 2)
      <4>1. m \in 2..(n + 1) \/ m = n + 2
        BY <1>2, <3>2
      <4> QED
        BY <1>3, <1>5, <4>1
    <3> QED
      BY <1>3, <3>3, <3>4
  <2>2. Len(w) = n + 3
    BY <1>3
  <2> QED
    BY ONLY <2>1, <2>2 DEF Paired
<1> QED
  BY <1>12, <1>13

(* It makes the calls of the tag. *)
LEMMA TagCalls ==
    ASSUME NEW w, NEW tag, Unmarked(tag), IsTag(w, tag)
    PROVE  CallsOf(w) = Calls(tag)
<1>1. PICK t, c : t = Tags(w) /\ c = CallsIn(t)
  OBVIOUS
<1>2. IsSeq(w)
  BY DEF IsTag
<1>3. t = <<tag>>
  BY <1>1, TagIs
<1>4. Len(t) = 1 /\ t[1] = tag
  BY <1>3, OneSeq
<1>5. CallsOf(w) = FlattenSeq(c) /\ IsSeq(c) /\ Len(c) = 1 /\ IsSeq(c[1]) /\ c[1] = Calls(tag)
  <2>1. 1 \in 1..1
    OBVIOUS
  <2> QED
    BY <1>1, <1>2, <1>4, <2>1, CallsInAre
<1>6. c = <<c[1]>>
  <2>1. PICK x, d : x = c[1] /\ d = <<x>>
    OBVIOUS
  <2>2. IsSeq(d) /\ Len(d) = 1 /\ d[1] = x
    BY <2>1, OneSeq
  <2>3. \A i \in 1..1 : i = 1
    OBVIOUS
  <2>4. c = d
    BY <1>5, <2>1, <2>2, <2>3, SeqSame
  <2> QED
    BY <2>1, <2>4
<1>7. FlattenSeq(<<c[1]>>) = c[1]
  BY <1>5, FlattenOne
<1> QED
  BY <1>5, <1>6, <1>7

-----------------------------------------------------------------------------
(* The text of a start *)

(* The tokens of an attribute behind a place.                              *)
Spelt(w, b, a) ==
    /\ w[b + 1] = " " /\ w[b + 2] = a[1] /\ w[b + 3] = "="
    /\ w[b + 4] = "\"" /\ w[b + 5] = a[2] /\ w[b + 6] = "\""

AttrText(a) == <<" ", a[1], "=", "\"", a[2], "\"">>

(* An attribute is spelt out by six tokens,                                *)
LEMMA AttrTextIs ==
    ASSUME NEW a
    PROVE  IsSeq(AttrText(a)) /\ Len(AttrText(a)) = 6 /\ Spelt(AttrText(a), 0, a)
<1>1. PICK t : t = AttrText(a)
  OBVIOUS
<1>2. t[1] = " " /\ t[2] = a[1] /\ t[3] = "=" /\ t[4] = "\"" /\ t[5] = a[2] /\ t[6] = "\""
  BY <1>1 DEF AttrText
<1>3. IsSeq(t) /\ Len(t) = 6
  <2>1. PICK x, y : x = a[1] /\ y = a[2]
    OBVIOUS
  <2>2. PICK S : S = {" ", "=", "\"", x, y}
    OBVIOUS
  <2>3. t = <<" ", x, "=", "\"", y, "\"">> /\ " " \in S /\ "=" \in S /\ "\"" \in S /\ x \in S /\ y \in S
    BY <1>1, <2>1, <2>2 DEF AttrText
  <2>4. t \in Seq(S) /\ Len(t) = 6
    <3>1. PICK e, f, q : e = " " /\ f = "=" /\ q = "\""
      OBVIOUS
    <3>2. e \in S /\ f \in S /\ q \in S /\ x \in S /\ y \in S /\ t = <<e, x, f, q, y, q>>
      BY <2>3, <3>1
    <3>3. Len(<<e, x, f, q, y, q>>) = 6
      OBVIOUS
    <3>4. <<e, x, f, q, y, q>> \in Seq(S)
      BY <3>2
    <3> QED
      BY <3>2, <3>3, <3>4
  <2> QED
    BY <2>4, SeqOfAny
<1>4. 0 + 1 = 1 /\ 0 + 2 = 2 /\ 0 + 3 = 3 /\ 0 + 4 = 4 /\ 0 + 5 = 5 /\ 0 + 6 = 6
  OBVIOUS
<1> QED
  BY <1>1, <1>2, <1>3, <1>4 DEF Spelt

(* and all of them one after another.                                      *)
LEMMA XmlAttrsAre ==
    ASSUME NEW attrs, IsSeq(attrs)
    PROVE  /\ IsSeq(XmlAttrs(attrs)) /\ Len(XmlAttrs(attrs)) = 6 * Len(attrs)
           /\ \A k \in 1..Len(attrs) : Spelt(XmlAttrs(attrs), 6 * (k - 1), attrs[k])
<1>1. PICK n, q : n = Len(attrs) /\ q = [i \in DOMAIN attrs |-> AttrText(attrs[i])]
  OBVIOUS
<1>2. n \in Nat /\ DOMAIN attrs = 1..n
  BY <1>1, SeqDomain
<1>3. q = [i \in 1..n |-> q[i]] /\ \A i \in 1..n : q[i] = AttrText(attrs[i])
  BY <1>1, <1>2
<1>4. IsSeq(q) /\ Len(q) = n
  BY <1>2, <1>3, SeqMade
<1>5. \A i \in 1..n : IsSeq(q[i]) /\ Len(q[i]) = 6 /\ Spelt(q[i], 0, attrs[i])
  BY <1>3, AttrTextIs
<1>6. XmlAttrs(attrs) = FlattenSeq(q)
  BY <1>1 DEF XmlAttrs, AttrText
<1>7. PICK f : Joins(f, q, n) /\ \A k \in 0..n : IsSeq(f[k])
  BY <1>2, <1>5, JoinsExist
<1>8. FlattenSeq(q) = f[n]
  BY <1>4, <1>5, <1>7, FlattenAll
<1>9. Joined(f, q, n)
  BY <1>2, <1>5, <1>7, JoinsHold
<1>10. \A k \in 0..n : Len(f[k]) = 6 * k
  <2>1. PICK T : T = {k \in 0..n : Len(f[k]) = 6 * k}
    OBVIOUS
  <2>2. 0 \in T
    <3>1. f[0] = <<>> /\ 6 * 0 = 0 /\ 0 \in 0..n
      BY <1>2, <1>7 DEF Joins
    <3> QED
      BY <2>1, <3>1, EmptyIsSeq
  <2>3. ASSUME NEW k \in 1..n, k - 1 \in T
        PROVE  k \in T
    <3>1. Len(f[k]) = Len(f[k - 1]) + Len(q[k])
      BY <1>9 DEF Joined
    <3>2. Len(f[k - 1]) = 6 * (k - 1) /\ Len(q[k]) = 6
      BY <1>5, <2>1, <2>3
    <3>3. 6 * (k - 1) + 6 = 6 * k /\ k \in 0..n
      BY <1>2
    <3> QED
      BY <2>1, <3>1, <3>2, <3>3
  <2>4. 0..n \subseteq T
    BY <1>2, <2>2, <2>3, Upwards
  <2> QED
    BY <2>1, <2>4
<1>11. ASSUME NEW k \in 1..n
       PROVE  Spelt(f[n], 6 * (k - 1), attrs[k])
  <2>1. PICK b : b = 6 * (k - 1)
    OBVIOUS
  <2>2. Len(f[k - 1]) = b
    <3>1. k - 1 \in 0..n
      BY <1>2
    <3> QED
      BY <1>10, <2>1, <3>1
  <2>3. \A x \in 1..6 : f[n][b + x] = q[k][x]
    <3>1. \A x \in 1..Len(q[k]) : f[n][Len(f[k - 1]) + x] = q[k][x]
      BY <1>9 DEF Joined
    <3> QED
      BY <1>5, <2>2, <3>1
  <2>4. 1 \in 1..6 /\ 2 \in 1..6 /\ 3 \in 1..6 /\ 4 \in 1..6 /\ 5 \in 1..6 /\ 6 \in 1..6
    OBVIOUS
  <2>5. /\ f[n][b + 1] = q[k][1] /\ f[n][b + 2] = q[k][2] /\ f[n][b + 3] = q[k][3]
        /\ f[n][b + 4] = q[k][4] /\ f[n][b + 5] = q[k][5] /\ f[n][b + 6] = q[k][6]
    BY <2>3, <2>4
  <2>6. Spelt(q[k], 0, attrs[k])
    BY <1>5
  <2>7. 0 + 1 = 1 /\ 0 + 2 = 2 /\ 0 + 3 = 3 /\ 0 + 4 = 4 /\ 0 + 5 = 5 /\ 0 + 6 = 6
    OBVIOUS
  <2>8. Spelt(f[n], b, attrs[k])
    BY <2>5, <2>6, <2>7 DEF Spelt
  <2> QED
    BY <2>1, <2>8
<1>12. IsSeq(f[n]) /\ Len(f[n]) = 6 * n
  <2>1. n \in 0..n
    BY <1>2
  <2> QED
    BY <1>7, <1>10, <2>1
<1> QED
  BY <1>1, <1>6, <1>8, <1>11, <1>12

(* A tag of a type, with attributes, and a slash or not.                   *)
StartTag(tag, type, attrs, slash) ==
    /\ IsSeq(tag)
    /\ Len(tag) = 6 * Len(attrs) + (IF slash THEN 2 ELSE 1)
    /\ tag[1] = type
    /\ \A k \in 1..Len(attrs) : Spelt(tag, 6 * (k - 1) + 1, attrs[k])
    /\ slash => tag[6 * Len(attrs) + 2] = "/"

(* Two things are a list.                                                  *)
LEMMA TwoSeq ==
    ASSUME NEW x, NEW y
    PROVE  IsSeq(<<x, y>>) /\ Len(<<x, y>>) = 2 /\ <<x, y>>[1] = x /\ <<x, y>>[2] = y
<1>1. <<x, y>> \in Seq({x, y}) /\ Len(<<x, y>>) = 2
  OBVIOUS
<1>2. <<x, y>>[1] = x /\ <<x, y>>[2] = y
  OBVIOUS
<1> QED
  BY <1>1, <1>2, SeqOfAny

XmlStart(type, attrs, slash) ==
    <<"<", type>> \o XmlAttrs(attrs) \o (IF slash THEN <<"/">> ELSE <<>>) \o <<">", " ">>

TagOf(type, attrs, slash) ==
    <<type>> \o XmlAttrs(attrs) \o (IF slash THEN <<"/">> ELSE <<>>)

(* What is spelt out in the second part is so in the whole,                *)
LEMMA SpeltBehind ==
    ASSUME NEW s, NEW t, NEW w, JoinOf(w, s, t), Len(s) \in Nat, Len(t) \in Nat,
           NEW b \in Nat, b + 6 <= Len(t), NEW a, Spelt(t, b, a)
    PROVE  Spelt(w, b + Len(s), a)
<1>1. PICK l, n, c : l = Len(s) /\ n = Len(t) /\ c = b + l
  OBVIOUS
<1>2. l \in Nat /\ n \in Nat /\ b + 6 <= n /\ \A i \in 1..n : w[l + i] = t[i]
  BY <1>1 DEF JoinOf
<1>3. /\ b + 1 \in 1..n /\ b + 2 \in 1..n /\ b + 3 \in 1..n
      /\ b + 4 \in 1..n /\ b + 5 \in 1..n /\ b + 6 \in 1..n
      /\ l + (b + 1) = c + 1 /\ l + (b + 2) = c + 2 /\ l + (b + 3) = c + 3
      /\ l + (b + 4) = c + 4 /\ l + (b + 5) = c + 5 /\ l + (b + 6) = c + 6
  BY <1>1, <1>2
<1>4. /\ w[l + (b + 1)] = t[b + 1] /\ w[l + (b + 2)] = t[b + 2] /\ w[l + (b + 3)] = t[b + 3]
      /\ w[l + (b + 4)] = t[b + 4] /\ w[l + (b + 5)] = t[b + 5] /\ w[l + (b + 6)] = t[b + 6]
  BY <1>2, <1>3
<1>5. /\ w[c + 1] = t[b + 1] /\ w[c + 2] = t[b + 2] /\ w[c + 3] = t[b + 3]
      /\ w[c + 4] = t[b + 4] /\ w[c + 5] = t[b + 5] /\ w[c + 6] = t[b + 6]
  BY <1>3, <1>4
<1>6. Spelt(w, c, a)
  BY ONLY <1>5, Spelt(t, b, a) DEF Spelt
<1> QED
  BY <1>1, <1>6

(* and what is in the first is too.                                        *)
LEMMA SpeltBefore ==
    ASSUME NEW s, NEW t, NEW w, JoinOf(w, s, t), Len(s) \in Nat,
           NEW b \in Nat, b + 6 <= Len(s), NEW a, Spelt(s, b, a)
    PROVE  Spelt(w, b, a)
<1>1. PICK l : l = Len(s)
  OBVIOUS
<1>2. l \in Nat /\ b + 6 <= l /\ \A i \in 1..l : w[i] = s[i]
  BY <1>1 DEF JoinOf
<1>3. /\ b + 1 \in 1..l /\ b + 2 \in 1..l /\ b + 3 \in 1..l
      /\ b + 4 \in 1..l /\ b + 5 \in 1..l /\ b + 6 \in 1..l
  BY <1>2
<1>4. /\ w[b + 1] = s[b + 1] /\ w[b + 2] = s[b + 2] /\ w[b + 3] = s[b + 3]
      /\ w[b + 4] = s[b + 4] /\ w[b + 5] = s[b + 5] /\ w[b + 6] = s[b + 6]
  BY <1>2, <1>3
<1> QED
  BY ONLY <1>4, Spelt(s, b, a) DEF Spelt

(* The text of a start is that of a tag of it.                             *)
LEMMA StartTagIs ==
    ASSUME NEW type, NEW attrs, IsSeq(attrs), NEW slash \in BOOLEAN
    PROVE  /\ StartTag(TagOf(type, attrs, slash), type, attrs, slash)
           /\ IsTag(XmlStart(type, attrs, slash), TagOf(type, attrs, slash))
<1>1. PICK m, x, a, b, s, e, t, v, u, w, p, n :
         /\ m = Len(attrs) /\ x = XmlAttrs(attrs) /\ a = <<type>> /\ b = <<"<", type>>
         /\ s = (IF slash THEN <<"/">> ELSE <<>>) /\ e = <<">", " ">>
         /\ t = a \o x /\ v = t \o s /\ u = b \o x /\ w = u \o s /\ p = w \o e
         /\ n = IF slash THEN 1 ELSE 0
  OBVIOUS
<1>2. v = TagOf(type, attrs, slash) /\ p = XmlStart(type, attrs, slash)
  BY ONLY <1>1 DEF TagOf, XmlStart
<1>3. m \in Nat /\ n \in {0, 1} /\ n \in Nat
  BY <1>1, SeqDomain
<1>4. /\ IsSeq(x) /\ Len(x) = 6 * m
      /\ \A k \in 1..m : Spelt(x, 6 * (k - 1), attrs[k])
  BY <1>1, XmlAttrsAre
<1>5. IsSeq(a) /\ Len(a) = 1 /\ a[1] = type
  BY <1>1, OneSeq
<1>6. IsSeq(b) /\ Len(b) = 2 /\ b[1] = "<" /\ b[2] = type
  BY <1>1, TwoSeq
<1>7. IsSeq(s) /\ Len(s) = n /\ (n = 1 => s[1] = "/") /\ (slash <=> n = 1)
  BY <1>1, OneSeq, EmptyIsSeq
<1>8. IsSeq(e) /\ Len(e) = 2 /\ e[1] = ">" /\ e[2] = " "
  BY <1>1, TwoSeq
<1>9. JoinOf(t, a, x) /\ JoinOf(u, b, x)
  BY <1>1, <1>4, <1>5, <1>6, JoinIs
<1>10. PICK h : h = 6 * m
  OBVIOUS
<1>11. h \in Nat /\ Len(x) = h
  BY <1>3, <1>4, <1>10
<1>12. IsSeq(t) /\ Len(t) = 1 + h /\ IsSeq(u) /\ Len(u) = 2 + h
  BY <1>5, <1>6, <1>9, <1>11 DEF JoinOf
<1>13. JoinOf(v, t, s) /\ JoinOf(w, u, s)
  BY <1>1, <1>7, <1>12, JoinIs
<1>14. IsSeq(v) /\ Len(v) = 1 + h + n /\ IsSeq(w) /\ Len(w) = 2 + h + n
  BY <1>7, <1>12, <1>13 DEF JoinOf
<1>15. JoinOf(p, w, e)
  BY <1>1, <1>8, <1>14, JoinIs
<1>16. IsSeq(p) /\ Len(p) = 2 + h + n + 2
  BY <1>8, <1>14, <1>15 DEF JoinOf
<1>17. v[1] = type
  <2>1. 1 \in 1..Len(a) /\ 1 \in 1..Len(t)
    BY <1>5, <1>11, <1>12
  <2> QED
    BY <1>5, <1>9, <1>13, <2>1 DEF JoinOf
<1>18. ASSUME NEW k \in 1..m PROVE Spelt(v, 6 * (k - 1) + 1, attrs[k])
  <2>1. PICK c : c = 6 * (k - 1)
    OBVIOUS
  <2>2. c \in Nat /\ c + 6 <= h /\ c + 1 \in Nat /\ (c + 1) + 6 <= 1 + h /\ 1 + h \in Nat
    BY <1>3, <1>10, <2>1
  <2>3. Spelt(x, c, attrs[k])
    BY <1>4, <2>1
  <2>4. Spelt(t, c + Len(a), attrs[k])
    <3>1. Len(a) \in Nat /\ Len(x) \in Nat /\ c + 6 <= Len(x)
      BY <1>5, <1>11, <2>2
    <3> QED
      BY <1>9, <2>2, <2>3, <3>1, SpeltBehind
  <2>5. Spelt(t, c + 1, attrs[k])
    BY <1>5, <2>4
  <2>6. Spelt(v, c + 1, attrs[k])
    <3>1. Len(t) \in Nat /\ (c + 1) + 6 <= Len(t)
      BY <1>12, <2>2
    <3> QED
      BY <1>13, <2>2, <2>5, <3>1, SpeltBefore
  <2> QED
    BY <2>1, <2>6
<1>19. slash => v[h + 2] = "/"
  <2>1. ASSUME slash PROVE v[h + 2] = "/"
    <3>1. 1 \in 1..Len(s) /\ s[1] = "/"
      BY <1>7, <2>1
    <3>2. Len(t) + 1 = h + 2
      BY <1>11, <1>12
    <3>3. v[Len(t) + 1] = s[1]
      BY <1>13, <3>1 DEF JoinOf
    <3> QED
      BY <3>1, <3>2, <3>3
  <2> QED
    BY <2>1
<1>20. StartTag(v, type, attrs, slash)
  <2>1. Len(v) = h + (IF slash THEN 2 ELSE 1)
    BY <1>3, <1>7, <1>11, <1>14
  <2> QED
    BY <1>1, <1>10, <1>14, <1>17, <1>18, <1>19, <2>1 DEF StartTag
<1>21. IsTag(p, v)
  <2>1. PICK l : l = Len(v)
    OBVIOUS
  <2>2. l = 1 + h + n /\ l \in Nat /\ Len(w) = l + 1 /\ Len(p) = l + 3
    BY <1>3, <1>11, <1>14, <1>16, <2>1
  <2>3. p[1] = "<"
    <3>1. 1 \in 1..Len(b) /\ 1 \in 1..Len(u) /\ 1 \in 1..Len(w)
      BY <1>6, <1>11, <1>12, <2>2
    <3> QED
      BY <1>6, <1>9, <1>13, <1>15, <3>1 DEF JoinOf
  <2>4. p[l + 2] = ">" /\ p[l + 3] = " "
    <3>1. 1 \in 1..Len(e) /\ 2 \in 1..Len(e) /\ Len(w) + 1 = l + 2 /\ Len(w) + 2 = l + 3
      <4>1. 1 \in 1..2 /\ 2 \in 1..2 /\ (l + 1) + 1 = l + 2 /\ (l + 1) + 2 = l + 3
        BY <2>2
      <4> QED
        BY <1>8, <2>2, <4>1
    <3>2. p[Len(w) + 1] = e[1] /\ p[Len(w) + 2] = e[2]
      BY <1>15, <3>1 DEF JoinOf
    <3> QED
      BY <1>8, <3>1, <3>2
  <2>5. ASSUME NEW i \in 1..l PROVE p[i + 1] = v[i]
    <3>1. i + 1 \in 1..Len(w)
      BY <2>2
    <3>2. p[i + 1] = w[i + 1]
      BY <1>15, <3>1 DEF JoinOf
    <3>3. CASE i \in 1..(1 + h)
      <4>1. i \in 1..Len(t) /\ i + 1 \in 1..Len(u)
        BY <1>11, <1>12, <3>3
      <4>2. v[i] = t[i] /\ w[i + 1] = u[i + 1]
        BY <1>13, <4>1 DEF JoinOf
      <4>3. CASE i = 1
        <5>1. 1 \in 1..Len(a) /\ 2 \in 1..Len(b) /\ 1 + 1 = 2
          BY <1>5, <1>6
        <5>2. t[1] = a[1] /\ u[2] = b[2]
          BY <1>9, <5>1 DEF JoinOf
        <5> QED
          BY <1>5, <1>6, <3>2, <4>2, <4>3, <5>1, <5>2
      <4>4. CASE i # 1
        <5>1. PICK j : j = i - 1
          OBVIOUS
        <5>2. j \in 1..Len(x) /\ i = Len(a) + j /\ i + 1 = Len(b) + j
          BY <1>5, <1>6, <1>11, <3>3, <4>4, <5>1
        <5>3. t[Len(a) + j] = x[j] /\ u[Len(b) + j] = x[j]
          BY <1>9, <5>2 DEF JoinOf
        <5> QED
          BY <3>2, <4>2, <5>2, <5>3
      <4> QED
        BY <4>3, <4>4
    <3>4. CASE i \in (h + 2)..(1 + h + n)
      <4>1. PICK j : j = i - (1 + h)
        OBVIOUS
      <4>2. j \in 1..Len(s) /\ i = Len(t) + j /\ i + 1 = Len(u) + j
        BY <1>3, <1>7, <1>11, <1>12, <3>4, <4>1
      <4>3. v[Len(t) + j] = s[j] /\ w[Len(u) + j] = s[j]
        BY <1>13, <4>2 DEF JoinOf
      <4> QED
        BY <3>2, <4>2, <4>3
    <3> QED
      BY <1>3, <1>11, <2>2, <3>3, <3>4
  <2> QED
    BY <1>16, <2>1, <2>2, <2>3, <2>4, <2>5 DEF IsTag
<1> QED
  BY <1>2, <1>20, <1>21

-----------------------------------------------------------------------------
(* The attributes of a start *)

(* There are no more attributes than names of them.                        *)
LEMMA FewAttrs ==
    ASSUME NEW attrs, IsAttrs(attrs)
    PROVE  Len(attrs) \in Nat /\ Len(attrs) + 1 <= MaxAttribs \div 2
<1>1. PICK m, c, h : m = Len(attrs) /\ c = Cardinality(Attrs) /\ h = MaxAttribs \div 2
  OBVIOUS
<1>2. m \in Nat /\ \A i \in 1..m : attrs[i][1] \in Attrs
  BY <1>1 DEF IsAttrs
<1>3. IsFiniteSet(Attrs) /\ c < h /\ h \in Nat
  <2>1. MaxAttribs \in Nat /\ IsFiniteSet(Attrs) /\ c < h
    BY <1>1, NamesAssumption
  <2>2. h \in Nat
    BY <1>1, <2>1
  <2> QED
    BY <2>1, <2>2
<1>4. c \in Nat
  BY <1>1, <1>3, FS_CardinalityType
<1>5. m <= c
  <2>1. SUFFICES ASSUME c < m PROVE FALSE
    BY <1>2, <1>4
  <2>2. IsFiniteSet(1..m) /\ Cardinality(1..m) = m
    <3>1. 1 \in Int /\ m \in Int /\ (1 > m \/ 1 <= m) /\ (1 > m => m = 0) /\ m - 1 + 1 = m
      BY <1>2
    <3> QED
      BY <3>1, FS_Interval
  <2>3. PICK f : f = [i \in 1..m |-> attrs[i][1]]
    OBVIOUS
  <2>4. f \in [1..m -> Attrs]
    BY <1>2, <2>3
  <2>5. \E x, y \in 1..m : x # y /\ f[x] = f[y]
    BY <1>1, <1>3, <2>1, <2>2, <2>4, FS_PigeonHole
  <2>6. PICK x \in 1..m, y \in 1..m : x # y /\ f[x] = f[y]
    BY <2>5
  <2>7. attrs[x][1] = attrs[y][1]
    BY <2>3, <2>6
  <2> QED
    BY <1>1, <2>6, <2>7 DEF IsAttrs
<1> QED
  BY <1>1, <1>2, <1>3, <1>4, <1>5

(* One item is a part.                                                     *)
LEMMA OneOf ==
    ASSUME NEW s, NEW b \in Nat
    PROVE  SubSeq(s, b, b) = <<s[b]>>
<1>1. PICK x, y : x = SubSeq(s, b, b) /\ y = <<s[b]>>
  OBVIOUS
<1>2. b \in Int /\ b <= b /\ b - b + 1 = 1 /\ b + 1 - 1 = b /\ 1 \in 1..1
  OBVIOUS
<1>3. IsSeq(x) /\ Len(x) = 1 /\ x[1] = s[b]
  BY <1>1, <1>2, SeqPart
<1>4. IsSeq(y) /\ Len(y) = 1 /\ y[1] = s[b]
  BY <1>1, OneSeq
<1>5. \A i \in 1..1 : i = 1
  OBVIOUS
<1>6. x = y
  BY <1>3, <1>4, <1>5, SeqSame
<1> QED
  BY <1>1, <1>6

Pair(a) == <<<<a[1]>>, <<a[2]>>>>

(* Where one is spelt out, it is the next. *)
LEMMA AttribHere ==
    ASSUME NEW tag, IsSeq(tag), NEW b \in Nat, b + 6 <= Len(tag), NEW a, Spelt(tag, b, a),
           a[1] \notin Marks, a[2] \notin Marks, NEW g
    PROVE  /\ NameAt(tag, b + 1) = b + 2 /\ NameAt(tag, b + 2) = b + 2
           /\ AttribsFrom(g, tag, b + 1) = <<Pair(a)>> \o g[b + 7]
<1>1. PICK n, c1, c2, c3, c4, c5, c6, c7 :
         /\ n = Len(tag) /\ c1 = b + 1 /\ c2 = b + 2 /\ c3 = b + 3 /\ c4 = b + 4 /\ c5 = b + 5
         /\ c6 = b + 6 /\ c7 = b + 7
  OBVIOUS
<1>2. n \in Nat /\ c6 <= n
  BY <1>1, SeqDomain
<1>3. /\ c1 \in 1..n /\ c2 \in 1..n /\ c3 \in 1..n /\ c4 \in 1..n /\ c5 \in 1..n /\ c6 \in 1..n
      /\ c1 \in Nat /\ c2 \in Nat /\ c3 \in Nat /\ c4 \in Nat /\ c5 \in Nat /\ c6 \in Nat
      /\ c1 + 1 = c2 /\ c2 + 1 = c3 /\ c3 + 1 = c4 /\ c4 + 1 = c5 /\ c5 + 1 = c6 /\ c6 + 1 = c7
      /\ c3 - 1 = c2 /\ c6 - 1 = c5
  BY <1>1, <1>2
<1>4. /\ tag[c1] = " " /\ tag[c2] = a[1] /\ tag[c3] = "=" /\ tag[c4] = "\"" /\ tag[c5] = a[2]
      /\ tag[c6] = "\""
  BY <1>1 DEF Spelt
<1>5. a[1] # " " /\ a[1] # "=" /\ a[1] # "/" /\ a[2] # "\""
  BY DEF Marks
<1>6. Skip(tag, c2, {" "}) = c2
  <2>1. c2 \in 1..Len(tag) /\ tag[c2] \notin {" "} /\ Len(tag) \in Nat
    BY <1>1, <1>2, <1>3, <1>4, <1>5
  <2> QED
    BY <2>1, SkipHere
<1>7. Skip(tag, c1, {" "}) = c2
  <2>1. c1 \in 1..Len(tag) /\ tag[c1] \in {" "} /\ Len(tag) \in Nat
    BY <1>1, <1>2, <1>3, <1>4
  <2>2. Skip(tag, c1, {" "}) = Skip(tag, c1 + 1, {" "})
    BY <2>1, SkipNext
  <2> QED
    BY <1>3, <1>6, <2>2
<1>8. NameAt(tag, c1) = c2 /\ NameAt(tag, c2) = c2
  BY <1>6, <1>7 DEF NameAt
<1>9. StopAt(tag, c1) = c3
  <2>1. c2 \in 1..Len(tag) /\ tag[c2] \notin {" ", "="} /\ Len(tag) \in Nat
        /\ c3 \in 1..Len(tag) /\ tag[c3] \in {" ", "="}
    BY <1>1, <1>2, <1>3, <1>4, <1>5
  <2>2. Find(tag, c2, {" ", "="}) = Find(tag, c2 + 1, {" ", "="})
    BY <2>1, FindNext
  <2>3. Find(tag, c3, {" ", "="}) = c3
    BY <2>1, FindHere
  <2> QED
    BY <1>3, <1>8, <2>2, <2>3 DEF StopAt
<1>10. QuoteAt(tag, c1) = c4
  <2>1. c4 \in 1..Len(tag) /\ tag[c4] \in {"\""} /\ Len(tag) \in Nat
    BY <1>1, <1>2, <1>3, <1>4
  <2>2. Find(tag, c4, {"\""}) = c4
    BY <2>1, FindHere
  <2> QED
    BY <1>3, <1>9, <2>2 DEF QuoteAt
<1>11. UnquoteAt(tag, c1) = c6
  <2>1. c5 \in 1..Len(tag) /\ tag[c5] \notin {"\""} /\ Len(tag) \in Nat
        /\ c6 \in 1..Len(tag) /\ tag[c6] \in {"\""}
    BY <1>1, <1>2, <1>3, <1>4, <1>5
  <2>2. Find(tag, c5, {"\""}) = Find(tag, c5 + 1, {"\""})
    BY <2>1, FindNext
  <2>3. Find(tag, c6, {"\""}) = c6
    BY <2>1, FindHere
  <2> QED
    BY <1>3, <1>10, <2>2, <2>3 DEF UnquoteAt
<1>12. NameOf(tag, c1) = <<a[1]>>
  <2>1. SubSeq(tag, c2, c2) = <<tag[c2]>>
    BY <1>3, OneOf
  <2>2. NameOf(tag, c1) = SubSeq(tag, c2, c3 - 1)
    BY ONLY <1>8, <1>9 DEF NameOf
  <2>3. NameOf(tag, c1) = SubSeq(tag, c2, c2)
    BY ONLY <1>3, <2>2
  <2> QED
    BY ONLY <1>4, <2>1, <2>3
<1>13. ValueOf(tag, c1) = <<a[2]>>
  <2>1. SubSeq(tag, c5, c5) = <<tag[c5]>>
    BY <1>3, OneOf
  <2>2. ValueOf(tag, c1) = SubSeq(tag, c4 + 1, c6 - 1)
    BY ONLY <1>10, <1>11 DEF ValueOf
  <2>3. ValueOf(tag, c1) = SubSeq(tag, c5, c5)
    BY ONLY <1>3, <2>2
  <2> QED
    BY ONLY <1>4, <2>1, <2>3
<1>14. ~ (c2 > Len(tag)) /\ ~ (c4 > Len(tag)) /\ At(tag, c2) # "/"
  <2>1. ~ (c2 > n) /\ ~ (c4 > n) /\ c2 <= n
    BY <1>2, <1>3
  <2> QED
    BY <1>1, <1>4, <1>5, <2>1 DEF At
<1>15. AttribsFrom(g, tag, c1) = <<<<NameOf(tag, c1), ValueOf(tag, c1)>>>> \o g[c6 + 1]
  BY ONLY <1>8, <1>10, <1>11, <1>14 DEF AttribsFrom
<1>16. AttribsFrom(g, tag, c1) = <<Pair(a)>> \o g[c7]
  BY ONLY <1>3, <1>12, <1>13, <1>15 DEF Pair
<1> QED
  BY ONLY <1>1, <1>8, <1>16

(* From two places before the same name, there are the same.               *)
LEMMA AttribsSame ==
    ASSUME NEW g, NEW tag, NEW i, NEW j, NameAt(tag, i) = NameAt(tag, j)
    PROVE  AttribsFrom(g, tag, i) = AttribsFrom(g, tag, j)
<1>1. StopAt(tag, i) = StopAt(tag, j)
  BY DEF StopAt
<1>2. QuoteAt(tag, i) = QuoteAt(tag, j)
  BY <1>1 DEF QuoteAt
<1>3. UnquoteAt(tag, i) = UnquoteAt(tag, j)
  BY <1>2 DEF UnquoteAt
<1>4. NameOf(tag, i) = NameOf(tag, j) /\ ValueOf(tag, i) = ValueOf(tag, j)
  BY <1>1, <1>2, <1>3 DEF NameOf, ValueOf
<1> QED
  BY <1>1, <1>2, <1>3, <1>4 DEF AttribsFrom

(* Names and values are not marks.                                         *)
LEMMA AttrNotMarks ==
    ASSUME NEW attrs, IsAttrs(attrs), NEW k \in 1..Len(attrs)
    PROVE  /\ attrs[k] \in Attrs \X Values /\ attrs[k] = <<attrs[k][1], attrs[k][2]>>
           /\ attrs[k][1] \in Attrs /\ attrs[k][2] \in Values
           /\ attrs[k][1] \notin Marks /\ attrs[k][2] \notin Marks
<1>1. attrs[k] \in Attrs \X Values
  BY DEF IsAttrs
<1>2. PICK a, v : a \in Attrs /\ v \in Values /\ attrs[k] = <<a, v>>
  BY <1>1
<1>3. a \notin Marks /\ v \notin Marks
  BY <1>2, NamesAssumption
<1> QED
  BY <1>1, <1>2, <1>3

(* The list of the attributes from the kth on, and the slash.              *)
ListIs(x, attrs, slash, k) ==
    /\ IsSeq(x)
    /\ Len(x) = Len(attrs) + 1 - k + (IF slash THEN 1 ELSE 0)
    /\ \A j \in k..Len(attrs) : x[j + 1 - k] = Pair(attrs[j])
    /\ slash => x[Len(attrs) + 2 - k] = <<>>

(* The list from an attribute on is that from the next one on, and it.     *)
LEMMA ListMore ==
    ASSUME NEW attrs, Len(attrs) \in Nat, NEW slash \in BOOLEAN, NEW k \in 1..Len(attrs),
           NEW y, ListIs(y, attrs, slash, k + 1)
    PROVE  ListIs(<<Pair(attrs[k])>> \o y, attrs, slash, k)
<1>1. PICK m, p, o, x, n : /\ m = Len(attrs) /\ p = Pair(attrs[k]) /\ o = <<p>> /\ x = o \o y
                           /\ n = IF slash THEN 1 ELSE 0
  OBVIOUS
<1>2. m \in Nat /\ n \in {0, 1} /\ (slash <=> n = 1) /\ k \in 1..m
  BY <1>1
<1>3. /\ IsSeq(y) /\ Len(y) = m + 1 - (k + 1) + n
      /\ \A j \in (k + 1)..m : y[j + 1 - (k + 1)] = Pair(attrs[j])
      /\ slash => y[m + 2 - (k + 1)] = <<>>
  BY <1>1 DEF ListIs
<1>4. IsSeq(o) /\ Len(o) = 1 /\ o[1] = p
  BY <1>1, OneSeq
<1>5. JoinOf(x, o, y)
  BY <1>1, <1>3, <1>4, JoinIs
<1>6. PICK l : l = Len(y)
  OBVIOUS
<1>7. l \in Nat /\ l = m - k + n
  BY <1>2, <1>3, <1>6
<1>8. IsSeq(x) /\ Len(x) = 1 + l
  BY <1>4, <1>5, <1>6 DEF JoinOf
<1>9. x[1] = p /\ \A i \in 1..l : x[1 + i] = y[i]
  <2>1. 1 \in 1..1
    OBVIOUS
  <2> QED
    BY <1>4, <1>5, <1>6, <2>1 DEF JoinOf
<1>10. ASSUME NEW j \in k..m PROVE x[j + 1 - k] = Pair(attrs[j])
  <2>1. CASE j = k
    <3>1. j + 1 - k = 1
      BY <1>1, <2>1
    <3> QED
      BY <1>1, <1>9, <2>1, <3>1
  <2>2. CASE j \in (k + 1)..m
    <3>1. PICK i : i = j - k
      OBVIOUS
    <3>2. i \in 1..l /\ j + 1 - (k + 1) = i /\ j + 1 - k = 1 + i
      BY <1>1, <1>2, <1>7, <2>2, <3>1
    <3>3. y[j + 1 - (k + 1)] = Pair(attrs[j])
      BY <1>3, <2>2
    <3> QED
      BY <1>9, <3>2, <3>3
  <2> QED
    <3>1. j = k \/ j \in (k + 1)..m
      BY <1>2
    <3> QED
      BY <2>1, <2>2, <3>1
<1>11. ASSUME slash PROVE x[m + 2 - k] = <<>>
  <2>1. PICK i : i = m + 1 - k
    OBVIOUS
  <2>2. i \in 1..l /\ m + 2 - (k + 1) = i /\ m + 2 - k = 1 + i
    BY <1>1, <1>2, <1>7, <1>11, <2>1
  <2> QED
    BY <1>3, <1>9, <1>11, <2>2
<1>12. Len(x) = m + 1 - k + n
  BY <1>2, <1>7, <1>8
<1>13. ListIs(x, attrs, slash, k)
  BY <1>1, <1>8, <1>10, <1>11, <1>12 DEF ListIs
<1> QED
  BY <1>1, <1>13

(* The reader makes this list of the tag of a start, from its type on or   *)
(* from behind the space.                                                  *)
LEMMA AttribsList ==
    ASSUME NEW tag, NEW type, NEW attrs, NEW slash \in BOOLEAN, IsAttrs(attrs),
           StartTag(tag, type, attrs, slash), NEW g, AttribsOf(g, tag)
    PROVE  /\ ListIs(g[2], attrs, slash, 1)
           /\ Len(attrs) > 0 => g[3] = g[2]
<1>1. PICK m, n, e : m = Len(attrs) /\ n = Len(tag) /\ e = IF slash THEN 1 ELSE 0
  OBVIOUS
<1>2. m \in Nat /\ e \in {0, 1} /\ (slash <=> e = 1) /\ m + 1 \in Nat
  BY <1>1 DEF IsAttrs
<1>3. /\ IsSeq(tag) /\ n = 6 * m + 1 + e /\ n \in Nat
      /\ \A k \in 1..m : Spelt(tag, 6 * (k - 1) + 1, attrs[k])
      /\ slash => tag[6 * m + 2] = "/"
  <2>1. /\ IsSeq(tag) /\ n = 6 * m + (IF slash THEN 2 ELSE 1)
        /\ \A k \in 1..m : Spelt(tag, 6 * (k - 1) + 1, attrs[k])
        /\ slash => tag[6 * m + 2] = "/"
    BY <1>1 DEF StartTag
  <2>2. n = 6 * m + 1 + e /\ n \in Nat
    BY <1>1, <1>2, <2>1
  <2> QED
    BY <2>1, <2>2
<1>4. \A i \in 1..(n + 2) : g[i] = AttribsFrom(g, tag, i)
  BY <1>1 DEF AttribsOf, IsAttribs
<1>5. ASSUME NEW k \in 1..m
      PROVE  \E b : /\ b = 6 * (k - 1) + 1 /\ b \in Nat /\ b + 7 = 6 * k + 2 /\ b + 6 <= n
                    /\ g[b + 1] = <<Pair(attrs[k])>> \o g[b + 7]
                    /\ NameAt(tag, b + 1) = NameAt(tag, b + 2)
  <2>1. PICK b : b = 6 * (k - 1) + 1
    OBVIOUS
  <2>2. /\ b \in Nat /\ b + 7 = 6 * k + 2 /\ b + 6 <= n /\ b + 1 \in 1..(n + 2)
    BY <1>2, <1>3, <2>1
  <2>3. PICK a : a = attrs[k]
    OBVIOUS
  <2>4. Spelt(tag, b, a)
    BY <1>3, <2>1, <2>3
  <2>5. a[1] \notin Marks /\ a[2] \notin Marks
    BY <1>1, <2>3, AttrNotMarks
  <2>6. b + 6 <= Len(tag)
    BY <1>1, <2>2
  <2>7. /\ NameAt(tag, b + 1) = b + 2 /\ NameAt(tag, b + 2) = b + 2
        /\ AttribsFrom(g, tag, b + 1) = <<Pair(a)>> \o g[b + 7]
    <3>1. IsSeq(tag) /\ b \in Nat
      BY <1>3, <2>2
    <3> QED
      BY ONLY <3>1, <2>4, <2>5, <2>6, AttribHere
  <2> QED
    BY <1>4, <2>1, <2>2, <2>7, <2>3
<1>6. ListIs(g[6 * m + 2], attrs, slash, m + 1)
  <2>1. PICK i, x : i = 6 * m + 2 /\ x = g[i]
    OBVIOUS
  <2>2. i \in 1..(n + 2) /\ i \in Nat /\ Len(tag) = n
    BY <1>1, <1>2, <1>3, <2>1
  <2>3. x = AttribsFrom(g, tag, i)
    BY <1>4, <2>1, <2>2
  <2>4. CASE slash
    <3>1. i \in 1..n /\ tag[i] = "/" /\ ~ (i > n) /\ i <= n
      BY <1>2, <1>3, <2>1, <2>4
    <3>2. NameAt(tag, i) = i
      <4>1. tag[i] \notin {" "} /\ i \in 1..Len(tag) /\ Len(tag) \in Nat
        BY <1>3, <2>2, <3>1
      <4> QED
        BY <4>1, SkipHere DEF NameAt
    <3>3. ~ (i > Len(tag)) /\ At(tag, i) = "/"
      BY <2>2, <3>1 DEF At
    <3>4. x = <<<<>>>>
      BY ONLY <2>3, <3>2, <3>3 DEF AttribsFrom
    <3>5. IsSeq(x) /\ Len(x) = 1 /\ x[1] = <<>>
      BY <3>4, OneSeq
    <3>6. m + 1 - (m + 1) + 1 = 1 /\ m + 2 - (m + 1) = 1 /\ (m + 1)..m = {}
      BY <1>2
    <3> QED
      BY <1>1, <2>1, <2>4, <3>5, <3>6 DEF ListIs
  <2>5. CASE ~ slash
    <3>1. i > n
      BY <1>2, <1>3, <2>1, <2>5
    <3>2. NameAt(tag, i) = n + 1
      BY <1>3, <2>2, <3>1, SkipNone DEF NameAt
    <3>3. n + 1 > Len(tag)
      BY <1>3, <2>2
    <3>4. x = <<>>
      <4>1. ~ (n + 1 <= Len(tag))
        BY <1>3, <2>2
      <4>2. At(tag, n + 1) # "/"
        BY ONLY <4>1 DEF At
      <4> QED
        BY ONLY <2>3, <3>2, <3>3, <4>1, <4>2 DEF AttribsFrom
    <3>5. IsSeq(x) /\ Len(x) = 0
      BY <3>4, EmptyIsSeq
    <3>6. m + 1 - (m + 1) + 0 = 0 /\ (m + 1)..m = {}
      BY <1>2
    <3> QED
      BY <1>1, <2>1, <2>5, <3>5, <3>6 DEF ListIs
  <2> QED
    BY <2>4, <2>5
<1>7. PICK T : T = {k \in 1..(m + 1) : ListIs(g[6 * (k - 1) + 2], attrs, slash, k)}
  OBVIOUS
<1>8. ASSUME NEW k \in 1..(m + 1), \A j \in (k + 1)..(m + 1) : j \in T
      PROVE  k \in T
  <2>1. CASE k = m + 1
    <3>1. 6 * (k - 1) + 2 = 6 * m + 2
      BY <1>2, <2>1
    <3> QED
      BY <1>6, <1>7, <2>1, <3>1
  <2>2. CASE k \in 1..m
    <3>1. PICK b : /\ b = 6 * (k - 1) + 1 /\ b \in Nat /\ b + 7 = 6 * k + 2 /\ b + 6 <= n
                   /\ g[b + 1] = <<Pair(attrs[k])>> \o g[b + 7]
      BY <1>5, <2>2
    <3>2. PICK y : y = g[b + 7]
      OBVIOUS
    <3>3. k + 1 \in (k + 1)..(m + 1) /\ 6 * ((k + 1) - 1) + 2 = b + 7 /\ 6 * (k - 1) + 2 = b + 1
      BY <1>2, <2>2, <3>1
    <3>4. ListIs(y, attrs, slash, k + 1)
      BY <1>7, <1>8, <3>2, <3>3
    <3>5. ListIs(<<Pair(attrs[k])>> \o y, attrs, slash, k)
      BY <1>1, <1>2, <2>2, <3>4, ListMore
    <3>6. ListIs(g[6 * (k - 1) + 2], attrs, slash, k)
      BY <3>1, <3>2, <3>3, <3>5
    <3> QED
      BY <1>7, <3>6
  <2> QED
    BY <1>2, <2>1, <2>2
<1>9. 1..(m + 1) \subseteq T
  BY <1>2, <1>8, Downwards
<1>10. ListIs(g[2], attrs, slash, 1)
  <2>1. 1 \in 1..(m + 1) /\ 6 * (1 - 1) + 2 = 2
    BY <1>2
  <2>2. 1 \in T
    BY <1>9, <2>1
  <2> QED
    BY <1>7, <2>1, <2>2
<1>11. ASSUME m > 0 PROVE g[3] = g[2]
  <2>1. 1 \in 1..m
    BY <1>2, <1>11
  <2>2. PICK b : b = 6 * (1 - 1) + 1 /\ NameAt(tag, b + 1) = NameAt(tag, b + 2)
    BY <1>5, <2>1
  <2>3. b + 1 = 2 /\ b + 2 = 3
    BY <2>2
  <2>4. 2 \in 1..(n + 2) /\ 3 \in 1..(n + 2)
    BY <1>2, <1>3, <1>11
  <2>5. AttribsFrom(g, tag, 2) = AttribsFrom(g, tag, 3)
    BY <2>2, <2>3, AttribsSame
  <2> QED
    BY <1>4, <2>4, <2>5
<1> QED
  BY <1>1, <1>10, <1>11

-----------------------------------------------------------------------------
(* The calls of a start, and of an end *)

(* Pairs of names and values are called for one by one. *)
LEMMA PairCalls ==
    ASSUME NEW attrs, IsAttrs(attrs), NEW given, IsSeq(given), Len(given) = Len(attrs),
           \A j \in 1..Len(attrs) : given[j] = Pair(attrs[j])
    PROVE  FlattenSeq(AttrCalls(given)) = AttrSymbols(attrs)
<1>1. PICK q, s, m : q = AttrCalls(given) /\ s = AttrSymbols(attrs) /\ m = Len(attrs)
  OBVIOUS
<1>2. IsSeq(q) /\ Len(q) = m /\ \A j \in 1..m : q[j] = AttrCall(given[j])
  BY <1>1, AttrCallsAre
<1>3. IsSeq(s) /\ Len(s) = m /\ \A j \in 1..m : s[j] = <<"attr", attrs[j][1], attrs[j][2]>>
  BY <1>1, AttrSymbolsAre
<1>4. ASSUME NEW j \in 1..m PROVE q[j] = <<s[j]>>
  <2>1. PICK a, v, p : a = attrs[j][1] /\ v = attrs[j][2] /\ p = <<<<a>>, <<v>>>>
    OBVIOUS
  <2>2. a \in Attrs
    BY <1>1, <2>1, AttrNotMarks
  <2>3. given[j] = p
    BY <1>1, <2>1 DEF Pair
  <2>4. p[1] = <<a>> /\ p[1][1] = a /\ p[2][1] = v /\ Len(p) = 2
    BY <2>1
  <2>5. p[1] \in {<<n>> : n \in Attrs}
    BY <2>2, <2>4
  <2>6. AttrCall(p) = <<<<"attr", a, v>>>>
    BY <2>4, <2>5 DEF AttrCall
  <2> QED
    BY <1>2, <1>3, <2>1, <2>3, <2>6
<1>5. FlattenSeq(q) = s
  BY <1>2, <1>3, <1>4, FlattenSingles
<1> QED
  BY <1>1, <1>5

(* A type is not a mark.                                                   *)
LEMMA TypeNotMark ==
    ASSUME NEW type \in Elements
    PROVE  /\ type \notin Marks
           /\ type # " " /\ type # "/" /\ type \notin {"end", "?", "!"} /\ type # "<" /\ type # ">"
           /\ <<type>> \in {<<n>> : n \in Elements}
<1>1. type \notin Marks
  BY NamesAssumption
<1> QED
  BY <1>1 DEF Marks

(* The tag of an end is one call.                                          *)
LEMMA EndTagCalls ==
    ASSUME NEW type \in Elements
    PROVE  Calls(<<"/", type>>) = <<<<"element_none">>>>
<1>1. PICK tag : tag = <<"/", type>>
  OBVIOUS
<1>2. IsSeq(tag) /\ Len(tag) = 2 /\ tag[1] = "/" /\ tag[2] = type /\ Len(tag) \in Nat
  <2>1. IsSeq(tag) /\ Len(tag) = 2 /\ tag[1] = "/" /\ tag[2] = type
    BY <1>1, TwoSeq
  <2> QED
    BY <2>1
<1>3. 1 \in 1..Len(tag) /\ 2 \in 1..Len(tag) /\ 2 + 1 = 3 /\ 1 + 1 = 2 /\ 3 - 1 = 2 /\ 3 > Len(tag)
      /\ 1 <= Len(tag) /\ 2 <= Len(tag) /\ 3 \in Nat /\ 2 \in Nat /\ Len(tag) + 1 = 3
  <2>1. 1 \in 1..2 /\ 2 \in 1..2 /\ 2 + 1 = 3 /\ 1 + 1 = 2 /\ 3 - 1 = 2 /\ 3 > 2
        /\ 1 <= 2 /\ 2 <= 2 /\ 3 \in Nat /\ 2 \in Nat
    OBVIOUS
  <2> QED
    BY <1>2, <2>1
<1>4. FirstAt(tag) = 1
  <2>1. tag[1] \notin {" "}
    BY <1>2
  <2> QED
    BY <1>2, <1>3, <2>1, SkipHere DEF FirstAt
<1>5. EndingTag(tag) /\ StartAt(tag) = 2
  <2>1. At(tag, 1) = "/"
    BY <1>2, <1>3 DEF At
  <2> QED
    BY <1>3, <1>4, <2>1 DEF EndingTag, StartAt
<1>6. TypeEnd(tag) = 3
  <2>1. tag[2] \notin {" "}
    BY <1>2, TypeNotMark
  <2>2. Find(tag, 2, {" "}) = Find(tag, 2 + 1, {" "})
    BY <1>2, <1>3, <2>1, FindNext
  <2>3. Find(tag, 3, {" "}) = Len(tag) + 1
    BY <1>2, <1>3, FindNone
  <2> QED
    BY <1>3, <1>5, <2>2, <2>3 DEF TypeEnd
<1>7. TypeOf(tag) = <<type>>
  <2>1. SubSeq(tag, 2, 2) = <<tag[2]>>
    BY <1>3, OneOf
  <2>2. TypeOf(tag) = SubSeq(tag, 2, 3 - 1)
    BY ONLY <1>5, <1>6 DEF TypeOf
  <2> QED
    BY <1>2, <1>3, <2>1, <2>2
<1>8. At(tag, StartAt(tag)) = type
  BY <1>2, <1>3, <1>5 DEF At
<1>9. Closed(tag) = <<<<"element_none">>>>
  BY <1>5 DEF Closed
<1>10. Calls(tag) = <<>> \o Closed(tag)
  <2>1. ~ (At(tag, StartAt(tag)) \in {"end", "?", "!"} \/ TypeOf(tag) \notin {<<n>> : n \in Elements})
    BY <1>7, <1>8, TypeNotMark
  <2> QED
    BY <1>5, <2>1, CallsAre
<1>11. IsSeq(Closed(tag))
  BY <1>9, OneSeq
<1> QED
  BY <1>1, <1>9, <1>10, <1>11, NoneJoined

(* The lesser of two.                                                      *)
LEMMA MinTwo ==
    ASSUME NEW a \in Nat, NEW b \in Nat
    PROVE  /\ a <= b => Min({a, b}) = a
           /\ b <= a => Min({a, b}) = b
<1>1. PICK T, c : T = {a, b} /\ c = Min(T)
  OBVIOUS
<1>2. T \in SUBSET Nat /\ T # {}
  BY <1>1
<1>3. c \in T /\ \A n \in T : c <= n
  BY <1>1, <1>2, MinIs
<1> QED
  BY <1>1, <1>3

(* The type of a start is read, and the list of its attributes begins      *)
(* behind it.                                                              *)
LEMMA TypeRead ==
    ASSUME NEW tag, IsSeq(tag), NEW n \in Nat \ {0}, Len(tag) = n, NEW type \in Elements,
           tag[1] = type, n > 1 => tag[2] = " "
    PROVE  /\ ~EndingTag(tag) /\ TypeOf(tag) = <<type>> /\ At(tag, StartAt(tag)) = type
           /\ ListAt(tag) = IF n > 1 THEN 3 ELSE 2
<1>1. n \in Nat /\ n # 0
  OBVIOUS
<1>2. 1 \in 1..n /\ 1 \in Nat /\ 2 \in Nat /\ 1 + 1 = 2 /\ 2 - 1 = 1 /\ 1 <= n /\ 2 + 1 = 3
  BY ONLY <1>1
<1>3. n = 1 \/ (n > 1 /\ 2 \in 1..n /\ 2 <= n)
  BY ONLY <1>1
<1>4. FirstAt(tag) = 1
  <2>1. tag[1] \notin {" "}
    BY TypeNotMark
  <2> QED
    BY <1>2, <2>1, SkipHere DEF FirstAt
<1>5. At(tag, 1) = type
  BY <1>2 DEF At
<1>6. ~EndingTag(tag)
  BY <1>4, <1>5, TypeNotMark DEF EndingTag
<1>7. StartAt(tag) = 1
  BY <1>4, <1>6 DEF StartAt
<1>8. Find(tag, 2, {" "}) = 2
  <2>1. CASE n > 1 /\ 2 \in 1..n
    <3>1. 2 \in 1..n /\ n > 1
      BY <2>1
    <3>2. 2 \in 1..Len(tag) /\ tag[2] \in {" "} /\ Len(tag) \in Nat
      BY <1>1, <3>1
    <3> QED
      BY <3>2, FindHere
  <2>2. CASE n = 1
    <3>1. 2 > Len(tag) /\ Len(tag) \in Nat /\ Len(tag) + 1 = 2
      BY <2>2
    <3> QED
      BY <1>2, <3>1, FindNone
  <2> QED
    BY <1>3, <2>1, <2>2
<1>9. TypeEnd(tag) = 2
  <2>1. tag[1] \notin {" "} /\ 1 \in 1..Len(tag) /\ Len(tag) \in Nat
    BY <1>2, TypeNotMark
  <2>2. Find(tag, 1, {" "}) = Find(tag, 1 + 1, {" "})
    BY <2>1, FindNext
  <2> QED
    BY <1>2, <1>7, <1>8, <2>2 DEF TypeEnd
<1>10. TypeOf(tag) = <<type>>
  <2>1. SubSeq(tag, 1, 1) = <<tag[1]>>
    BY <1>2, OneOf
  <2>2. TypeOf(tag) = SubSeq(tag, 1, 2 - 1)
    BY ONLY <1>7, <1>9 DEF TypeOf
  <2>3. TypeOf(tag) = SubSeq(tag, 1, 1)
    BY ONLY <1>2, <2>2
  <2> QED
    BY <2>1, <2>3
<1>11. ListAt(tag) = IF n > 1 THEN 3 ELSE 2
  <2>1. ListAt(tag) = Min({2, n}) + 1
    BY <1>9 DEF ListAt
  <2>2. CASE n > 1 /\ 2 <= n
    <3>1. 2 <= n
      BY <2>2
    <3>2. Min({2, n}) = 2
      BY <1>2, <3>1, MinTwo
    <3> QED
      BY <1>2, <2>1, <2>2, <3>2
  <2>3. CASE n = 1
    <3>1. n <= 2
      BY <2>3
    <3>2. Min({2, n}) = n
      BY <1>2, <3>1, MinTwo
    <3>3. Min({2, n}) + 1 = 2 /\ ~ (n > 1)
      BY <2>3, <3>2
    <3> QED
      BY <2>1, <3>3
  <2> QED
    BY <1>3, <2>2, <2>3
<1> QED
  BY <1>5, <1>6, <1>7, <1>10, <1>11

(* The list ends with the slash if there is one. *)
LEMMA ListGiven ==
    ASSUME NEW x, NEW attrs, IsAttrs(attrs), NEW slash \in BOOLEAN, ListIs(x, attrs, slash, 1),
           NEW tag, ListOf(tag) = x
    PROVE  /\ Itself(tag) <=> slash
           /\ IsSeq(GivenTo(tag)) /\ Len(GivenTo(tag)) = Len(attrs)
           /\ \A j \in 1..Len(attrs) : GivenTo(tag)[j] = Pair(attrs[j])
<1>1. PICK m, n : m = Len(attrs) /\ n = Len(x)
  OBVIOUS
<1>2. m \in Nat /\ \A j \in 1..m : j + 1 - 1 = j
  <2>1. m \in Nat
    BY <1>1 DEF IsAttrs
  <2> QED
    BY <2>1
<1>3. /\ IsSeq(x) /\ n = m + (IF slash THEN 1 ELSE 0) /\ n \in Nat
      /\ \A j \in 1..m : x[j] = Pair(attrs[j])
      /\ slash => x[m + 1] = <<>>
  <2>1. /\ IsSeq(x) /\ n = m + 1 - 1 + (IF slash THEN 1 ELSE 0)
        /\ \A j \in 1..m : x[j + 1 - 1] = Pair(attrs[j])
        /\ slash => x[m + 2 - 1] = <<>>
    BY <1>1 DEF ListIs
  <2>2. m + 2 - 1 = m + 1 /\ m + 1 - 1 = m
    BY <1>2
  <2>3. n = m + (IF slash THEN 1 ELSE 0) /\ n \in Nat
    BY <1>2, <2>1, <2>2
  <2>4. \A j \in 1..m : x[j] = Pair(attrs[j])
    BY <1>2, <2>1
  <2> QED
    BY <2>1, <2>2, <2>3, <2>4
<1>4. CASE slash
  <2>1. n = m + 1 /\ n # 0
    BY <1>2, <1>3, <1>4
  <2>2. x # <<>>
    BY <1>1, <2>1, EmptyIsSeq
  <2>3. Last(x) = <<>>
    BY <1>1, <1>3, <1>4, <2>1 DEF Last
  <2>4. Itself(tag)
    BY <2>2, <2>3 DEF Itself
  <2>5. PICK y : y = GivenTo(tag)
    OBVIOUS
  <2>6. y = SubSeq(x, 1, n - 1)
    BY <1>1, <2>4, <2>5 DEF GivenTo, Front
  <2>7. n - 1 = m /\ 1 \in Int /\ m \in Int /\ (1 <= m \/ m = 0) /\ m - 1 + 1 = m
        /\ \A j \in 1..m : 1 + j - 1 = j
    BY <1>2, <2>1
  <2>8. IsSeq(y) /\ Len(y) = m /\ \A j \in 1..m : y[j] = x[j]
    <3>1. y = SubSeq(x, 1, m)
      BY <2>6, <2>7
    <3>2. /\ IsSeq(y) /\ Len(y) = IF 1 <= m THEN m - 1 + 1 ELSE 0
          /\ \A j \in 1..(m - 1 + 1) : y[j] = x[1 + j - 1]
      BY <2>7, <3>1, SeqPart
    <3>3. \A j \in 1..m : y[j] = x[j]
      BY <2>7, <3>2
    <3> QED
      BY <2>7, <3>2, <3>3
  <2>9. \A j \in 1..m : y[j] = Pair(attrs[j])
    BY <1>3, <2>8
  <2> QED
    BY <1>1, <1>4, <2>4, <2>5, <2>8, <2>9
<1>5. CASE ~slash
  <2>1. n = m
    BY <1>2, <1>3, <1>5
  <2>2. ~Itself(tag)
    <3>1. SUFFICES ASSUME x # <<>> PROVE Last(x) # <<>>
      BY DEF Itself
    <3>2. n \in 1..m
      <4>1. n # 0
        BY <1>1, <1>3, <3>1, EmptyIsSeq
      <4> QED
        BY <1>3, <2>1, <4>1
    <3>3. Last(x) = Pair(attrs[n])
      BY <1>1, <1>3, <3>2 DEF Last
    <3>4. PICK p : p = Pair(attrs[n])
      OBVIOUS
    <3>5. Len(p) = 2
      BY <3>4 DEF Pair
    <3> QED
      BY <3>3, <3>4, <3>5, EmptyIsSeq
  <2>3. GivenTo(tag) = x
    BY <2>2 DEF GivenTo
  <2> QED
    BY <1>1, <1>3, <1>5, <2>1, <2>2, <2>3
<1> QED
  BY <1>4, <1>5

(* The part from the first to the last is all.                             *)
LEMMA AllOf ==
    ASSUME NEW s, IsSeq(s), NEW n, n = Len(s)
    PROVE  SubSeq(s, 1, n) = s
<1>1. n \in Nat
  BY SeqDomain
<1>2. n \in Int /\ 1 \in Int /\ (1 <= n \/ n = 0) /\ n - 1 + 1 = n /\ \A j \in 1..n : 1 + j - 1 = j
  BY ONLY <1>1
<1>3. PICK y : y = SubSeq(s, 1, n)
  OBVIOUS
<1>4. /\ IsSeq(y) /\ Len(y) = IF 1 <= n THEN n - 1 + 1 ELSE 0
      /\ \A j \in 1..(n - 1 + 1) : y[j] = s[1 + j - 1]
  BY <1>2, <1>3, SeqPart
<1>5. Len(y) = n /\ \A j \in 1..n : y[j] = s[j]
  BY <1>2, <1>4
<1>6. y = s
  BY <1>4, <1>5, SeqSame
<1> QED
  BY <1>3, <1>6

(* The calls of a start are those for the element, and for its end if the  *)
(* tag ends itself.                                                        *)
LEMMA StartTagCalls ==
    ASSUME NEW tag, NEW type \in Elements, NEW attrs, IsAttrs(attrs), NEW slash \in BOOLEAN,
           StartTag(tag, type, attrs, slash), slash => Len(attrs) > 0
    PROVE  Calls(tag) = (<<<<"element", type>>>> \o AttrSymbols(attrs) \o <<<<"attr_none">>>>)
                            \o (IF slash THEN <<<<"element_none">>>> ELSE <<>>)
<1>1. PICK m, n, e, h : /\ m = Len(attrs) /\ n = Len(tag) /\ e = (IF slash THEN 1 ELSE 0)
                        /\ h = MaxAttribs \div 2
  OBVIOUS
<1>2. m \in Nat /\ m + 1 <= h
  BY <1>1, FewAttrs
<1>3. e \in {0, 1} /\ (slash <=> e = 1) /\ (e = 1 => m > 0)
  BY <1>1
<1>4. IsSeq(tag) /\ n = 6 * m + (IF slash THEN 2 ELSE 1) /\ tag[1] = type
  BY <1>1 DEF StartTag
<1>5. n = 6 * m + 1 + e
  BY <1>2, <1>3, <1>4
<1>6. n \in Nat \ {0} /\ (n > 1 <=> m > 0)
  BY ONLY <1>2, <1>3, <1>5
<1>7. n > 1 => tag[2] = " "
  <2>1. SUFFICES ASSUME n > 1 PROVE tag[2] = " "
    OBVIOUS
  <2>2. 1 \in 1..m /\ 6 * (1 - 1) + 1 = 1 /\ 1 + 1 = 2
    BY ONLY <1>2, <1>6, <2>1
  <2>3. Spelt(tag, 6 * (1 - 1) + 1, attrs[1])
    BY <1>1, <2>2 DEF StartTag
  <2>4. Spelt(tag, 1, attrs[1])
    BY <2>2, <2>3
  <2> QED
    BY <2>2, <2>4 DEF Spelt
<1>8. /\ ~EndingTag(tag) /\ TypeOf(tag) = <<type>> /\ At(tag, StartAt(tag)) = type
      /\ ListAt(tag) = IF n > 1 THEN 3 ELSE 2
  <2>1. Len(tag) = n
    BY <1>1
  <2> QED
    BY <1>4, <1>6, <1>7, <2>1, TypeRead
<1>9. PICK g : AttribsOf(g, tag)
  BY <1>4, AttribsAre
<1>10. PICK x : x = g[2]
  OBVIOUS
<1>11. ListIs(x, attrs, slash, 1) /\ (m > 0 => g[3] = x)
  BY <1>1, <1>9, <1>10, AttribsList
<1>12. g[ListAt(tag)] = x
  BY <1>6, <1>8, <1>10, <1>11
<1>13. ListOf(tag) = x
  <2>1. ListOf(tag) = Attribs(tag, ListAt(tag))
    BY <1>8 DEF ListOf
  <2>2. Attribs(tag, ListAt(tag)) = SubSeq(x, 1, Min({Len(x), h}))
    BY <1>1, <1>9, <1>12 DEF AttribsOf
  <2>3. PICK l : l = Len(x)
    OBVIOUS
  <2>4. IsSeq(x) /\ l = m + 1 - 1 + e
    BY <1>1, <1>11, <2>3 DEF ListIs
  <2>5. h \in Nat
    <3>1. MaxAttribs \in Nat
      BY NamesAssumption
    <3> QED
      BY <1>1, <3>1
  <2>6. l \in Nat /\ l <= h
    BY ONLY <1>2, <1>3, <2>4, <2>5
  <2>7. Min({l, h}) = l
    BY <2>5, <2>6, MinTwo
  <2>8. SubSeq(x, 1, l) = x
    BY <2>3, <2>4, AllOf
  <2> QED
    BY <2>1, <2>2, <2>3, <2>7, <2>8
<1>14. PICK given : given = GivenTo(tag)
  OBVIOUS
<1>15. /\ Itself(tag) <=> slash
       /\ IsSeq(given) /\ Len(given) = Len(attrs)
       /\ \A j \in 1..Len(attrs) : given[j] = Pair(attrs[j])
  BY <1>11, <1>13, <1>14, ListGiven
<1>16. FlattenSeq(AttrCalls(given)) = AttrSymbols(attrs)
  BY <1>15, PairCalls
<1>17. Opened(tag) = <<<<"element", type>>>> \o AttrSymbols(attrs) \o <<<<"attr_none">>>>
  <2>1. TypeOf(tag)[1] = type
    BY <1>8
  <2> QED
    BY ONLY <1>14, <1>16, <2>1 DEF Opened
<1>18. Closed(tag) = IF slash THEN <<<<"element_none">>>> ELSE <<>>
  BY <1>8, <1>15 DEF Closed
<1>19. Calls(tag) = Opened(tag) \o Closed(tag)
  <2>1. ~ (At(tag, StartAt(tag)) \in {"end", "?", "!"} \/ TypeOf(tag) \notin {<<y>> : y \in Elements})
    BY <1>8, TypeNotMark
  <2> QED
    BY <1>8, <2>1, CallsAre
<1> QED
  BY ONLY <1>17, <1>18, <1>19

(* Neither has a mark of a tag in it. *)
LEMMA StartUnmarked ==
    ASSUME NEW tag, NEW type \in Elements, NEW attrs, IsAttrs(attrs), NEW slash \in BOOLEAN,
           StartTag(tag, type, attrs, slash)
    PROVE  Unmarked(tag)
<1>1. PICK m, n, e : m = Len(attrs) /\ n = Len(tag) /\ e = (IF slash THEN 1 ELSE 0)
  OBVIOUS
<1>2. m \in Nat
  BY <1>1 DEF IsAttrs
<1>3. e \in {0, 1} /\ (slash <=> e = 1)
  BY <1>1
<1>4. /\ IsSeq(tag) /\ n = 6 * m + (IF slash THEN 2 ELSE 1) /\ tag[1] = type
      /\ \A k \in 1..m : Spelt(tag, 6 * (k - 1) + 1, attrs[k])
      /\ slash => tag[6 * m + 2] = "/"
  BY <1>1 DEF StartTag
<1>5. n = 6 * m + 1 + e
  BY <1>2, <1>3, <1>4
<1>6. ASSUME NEW i \in 1..n PROVE tag[i] # "<" /\ tag[i] # ">"
  <2>1. CASE i = 1
    BY <1>4, <2>1, TypeNotMark
  <2>2. CASE i = 6 * m + 2 /\ e = 1
    BY <1>3, <1>4, <2>2
  <2>3. CASE i \in 2..(6 * m + 1)
    <3>1. PICK q : q = (i - 2) \div 6
      OBVIOUS
    <3>2. PICK k, b : k = q + 1 /\ b = 6 * q + 1
      OBVIOUS
    <3>3. q \in Nat /\ 6 * q <= i - 2 /\ i - 2 <= 6 * q + 5
      BY ONLY <1>2, <2>3, <3>1
    <3>4. k \in 1..m /\ 6 * (k - 1) + 1 = b
      BY ONLY <1>2, <2>3, <3>2, <3>3
    <3>5. i \in {b + 1, b + 2, b + 3, b + 4, b + 5, b + 6}
      BY ONLY <2>3, <3>2, <3>3
    <3>6. PICK a : a = attrs[k]
      OBVIOUS
    <3>7. Spelt(tag, b, a)
      BY <1>4, <3>4, <3>6
    <3>8. a[1] \notin Marks /\ a[2] \notin Marks
      BY <1>1, <3>4, <3>6, AttrNotMarks
    <3>9. a[1] # "<" /\ a[1] # ">" /\ a[2] # "<" /\ a[2] # ">"
      BY <3>8 DEF Marks
    <3> QED
      BY <3>5, <3>7, <3>9 DEF Spelt
  <2>4. i = 1 \/ (i = 6 * m + 2 /\ e = 1) \/ i \in 2..(6 * m + 1)
    BY ONLY <1>2, <1>3, <1>5
  <2> QED
    BY <2>1, <2>2, <2>3, <2>4
<1> QED
  BY <1>1, <1>4, <1>6 DEF Unmarked

(* The text of an end is that of its tag.                                  *)
LEMMA EndTagIs ==
    ASSUME NEW type \in Elements
    PROVE  Unmarked(<<"/", type>>) /\ IsTag(<<"<", "/", type, ">", " ">>, <<"/", type>>)
<1>1. PICK tag, w : tag = <<"/", type>> /\ w = <<"<", "/", type, ">", " ">>
  OBVIOUS
<1>2. IsSeq(tag) /\ Len(tag) = 2 /\ tag[1] = "/" /\ tag[2] = type
  BY <1>1, TwoSeq
<1>3. IsSeq(w)
  <2>1. PICK a, b, c, d, S : a = "<" /\ b = "/" /\ c = ">" /\ d = " " /\ S = {a, b, c, d, type}
    OBVIOUS
  <2>2. a \in S /\ b \in S /\ type \in S /\ c \in S /\ d \in S
    BY <2>1
  <2>3. <<a, b, type, c, d>> \in Seq(S)
    BY ONLY <2>2
  <2> QED
    BY <1>1, <2>1, <2>3, SeqOfAny
<1>4. /\ Len(w) = 5 /\ w[1] = "<" /\ w[2] = "/" /\ w[3] = type /\ w[4] = ">" /\ w[5] = " "
  BY <1>1
<1>5. \A i \in 1..2 : i = 1 \/ i = 2
  OBVIOUS
<1>6. Unmarked(tag)
  BY <1>2, <1>5, TypeNotMark DEF Unmarked
<1>7. IsTag(w, tag)
  <2>1. 2 + 3 = 5 /\ 2 + 2 = 4 /\ 1 + 1 = 2 /\ 2 + 1 = 3
    OBVIOUS
  <2>2. \A i \in 1..2 : w[i + 1] = tag[i]
    BY <1>2, <1>4, <1>5, <2>1
  <2> QED
    BY <1>2, <1>3, <1>4, <2>1, <2>2 DEF IsTag
<1> QED
  BY <1>1, <1>6, <1>7

-----------------------------------------------------------------------------
(* The calls of a whole XML text *)

(* A start whose tag ends itself. *)
IsLeaf(events, i) == events[i][1] = "start" /\ events[i + 1][1] = "end"

(* Elements with neither attribute nor child are left aside.               *)
IsXml(events, label) ==
    /\ events \in Seq(Event) /\ Len(events) > 1
    /\ events[1][1] = "start" /\ events[Len(events)][1] = "end"
    /\ \A i \in 1..Len(events) :
          /\ events[i][1] = "start" => i < Len(events)
          /\ label[events[i][2]].type \in Elements
          /\ IsAttrs(label[events[i][2]].attrs)
          /\ IsLeaf(events, i) => Len(label[events[i][2]].attrs) > 0

(* The text of an end makes one call.                                      *)
LEMMA EndPiece ==
    ASSUME NEW type \in Elements
    PROVE  LET w == <<"<", "/", type, ">", " ">>
           IN  IsSeq(w) /\ Paired(w) /\ CallsOf(w) = <<<<"element_none">>>>
<1>1. PICK w, tag : w = <<"<", "/", type, ">", " ">> /\ tag = <<"/", type>>
  OBVIOUS
<1>2. Unmarked(tag) /\ IsTag(w, tag)
  BY <1>1, EndTagIs
<1>3. Paired(w) /\ CallsOf(w) = Calls(tag)
  BY <1>2, TagIs, TagCalls
<1>4. Calls(tag) = <<<<"element_none">>>>
  BY <1>1, EndTagCalls
<1>5. IsSeq(w)
  BY <1>2 DEF IsTag
<1> QED
  BY <1>1, <1>3, <1>4, <1>5

(* The text of a start makes the calls for it, and for its end after a     *)
(* slash.                                                                  *)
LEMMA StartPiece ==
    ASSUME NEW type \in Elements, NEW attrs, IsAttrs(attrs), NEW slash \in BOOLEAN,
           slash => Len(attrs) > 0, NEW w, w = XmlStart(type, attrs, slash)
    PROVE  /\ IsSeq(w) /\ Paired(w)
           /\ CallsOf(w) = (<<<<"element", type>>>> \o AttrSymbols(attrs) \o <<<<"attr_none">>>>)
                               \o (IF slash THEN <<<<"element_none">>>> ELSE <<>>)
<1>1. PICK tag : tag = TagOf(type, attrs, slash)
  OBVIOUS
<1>2. IsSeq(attrs)
  BY SeqOfAny DEF IsAttrs
<1>3. StartTag(tag, type, attrs, slash) /\ IsTag(w, tag)
  BY <1>1, <1>2, StartTagIs
<1>4. Unmarked(tag)
  BY <1>3, StartUnmarked
<1>5. Paired(w) /\ CallsOf(w) = Calls(tag)
  BY <1>3, <1>4, TagIs, TagCalls
<1>6. IsSeq(w)
  BY <1>3 DEF IsTag
<1>7. Calls(tag) = (<<<<"element", type>>>> \o AttrSymbols(attrs) \o <<<<"attr_none">>>>)
                       \o (IF slash THEN <<<<"element_none">>>> ELSE <<>>)
  BY <1>3, StartTagCalls
<1> QED
  BY <1>5, <1>6, <1>7

(* What is written for an event is read as the call for it; but a tag that *)
(* ends itself as the next one too, for which nothing is written.          *)
PieceIs(w, events, i, label) ==
    /\ IsSeq(w) /\ Paired(w)
    /\ CallsOf(w) = IF IsLeaf(events, i) THEN CallsFor(events[i], label) \o <<<<"element_none">>>>
                    ELSE IF events[i][1] # "start" /\ events[i - 1][1] = "start" THEN <<>>
                    ELSE CallsFor(events[i], label)

(* No text is finished.                                                    *)
LEMMA NoPiece == IsSeq(<<>>) /\ Paired(<<>>) /\ CallsOf(<<>>) = <<>>
<1>1. IsSeq(<<>>) /\ Len(<<>>) = 0
  BY EmptyIsSeq
<1>2. Paired(<<>>)
  <2>1. \A i \in 1..0 : FALSE
    OBVIOUS
  <2> QED
    BY <1>1, <2>1 DEF Paired
<1> QED
  BY <1>1, <1>2, NoCalls

(* Every piece of the text of a document is such.                          *)
LEMMA PiecesAre ==
    ASSUME NEW events, NEW label, IsXml(events, label), NEW i \in 1..Len(events)
    PROVE  PieceIs(XmlFor(events, i, label), events, i, label)
<1>1. PICK e, one, w, slash :
         /\ e = events[i] /\ one = label[e[2]] /\ w = XmlFor(events, i, label)
         /\ slash = (events[i + 1][1] = "end")
  OBVIOUS
<1>2. one.type \in Elements /\ IsAttrs(one.attrs)
  BY <1>1 DEF IsXml
<1>3. CASE e[1] = "start"
  <2>1. slash \in BOOLEAN /\ (slash <=> IsLeaf(events, i))
    BY <1>1, <1>3 DEF IsLeaf
  <2>2. slash => Len(one.attrs) > 0
    <3>1. IsLeaf(events, i) => Len(label[events[i][2]].attrs) > 0
      BY DEF IsXml
    <3> QED
      BY <1>1, <2>1, <3>1
  <2>3. w = XmlStart(one.type, one.attrs, slash)
    <3>1. events[i][1] = "start" /\ label[events[i][2]] = one
      BY <1>1, <1>3
    <3>2. w = XmlStart(label[events[i][2]].type, label[events[i][2]].attrs, events[i + 1][1] = "end")
      BY <1>1, <3>1, Zenon DEF XmlFor, XmlStart
    <3> QED
      BY <1>1, <3>1, <3>2
  <2>4. CallsFor(e, label) = <<<<"element", one.type>>>> \o AttrSymbols(one.attrs) \o <<<<"attr_none">>>>
    BY <1>1, <1>3 DEF CallsFor
  <2>5. PICK t, attrs : t = one.type /\ attrs = one.attrs
    OBVIOUS
  <2>6. /\ IsSeq(w) /\ Paired(w)
        /\ CallsOf(w) = CallsFor(e, label) \o (IF slash THEN <<<<"element_none">>>> ELSE <<>>)
    <3>1. t \in Elements /\ IsAttrs(attrs) /\ (slash => Len(attrs) > 0) /\ w = XmlStart(t, attrs, slash)
      BY <1>2, <2>2, <2>3, <2>5
    <3>2. /\ IsSeq(w) /\ Paired(w)
          /\ CallsOf(w) = (<<<<"element", t>>>> \o AttrSymbols(attrs) \o <<<<"attr_none">>>>)
                               \o (IF slash THEN <<<<"element_none">>>> ELSE <<>>)
      BY <2>1, <3>1, StartPiece
    <3> QED
      BY <2>4, <2>5, <3>2
  <2>7. IsSeq(CallsFor(e, label))
    BY <1>1, <1>2, CallsForIs
  <2>8. CallsFor(e, label) \o <<>> = CallsFor(e, label)
    BY <2>7, NoneJoined
  <2> QED
    BY <1>1, <1>3, <2>1, <2>6, <2>8 DEF PieceIs
<1>4. CASE e[1] # "start" /\ events[i - 1][1] = "start"
  <2>1. w = <<>> /\ ~IsLeaf(events, i)
    BY <1>1, <1>4 DEF XmlFor, IsLeaf
  <2> QED
    BY <1>1, <1>4, <2>1, NoPiece DEF PieceIs
<1>5. CASE e[1] # "start" /\ events[i - 1][1] # "start"
  <2>1. w = <<"<", "/", one.type, ">", " ">> /\ ~IsLeaf(events, i)
    BY <1>1, <1>5 DEF XmlFor, IsLeaf
  <2>2. IsSeq(w) /\ Paired(w) /\ CallsOf(w) = <<<<"element_none">>>>
    BY <1>2, <2>1, EndPiece
  <2>3. CallsFor(e, label) = <<<<"element_none">>>>
    BY <1>5 DEF CallsFor
  <2> QED
    BY <1>1, <1>5, <2>1, <2>2, <2>3 DEF PieceIs
<1> QED
  BY <1>3, <1>4, <1>5

(* The calls for the events up to the kth, and for the next one as well if *)
(* its end has been written with it.                                       *)
SaysUpTo(t, events, calls, k) ==
    /\ IsSeq(t) /\ Paired(t)
    /\ CallsOf(t) = IF k > 0 /\ IsLeaf(events, k) THEN calls[k + 1] ELSE calls[k]

CallsJoin(calls, events, label) ==
    /\ Joins(calls, CallPieces(events, label), Len(events))
    /\ \A k \in 0..Len(events) : IsSeq(calls[k])

(* The calls up to an event are those before it, and those for it.         *)
LEMMA NextCalls ==
    ASSUME NEW events, NEW label, IsXml(events, label), NEW calls, CallsJoin(calls, events, label),
           NEW k \in 1..Len(events)
    PROVE  /\ calls[k] = calls[k - 1] \o CallsFor(events[k], label)
           /\ IsSeq(calls[k]) /\ IsSeq(calls[k - 1]) /\ IsSeq(CallsFor(events[k], label))
<1>1. PICK n : n = Len(events)
  OBVIOUS
<1>2. n \in Nat
  BY <1>1 DEF IsXml
<1>3. k - 1 \in 0..n /\ k \in 0..n /\ k \in 1..n
  BY <1>1, <1>2
<1>4. calls[k] = calls[k - 1] \o CallPieces(events, label)[k]
  BY <1>1, <1>3 DEF CallsJoin, Joins
<1>5. CallPieces(events, label)[k] = CallsFor(events[k], label)
  BY <1>1, <1>3 DEF CallPieces
<1>6. IsSeq(calls[k]) /\ IsSeq(calls[k - 1])
  BY <1>1, <1>3 DEF CallsJoin
<1>7. PICK e : e = events[k]
  OBVIOUS
<1>8. IsAttrs(label[e[2]].attrs)
  BY <1>7 DEF IsXml
<1>9. IsSeq(CallsFor(e, label))
  BY <1>8, CallsForIs
<1> QED
  BY <1>4, <1>5, <1>6, <1>7, <1>9

(* A piece more says what the next event is.                               *)
LEMMA SaysMore ==
    ASSUME NEW events, NEW label, IsXml(events, label), NEW calls, CallsJoin(calls, events, label),
           NEW k \in 1..Len(events), NEW s, SaysUpTo(s, events, calls, k - 1),
           NEW w, PieceIs(w, events, k, label)
    PROVE  SaysUpTo(s \o w, events, calls, k)
<1>1. PICK n, t, c : n = Len(events) /\ t = s \o w /\ c = CallsFor(events[k], label)
  OBVIOUS
<1>2. n \in Nat /\ k \in 1..n
  BY <1>1 DEF IsXml
<1>3. k \in Nat /\ k > 0 /\ (k - 1) + 1 = k /\ (k = 1 \/ k - 1 > 0) /\ k - 1 \in Nat
  BY ONLY <1>2
<1>4. IsSeq(s) /\ Paired(s) /\ IsSeq(w) /\ Paired(w)
  BY DEF SaysUpTo, PieceIs
<1>5. IsSeq(t)
  BY <1>1, <1>4, JoinIs DEF JoinOf
<1>6. Paired(t)
  BY <1>1, <1>4, PairedJoined
<1>7. CallsOf(t) = CallsOf(s) \o CallsOf(w)
  <2>1. IsWhole(s)
    BY <1>4, PairedWhole
  <2> QED
    BY <1>1, <1>4, <2>1, CallsJoined
<1>8. calls[k] = calls[k - 1] \o c /\ IsSeq(calls[k]) /\ IsSeq(calls[k - 1]) /\ IsSeq(c)
  BY <1>1, NextCalls
<1>9. \A i \in 1..n : events[i][1] = "start" \/ events[i][1] = "end"
  <2>1. events \in Seq({"start", "end"} \X Nat)
    BY DEF IsXml, Event
  <2>2. \A i \in 1..n : events[i] \in {"start", "end"} \X Nat
    BY <1>1, <2>1
  <2> QED
    BY <2>2
<1>10. CASE events[k][1] = "start"
  <2>1. ~ (k - 1 > 0 /\ IsLeaf(events, k - 1))
    BY <1>3, <1>10 DEF IsLeaf
  <2>2. CallsOf(s) = calls[k - 1]
    BY <2>1 DEF SaysUpTo
  <2>3. CASE IsLeaf(events, k)
    <3>1. PICK o : o = <<<<"element_none">>>>
      OBVIOUS
    <3>2. CallsOf(w) = c \o o
      BY <1>1, <2>3, <3>1 DEF PieceIs
    <3>3. IsSeq(o)
      BY <3>1, OneSeq
    <3>4. CallsOf(t) = calls[k] \o o
      <4>1. PICK a : a = calls[k - 1]
        OBVIOUS
      <4>2. IsSeq(a) /\ IsSeq(c)
        BY <1>8, <4>1
      <4>3. (a \o c) \o o = a \o (c \o o)
        BY <4>2, <3>3, JoinedAgain
      <4> QED
        BY ONLY <1>7, <1>8, <2>2, <3>2, <4>1, <4>3
    <3>5. k + 1 \in 1..n /\ (k + 1) - 1 = k
      <4>1. k < n
        BY <1>1, <1>10 DEF IsXml
      <4> QED
        BY <1>2, <4>1
    <3>6. events[k + 1][1] # "start"
      BY <2>3 DEF IsLeaf
    <3>7. CallsFor(events[k + 1], label) = o
      BY <3>1, <3>6 DEF CallsFor
    <3>8. PICK m : m = k + 1
      OBVIOUS
    <3>9. calls[m] = calls[m - 1] \o CallsFor(events[m], label)
      BY <1>1, <3>5, <3>8, NextCalls
    <3>10. calls[k + 1] = calls[k] \o o
      BY <3>5, <3>7, <3>8, <3>9
    <3> QED
      BY <1>1, <1>3, <1>5, <1>6, <2>3, <3>4, <3>10 DEF SaysUpTo
  <2>4. CASE ~IsLeaf(events, k)
    <3>1. CallsOf(w) = c
      BY <1>1, <1>10, <2>4 DEF PieceIs
    <3>2. CallsOf(t) = calls[k]
      BY <1>7, <1>8, <2>2, <3>1
    <3> QED
      BY <1>1, <1>3, <1>5, <1>6, <2>4, <3>2 DEF SaysUpTo
  <2> QED
    BY <2>3, <2>4
<1>11. CASE events[k][1] # "start"
  <2>1. ~IsLeaf(events, k)
    BY <1>11 DEF IsLeaf
  <2>2. k # 1 /\ k - 1 > 0 /\ k - 1 \in 1..n
    <3>1. k # 1
      BY <1>11 DEF IsXml
    <3> QED
      BY <1>2, <1>3, <3>1
  <2>3. CASE events[k - 1][1] = "start"
    <3>1. events[k][1] = "end"
      BY <1>2, <1>9, <1>11
    <3>2. IsLeaf(events, k - 1)
      BY <1>3, <2>3, <3>1 DEF IsLeaf
    <3>3. CallsOf(s) = calls[k]
      BY <1>3, <2>2, <3>2 DEF SaysUpTo
    <3>4. CallsOf(w) = <<>>
      BY <1>11, <2>1, <2>3 DEF PieceIs
    <3>5. CallsOf(t) = calls[k]
      BY <1>7, <1>8, <3>3, <3>4, NoneJoined
    <3> QED
      BY <1>1, <1>3, <1>5, <1>6, <2>1, <3>5 DEF SaysUpTo
  <2>4. CASE events[k - 1][1] # "start"
    <3>1. ~IsLeaf(events, k - 1)
      BY <2>4 DEF IsLeaf
    <3>2. CallsOf(s) = calls[k - 1]
      BY <3>1 DEF SaysUpTo
    <3>3. CallsOf(w) = c
      BY <1>1, <2>1, <2>4 DEF PieceIs
    <3>4. CallsOf(t) = calls[k]
      BY <1>7, <1>8, <3>2, <3>3
    <3> QED
      BY <1>1, <1>3, <1>5, <1>6, <2>1, <3>4 DEF SaysUpTo
  <2> QED
    BY <2>3, <2>4
<1> QED
  BY <1>10, <1>11

(* The text of a whole document makes the calls for it.                    *)
LEMMA XmlCalls ==
    ASSUME NEW events, NEW label, IsXml(events, label), NEW calls, CallsJoin(calls, events, label),
           NEW t, t = FlattenSeq(XmlPieces(events, label))
    PROVE  IsSeq(t) /\ Paired(t) /\ CallsOf(t) = calls[Len(events)]
<1>1. PICK n, q : n = Len(events) /\ q = XmlPieces(events, label)
  OBVIOUS
<1>2. n \in Nat /\ n > 0 /\ n \in 1..n /\ n \in 0..n
  <2>1. n \in Nat /\ n > 1
    BY <1>1 DEF IsXml
  <2> QED
    BY ONLY <2>1
<1>3. q = [i \in 1..n |-> XmlFor(events, i, label)]
  BY <1>1 DEF XmlPieces
<1>4. IsSeq(q) /\ Len(q) = n
  <2>1. PICK S : S = {XmlFor(events, i, label) : i \in 1..n}
    OBVIOUS
  <2>2. q \in [1..n -> S]
    BY <1>3, <2>1
  <2>3. q \in Seq(S) /\ Len(q) = n
    BY <1>2, <2>2
  <2> QED
    BY <2>3, SeqOfAny
<1>5. \A i \in 1..n : PieceIs(q[i], events, i, label)
  BY <1>1, <1>3, PiecesAre
<1>6. \A i \in 1..n : IsSeq(q[i])
  BY <1>5 DEF PieceIs
<1>7. PICK f : Joins(f, q, n) /\ \A k \in 0..n : IsSeq(f[k])
  BY <1>2, <1>6, JoinsExist
<1>8. t = f[n]
  BY <1>1, <1>4, <1>6, <1>7, FlattenAll
<1>9. PICK T : T = {k \in 0..n : SaysUpTo(f[k], events, calls, k)}
  OBVIOUS
<1>10. 0 \in T
  <2>1. f[0] = <<>> /\ calls[0] = <<>> /\ 0 \in 0..n /\ ~ (0 > 0)
    BY <1>2, <1>7 DEF Joins, CallsJoin
  <2>2. SaysUpTo(<<>>, events, calls, 0)
    BY <2>1, NoPiece DEF SaysUpTo
  <2> QED
    BY <1>9, <2>1, <2>2
<1>11. ASSUME NEW k \in 1..n, k - 1 \in T PROVE k \in T
  <2>1. SaysUpTo(f[k - 1], events, calls, k - 1)
    BY <1>9, <1>11
  <2>2. PieceIs(q[k], events, k, label)
    BY <1>5
  <2>3. PICK s, w : s = f[k - 1] /\ w = q[k]
    OBVIOUS
  <2>4. SaysUpTo(s \o w, events, calls, k)
    BY <1>1, <2>1, <2>2, <2>3, SaysMore
  <2>5. f[k] = s \o w
    BY <1>7, <2>3 DEF Joins
  <2>6. k \in 0..n
    BY <1>2
  <2> QED
    BY <1>9, <2>4, <2>5, <2>6
<1>12. 0..n \subseteq T
  BY <1>2, <1>10, <1>11, Upwards
<1>13. SaysUpTo(f[n], events, calls, n)
  BY <1>2, <1>9, <1>12
<1>14. ~IsLeaf(events, n)
  BY <1>1 DEF IsXml, IsLeaf
<1> QED
  BY <1>1, <1>8, <1>13, <1>14 DEF SaysUpTo

-----------------------------------------------------------------------------
(* The XML format *)

(* A node whose attribute is not zero has one.                             *)
LEMMA AttrListMore ==
    ASSUME GraphInv, NEW n \in NodeIds, nodes[n].attr # 0
    PROVE  AttrList(n) # <<>>
<1>1. TypeOK /\ RefsBelow
  BY DEF GraphInv, SlotInv
<1>2. SlotListRec
  BY <1>1, SlotListFound
<1>3. PICK s, c : s = nodes[n].attr /\ c = slot_count
  OBVIOUS
<1>4. c \in Nat \ {0} /\ s \in Nat /\ s < c
  BY <1>1, <1>3 DEF TypeOK, RefsBelow, Node
<1>5. s \in 1..(c - 1) /\ s \in 0..(c - 1) /\ s # 0
  BY <1>3, <1>4
<1>6. PICK l, older : l = SlotList[s] /\ older = SlotList[slots[s].left]
  BY Zenon
<1>7. l = Append(older, s)
  <2>1. SlotList = [x \in 0..(c - 1) |-> IF x = 0 THEN <<>> ELSE Append(SlotList[slots[x].left], x)]
    BY <1>2, <1>3, Zenon DEF SlotListRec, IsList
  <2>2. SlotList[s] = IF s = 0 THEN <<>> ELSE Append(SlotList[slots[s].left], s)
    BY <1>5, <2>1, Zenon
  <2> QED
    BY <1>5, <1>6, <2>2
<1>8. slots[s].left \in 0..(c - 1)
  <2>1. slots[s].left \in Nat /\ slots[s].left < s
    BY <1>1, <1>3, <1>5 DEF TypeOK, RefsBelow, SlotIds, Slot
  <2> QED
    BY <1>4, <1>5, <2>1
<1>9. older \in Seq(SlotIds) /\ s \in SlotIds
  BY <1>2, <1>3, <1>5, <1>6, <1>8 DEF SlotListRec, SlotIds
<1>10. 1 \in DOMAIN l
  BY <1>7, <1>9
<1>11. AttrSlots(n) = l
  BY <1>3, <1>6 DEF AttrSlots
<1>12. 1 \in DOMAIN AttrList(n)
  BY <1>10, <1>11 DEF AttrList
<1> QED
  BY <1>12

(* The visit of a graph in which no element is bare is such a document.    *)
LEMMA VisitXml ==
    ASSUME GraphInv, Emit, format = "xml", "xml" \notin BareTags
    PROVE  IsXml(Visit, KeptLabels("xml", Labels))
<1>1. PICK v, given, n : v = Visit /\ given = KeptLabels("xml", Labels) /\ n = node_count
  OBVIOUS
<1>2. n > 0 /\ n \in Nat
  BY <1>1 DEF Emit, GraphInv, TypeOK
<1>3. Nested(v, nodes, n)
  BY <1>1, <1>2, VisitNested
<1>4. IsLabels(Labels, n)
  BY <1>1, LabelsAre
<1>5. IsLabels(given, n)
  BY <1>1, <1>2, <1>4, KeptLabelsAre
<1>6. ASSUME NEW i \in 1..Len(v)
      PROVE  /\ v[i][1] = "start" => i < Len(v)
             /\ given[v[i][2]].type \in Elements
             /\ IsAttrs(given[v[i][2]].attrs)
             /\ IsLeaf(v, i) => Len(given[v[i][2]].attrs) > 0
  <2>1. PICK m : m = v[i][2]
    OBVIOUS
  <2>2. m \in 0..(n - 1) /\ (v[i][1] = "start" => i < Len(v) /\ (v[i + 1][1] = "end" <=> nodes[m].down = 0))
    BY <1>3, <2>1 DEF Nested, NestedAt
  <2>3. given[m].type \in Elements /\ IsAttrs(given[m].attrs)
    BY <1>5, <2>2 DEF IsLabels, Label
  <2>4. ASSUME IsLeaf(v, i) PROVE Len(given[m].attrs) > 0
    <3>1. m \in NodeIds
      BY <1>1, <2>2 DEF NodeIds
    <3>2. nodes[m].down = 0
      BY <2>2, <2>4 DEF IsLeaf
    <3>3. nodes[m].attr # 0
      BY <3>1, <3>2 DEF Emit, Leaf
    <3>4. AttrList(m) # <<>>
      BY <3>1, <3>3, AttrListMore
    <3>5. Labels[m].attrs = AttrList(m) /\ DOMAIN Labels = NodeIds
      BY <3>1 DEF Labels
    <3>6. PICK attrs : attrs = AttrList(m)
      OBVIOUS
    <3>7. IsAttrs(attrs)
      BY <1>4, <2>2, <3>5, <3>6 DEF IsLabels
    <3>8. given[m].attrs = KeptAttrs("xml", attrs)
      BY <1>1, <3>1, <3>5, <3>6 DEF KeptLabels
    <3>9. Len(given[m].attrs) = Len(attrs)
      BY <3>7, <3>8, KeptAre
    <3>10. Len(attrs) \in Nat /\ Len(attrs) # 0
      <4>1. attrs \in Seq(Attrs \X Values)
        BY <3>7 DEF IsAttrs
      <4>2. IsSeq(attrs)
        BY <4>1, SeqOfAny
      <4> QED
        BY <3>4, <3>6, <4>1, <4>2, EmptyIsSeq
    <3> QED
      BY <3>9, <3>10
  <2> QED
    BY <2>1, <2>2, <2>3, <2>4
<1>7. v \in Seq(Event) /\ Len(v) > 1 /\ v[1][1] = "start" /\ v[Len(v)][1] = "end"
  BY <1>3 DEF Nested
<1>8. IsXml(v, given)
  BY <1>6, <1>7 DEF IsXml
<1> QED
  BY <1>1, <1>8

(* The second run is given the calls for it,                               *)
LEMMA XmlInput ==
    ASSUME PipeInv, stage = "source", Emit, format = "xml", "xml" \notin BareTags,
           NEW P, NEW C, NEW calls,
           IsSource(format, Visit, KeptLabels(format, Labels), P, C, calls)
    PROVE  /\ IsInput(wire', calls, Len(Visit))
           /\ Len(wire') = Len(calls[Len(Visit)])
<1>1. PICK v, given, n, c : /\ v = Visit /\ given = KeptLabels("xml", Labels)
                            /\ n = Len(v) /\ c = calls[n]
  OBVIOUS
<1>2. PICK t : t = FlattenSeq(XmlPieces(v, given))
  OBVIOUS
<1>3. File = t
  <2>1. GraphInv /\ node_count > 0 /\ format \in FormatNames
    BY FormatsAssumption DEF PipeInv, Emit
  <2>2. File = FileOf("xml", v, given)
    BY <1>1, <2>1, FileIs
  <2> QED
    BY <1>2, <2>2 DEF FileOf
<1>4. IsXml(v, given)
  BY <1>1, VisitXml DEF PipeInv
<1>5. CallsJoin(calls, v, given) /\ n \in Nat
  BY <1>1 DEF IsSource, CallsJoin, Trace
<1>6. IsSeq(t) /\ Paired(t) /\ CallsOf(t) = c
  BY <1>1, <1>2, <1>4, <1>5, XmlCalls
<1>7. IsSeq(c) /\ Len(c) \in Nat
  <2>1. n \in 0..n
    BY <1>5
  <2>2. IsSeq(c)
    BY <1>1, <1>5, <2>1 DEF CallsJoin
  <2> QED
    BY <2>2, SeqDomain
<1>8. wire' = c
  <2>1. PICK file \in Received(t) : wire' = Symbols(file)
    BY <1>3 DEF Emit
  <2> QED
    BY <1>6, <2>1, ReceivedCalls
<1>9. IsInput(c, calls, n)
  BY <1>1, <1>7 DEF IsInput
<1> QED
  BY <1>1, <1>8, <1>9

(* and the file is a list of tokens.                                       *)
LEMMA XmlSent ==
    ASSUME GraphInv, Emit, format = "xml", "xml" \notin BareTags
    PROVE  IsSeq(sent')
<1>1. PICK v, given, q : v = Visit /\ given = KeptLabels("xml", Labels) /\ q = XmlPieces(v, given)
  OBVIOUS
<1>2. IsXml(v, given)
  BY <1>1, VisitXml
<1>3. \A i \in 1..Len(v) : IsSeq(q[i])
  <2> TAKE i \in 1..Len(v)
  <2>1. PieceIs(XmlFor(v, i, given), v, i, given)
    BY <1>2, PiecesAre
  <2>2. q[i] = XmlFor(v, i, given)
    BY <1>1 DEF XmlPieces
  <2> QED
    BY <2>1, <2>2 DEF PieceIs
<1>4. PICK calls : CallsJoin(calls, v, given)
  <2>1. PICK n \in Nat : n = Len(v)
    BY <1>2 DEF IsXml
  <2>2. PICK x : x = CallPieces(v, given)
    OBVIOUS
  <2>3. \A i \in 1..n : IsSeq(x[i])
    <3> TAKE i \in 1..n
    <3>1. PICK e : e = v[i]
      OBVIOUS
    <3>2. IsAttrs(given[e[2]].attrs)
      BY <1>2, <2>1, <3>1 DEF IsXml
    <3>3. IsSeq(CallsFor(e, given))
      BY <3>2, CallsForIs
    <3> QED
      BY <2>1, <2>2, <3>1, <3>3 DEF CallPieces
  <2>4. \E f : Joins(f, x, n) /\ \A k \in 0..n : IsSeq(f[k])
    BY <2>3, JoinsExist
  <2> QED
    BY <2>1, <2>2, <2>4 DEF CallsJoin
<1>5. IsSeq(FlattenSeq(q))
  BY <1>1, <1>2, <1>4, XmlCalls
<1>6. File = FileOf("xml", v, given)
  <2>1. node_count > 0 /\ format \in FormatNames
    BY DEF Emit, FormatNames
  <2> QED
    BY <1>1, <2>1, FileIs
<1> QED
  BY <1>1, <1>5, <1>6 DEF FileOf, Emit

-----------------------------------------------------------------------------
(* The runs of musvgtool *)

(* At first, nothing has been read.                                        *)
LEMMA PipeStarts == PipeInit => PipeInv
<1> SUFFICES ASSUME PipeInit PROVE PipeInv
  OBVIOUS
<1>1. GraphInv /\ Init
  BY GraphInit DEF PipeInit
<1>2. Document = <<>> /\ OpenPath = <<>> /\ node_count = 0
  <2>1. Tree!Init
    BY GraphInit DEF PipeInit
  <2> QED
    BY <1>1, <2>1 DEF Tree!Init, Init
<1>3. HistoryInv
  BY <1>2, TraceNone DEF HistoryInv
<1> QED
  BY <1>1, <1>3 DEF PipeInit, PipeInv

(* The emission preserves the invariant in either format.                  *)
LEMMA EmitStep ==
    ASSUME PipeInv, "xml" \notin BareTags, Emit
    PROVE  PipeInv'
<1>1. PICK given, n : given = KeptLabels(format, Labels) /\ n = Len(Visit)
  OBVIOUS
<1>2. stage = "source" /\ GraphInv /\ HistoryInv /\ node_count > 0
  BY DEF Emit, PipeInv
<1>3. format = "binary" \/ format = "xml"
  BY FormatsAssumption DEF PipeInv, FormatNames
<1>4. CASE format = "binary"
  <2>1. ASSUME NEW P, NEW C, NEW calls,
               IsSource(format, Visit, KeptLabels(format, Labels), P, C, calls)
        PROVE  /\ IsInput(wire', calls, Len(Visit))
               /\ Len(wire') > Len(calls[Len(Visit)]) => format = "binary" /\ "binary" \in Stdin
               /\ IsSeq(sent')
    BY <1>4, <2>1, BinaryInput
  <2>2. \E P, C, calls : IsSource(format, Visit, KeptLabels(format, Labels), P, C, calls)
    <3>1. PICK v, label : v = Visit /\ label = KeptLabels(format, Labels)
      OBVIOUS
    <3>2. format \in FormatNames
      BY <1>3 DEF FormatNames
    <3>3. \E P, C, calls : IsSource(format, v, label, P, C, calls)
      BY <1>2, <3>1, <3>2, Emitted
    <3> QED
      BY ONLY <3>1, <3>3
  <2>3. IsSeq(sent')
    BY <2>1, <2>2
  <2> QED
    BY <2>1, <2>3, EmitCopies
<1>5. CASE format = "xml"
  <2>1. ASSUME NEW P, NEW C, NEW calls,
               IsSource(format, Visit, KeptLabels(format, Labels), P, C, calls)
        PROVE  /\ IsInput(wire', calls, Len(Visit))
               /\ Len(wire') > Len(calls[Len(Visit)]) => format = "binary" /\ "binary" \in Stdin
    <3>1. /\ IsInput(wire', calls, Len(Visit))
          /\ Len(wire') = Len(calls[Len(Visit)])
      BY <1>2, <1>5, <2>1, XmlInput
    <3>2. PICK a : a = Len(calls[Len(Visit)])
      OBVIOUS
    <3>3. a \in Nat
      BY <3>1, <3>2 DEF IsInput
    <3>4. ~ (a > a)
      BY ONLY <3>3
    <3> QED
      BY <3>1, <3>2, <3>4
  <2>2. IsSeq(sent')
    BY <1>2, <1>5, XmlSent
  <2> QED
    BY <2>1, <2>2, EmitCopies
<1> QED
  BY <1>3, <1>4, <1>5

(* So does every step.                                                     *)
LEMMA PipeStep ==
    ASSUME WellFormed, "xml" \notin BareTags, PipeInv, [PipeNext]_<<vars, pipe>>
    PROVE  PipeInv'
<1>1. CASE ReadSource
  BY <1>1, SourceStep
<1>2. CASE Emit
  BY <1>2, EmitStep
<1>3. CASE ReadCopy
  BY <1>3, CopyStep
<1>4. CASE UNCHANGED <<vars, pipe>>
  BY <1>4, PipeKept
<1> QED
  BY <1>1, <1>2, <1>3, <1>4 DEF PipeNext

(* Whatever document musvgtool has read, however large and however deep,   *)
(* what it writes of it in either format, and a second run of it reads, is *)
(* written by that run again without a difference: through noise between   *)
(* the tags, a byte too many from standard input, and whatever is behind   *)
(* the copy of the text.  XML with elements that have neither attribute    *)
(* nor child is left out; it is not so of them.                            *)
THEOREM DocumentRoundTrip ==
    WellFormed /\ "xml" \notin BareTags /\ PipeSpec => []RoundTrip
<1> SUFFICES ASSUME WellFormed, "xml" \notin BareTags PROVE PipeSpec => []RoundTrip
  OBVIOUS
<1>1. PipeInv /\ [PipeNext]_<<vars, pipe>> => PipeInv'
  BY PipeStep
<1>2. PipeInv => RoundTrip
  BY RoundTripHolds DEF RoundTrip
<1> QED
  BY <1>1, <1>2, PipeStarts, PTL DEF PipeSpec

(* Of a file of any document, cut off behind any symbol, what is there is  *)
(* read: the calls for a piece of XML text are the first of the whole, and *)
(* what has been read of a binary file, with the ends of what is open, is  *)
(* what would be written of the graph built so far.                        *)
THEOREM CutAnywhereAlways ==
    WellFormed /\ "xml" \notin BareTags /\ "binary" \notin Stdin /\ PipeSpec => []CutAnywhere
<1> SUFFICES ASSUME WellFormed, "xml" \notin BareTags, "binary" \notin Stdin
             PROVE PipeSpec => []CutAnywhere
  OBVIOUS
<1>1. PipeInv /\ [PipeNext]_<<vars, pipe>> => PipeInv'
  BY PipeStep
<1>2. PipeInv => CutAnywhere
  <2> SUFFICES ASSUME PipeInv PROVE CutAnywhere
    OBVIOUS
  <2>1. stage = "copy" => \A k \in 0..Len(sent) : IsPrefix(CallsOf(SubSeq(sent, 1, k)), CallsOf(sent))
    BY XmlCut
  <2>2. stage = "copy" /\ format = "binary" /\ node_count > 0 =>
           LET read == SubSeq(sent, 1, Len(sent) - Len(wire))
               rest == IF reading THEN <<<<"attr_none">>>> ELSE <<>>
           IN  File = read \o rest \o [d \in 1..node_depth |-> <<"element_none">>]
    BY BinaryCut
  <2> QED
    BY <2>1, <2>2 DEF CutAnywhere
<1> QED
  BY <1>1, <1>2, PipeStarts, PTL DEF PipeSpec

(* The emitters leave nothing open and end nothing twice: no file of any   *)
(* document ends the program that reads it again, but a binary one that is *)
(* read from standard input, with its byte too many.                       *)
THEOREM CopyGoesOn ==
    WellFormed /\ "xml" \notin BareTags /\ "binary" \notin Stdin /\ PipeSpec =>
        [](stage = "copy" => ~aborted)
<1> SUFFICES ASSUME WellFormed, "xml" \notin BareTags, "binary" \notin Stdin
             PROVE PipeSpec => [](stage = "copy" => ~aborted)
  OBVIOUS
<1>1. PipeInv /\ [PipeNext]_<<vars, pipe>> => PipeInv'
  BY PipeStep
<1>2. PipeInv => (stage = "copy" => ~aborted)
  <2> SUFFICES ASSUME PipeInv, stage = "copy" PROVE ~aborted
    OBVIOUS
  <2>1. PICK events, label, P, C, calls, all, r : Copies(events, label, P, C, calls, all, r)
    BY DEF PipeInv, CopyInv
  <2>2. PICK m, n : m = Len(all) /\ n = Len(calls[Len(events)])
    OBVIOUS
  <2>3. n \in Nat /\ m \in {n, n + 1}
    BY <2>1, <2>2 DEF Copies, IsInput
  <2>4. ~ (m > n)
    BY <2>1, <2>2 DEF Copies
  <2>5. r \in 0..m
    BY <2>1, <2>2 DEF Copies
  <2>6. r # n + 1
    BY ONLY <2>3, <2>4, <2>5
  <2>7. Position(events, label, P, C, calls, r)
    BY <2>1 DEF Copies
  <2> QED
    BY <2>2, <2>6, <2>7 DEF Position
<1> QED
  BY <1>1, <1>2, PipeStarts, PTL DEF PipeSpec
=============================================================================
