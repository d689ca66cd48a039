---------------------------- MODULE SvgTreeProofs ----------------------------
(***************************************************************************)
(* Proofs about the node graph of SvgTree.  Of any documents and calls:    *)
(* that its variables keep their types, that every attribute slot has one  *)
(* place, and that the list of a node's slots holds each attribute once.   *)
(* Of well-formed documents of any size and depth: that links agree and    *)
(* indices are a preorder, and that the graph, visited by musvg_visit, is  *)
(* the document: that SvgTree implements DocTree.                          *)
(*                                                                         *)
(* Lists and visits are recursive functions.  Each is first shown to exist *)
(* and to be the only one of its equation, by induction over the slots or  *)
(* the nodes; what a step does to it is then read off the equation.        *)
(***************************************************************************)
EXTENDS SvgTreeInv, DataInduction

-----------------------------------------------------------------------------
(* What the steps of a parser and its caller do to the graph. *)

AddStep == \E t \in Elements : ~aborted /\ ~reading /\ Accepts /\ NodeAdd(t)

PopStep == ~aborted /\ ~reading /\ StackPop

AllocStep ==
    \E n \in NodeIds, a \in Attrs, v \in Values : AllocAttr(n, a, v)

SetStep == \E s \in SlotIds, v \in Values : SetSlot(s, v)

LEMMA NextSplit ==
    ASSUME TypeOK, ReadingInv, [Next]_vars
    PROVE  \/ AddStep
           \/ PopStep
           \/ AllocStep
           \/ SetStep
           \/ EndAttrs
           \/ Abort
           \/ UNCHANGED vars
  <1>1. CASE \E t \in Elements : StartElement(t)
    BY <1>1 DEF StartElement, AddStep
  <1>2. CASE EndElement
    BY <1>2 DEF EndElement, PopStep
  <1>3. ASSUME NEW n \in NodeIds, NEW a \in Attrs, NEW v \in Values,
               WriteAttr(n, a, v)
        PROVE  AllocStep \/ SetStep
    BY <1>3 DEF WriteAttr, AllocStep, SetStep
  <1>4. CASE \E a \in Attrs, v \in Values : ReadAttr(a, v)
    <2>1. PICK a \in Attrs, v \in Values : ReadAttr(a, v)
      BY <1>4
    <2>2. node_count - 1 \in NodeIds
      BY <2>1 DEF ReadAttr, ReadingInv, TypeOK, NodeIds
    <2>q. QED
      BY <2>1, <2>2, <1>3 DEF ReadAttr
  <1>5. CASE \E n \in NodeIds, a \in Attrs, v \in Values : AttrValueSet(n, a, v)
    BY <1>5 DEF AttrValueSet, SetStep
  <1>6. CASE \E n \in NodeIds, a \in Attrs : AttrValueGet(n, a)
    BY <1>6 DEF AttrValueGet, AllocStep
  <1>q. QED
    BY <1>1, <1>2, <1>4, <1>5, <1>6 DEF Next

-----------------------------------------------------------------------------
(* Types, and the slots: every document. *)

LEMMA InitSlots == Init => TypeOK /\ SlotInv
  <1> SUFFICES ASSUME Init PROVE TypeOK /\ SlotInv
    OBVIOUS
  <1>1. NodeIds = {} /\ SlotIds = {}
    BY DEF Init, NodeIds, SlotIds
  <1>2. nodes \in [NodeIds -> Node] /\ slots \in [SlotIds -> Slot]
    BY <1>1 DEF Init
  <1>3. node_stack \in [Levels -> Nat] /\ node_depth \in 0..MaxDepth
    BY DepthAssumption DEF Init
  <1>5. TypeOK
    <2>1. /\ node_count \in Nat
          /\ slot_count \in Nat \ {0}
          /\ open \in Nat
      BY DEF Init
    <2>2. reading \in BOOLEAN /\ aborted \in BOOLEAN
      BY DEF Init
    <2>q. QED
      BY <1>2, <1>3, <2>1, <2>2 DEF TypeOK
  <1>4. SlotInv
    BY <1>1 DEF Init, SlotInv, RefsBelow, ReadingInv, SlotsOwned
  <1>q. QED
    BY <1>4, <1>5

(* The parent of the next node. *)
Parent == IF node_depth > 0 THEN node_stack[node_depth - 1] ELSE 0

(* What musvg_node_add does to the links, field by field. *)
LEMMA LinkedFields ==
    ASSUME TypeOK, NEW t \in Elements, node_depth < MaxDepth
    PROVE  /\ Linked(t) \in [0..node_count -> Node]
           /\ \A n \in NodeIds :
                 /\ Linked(t)[n].type = nodes[n].type
                 /\ Linked(t)[n].attr = nodes[n].attr
                 /\ Linked(t)[n].up = nodes[n].up
                 /\ Linked(t)[n].left = nodes[n].left
                 /\ Linked(t)[n].down = IF n = Parent THEN node_count ELSE nodes[n].down
           /\ Linked(t)[node_count].type = t
           /\ Linked(t)[node_count].attr = 0
           /\ Linked(t)[node_count].up = Parent
           /\ Linked(t)[node_count].left = node_stack[node_depth]
           /\ Linked(t)[node_count].down = IF node_count = Parent THEN node_count ELSE 0
  <1> DEFINE node == [type |-> t, left |-> node_stack[node_depth], down |-> 0,
                      up |-> Parent, attr |-> 0]
             grown == [n \in 0..node_count |-> IF n = node_count THEN node ELSE nodes[n]]
  <1>1. Linked(t) = [grown EXCEPT ![Parent].down = node_count]
    BY DEF Linked, Parent
  <1>2. node \in Node
    BY DepthAssumption DEF Node, TypeOK, Parent, Levels
  <1>3. grown \in [0..node_count -> Node]
    BY <1>2 DEF TypeOK, NodeIds
  <1>4. grown[node_count] = node /\ \A n \in NodeIds : grown[n] = nodes[n]
    BY DEF TypeOK, NodeIds
  <1>5. node_count \in 0..node_count /\ \A n \in NodeIds : n \in 0..node_count
    BY DEF TypeOK, NodeIds
  <1> HIDE DEF grown
  <1>6. Linked(t) \in [0..node_count -> Node]
    BY <1>1, <1>3 DEF Node, TypeOK
  <1>7. \A n \in 0..node_count :
            /\ Linked(t)[n].type = grown[n].type
            /\ Linked(t)[n].attr = grown[n].attr
            /\ Linked(t)[n].up = grown[n].up
            /\ Linked(t)[n].left = grown[n].left
            /\ Linked(t)[n].down = IF n = Parent THEN node_count ELSE grown[n].down
    BY <1>1, <1>3 DEF Node
  <1>q. QED
    BY <1>4, <1>5, <1>6, <1>7

LEMMA TypeStep ==
    ASSUME TypeOK, ReadingInv, [Next]_vars
    PROVE  TypeOK'
  <1>1. CASE AddStep
    <2>1. PICK t \in Elements : NodeAdd(t)
      BY <1>1 DEF AddStep
    <2>2. nodes' \in [0..node_count -> Node]
      BY <2>1, LinkedFields DEF NodeAdd
    <2>3. NodeIds' = 0..node_count
      BY <2>1 DEF NodeAdd, NodeIds, TypeOK
    <2>q. QED
      BY <2>1, <2>2, <2>3, DepthAssumption DEF NodeAdd, TypeOK, Levels, SlotIds
  <1>2. CASE PopStep
    <2>1. UNCHANGED <<node_count, nodes, slot_count, slots, reading, aborted>>
      BY <1>2 DEF PopStep, StackPop, graph
    <2>2. node_depth' \in 0..MaxDepth /\ open' \in Nat
      BY <1>2, DepthAssumption DEF PopStep, StackPop, TypeOK, ReadingInv
    <2>3. node_stack' \in [Levels -> Nat]
      BY <1>2 DEF PopStep, StackPop, TypeOK
    <2>q. QED
      BY <2>1, <2>2, <2>3 DEF TypeOK, NodeIds, SlotIds
  <1>3. CASE AllocStep
    <2>1. PICK n \in NodeIds, a \in Attrs, v \in Values : AllocAttr(n, a, v)
      BY <1>3 DEF AllocStep
    <2>2. nodes' \in [NodeIds -> Node] /\ NodeIds' = NodeIds
      BY <2>1 DEF AllocAttr, TypeOK, Node, NodeIds
    <2>3. slots' \in [1..slot_count -> Slot] /\ SlotIds' = 1..slot_count
      BY <2>1 DEF AllocAttr, TypeOK, Node, Slot, SlotIds, NodeIds
    <2>q. QED
      BY <2>1, <2>2, <2>3 DEF AllocAttr, TypeOK, stack, Levels
  <1>4. CASE SetStep
    BY <1>4 DEF SetStep, SetSlot, TypeOK, stack, NodeIds, SlotIds, Levels, Slot
  <1>5. CASE EndAttrs
    BY <1>5 DEF EndAttrs, TypeOK, graph, stack, NodeIds, SlotIds, Levels
  <1>6. CASE Abort \/ UNCHANGED vars
    BY <1>6 DEF Abort, vars, TypeOK, graph, stack, NodeIds, SlotIds, Levels
  <1>q. QED
    BY <1>1, <1>2, <1>3, <1>4, <1>5, <1>6, NextSplit

LEMMA SlotStep ==
    ASSUME TypeOK, SlotInv, [Next]_vars
    PROVE  SlotInv'
  <1> USE DEF SlotInv
  <1>1. CASE AddStep
    <2>1. PICK t \in Elements : NodeAdd(t)
      BY <1>1 DEF AddStep
    <2>2. /\ \A n \in NodeIds : nodes'[n].attr = nodes[n].attr
          /\ nodes'[node_count].attr = 0
      BY <2>1, LinkedFields DEF NodeAdd
    <2>3. NodeIds' = NodeIds \union {node_count} /\ SlotIds' = SlotIds
      BY <2>1 DEF NodeAdd, NodeIds, SlotIds, TypeOK
    <2>4. RefsBelow' /\ ReadingInv'
      BY <2>1, <2>2, <2>3 DEF NodeAdd, RefsBelow, ReadingInv, TypeOK
    <2>5. SlotsOwned'
      <3>1. \A s \in SlotIds : s # 0
        BY DEF SlotIds, TypeOK
      <3>q. QED
        BY <2>1, <2>2, <2>3, <3>1 DEF NodeAdd, SlotsOwned, SlotOwned
    <2>q. QED
      BY <2>4, <2>5
  <1>2. CASE PopStep
    BY <1>2, DepthAssumption
       DEF PopStep, StackPop, TypeOK, RefsBelow, ReadingInv, SlotsOwned, SlotOwned,
           graph, NodeIds, SlotIds
  <1>3. CASE AllocStep
    <2>1. PICK n \in NodeIds, a \in Attrs, v \in Values : AllocAttr(n, a, v)
      BY <1>3 DEF AllocStep
    <2> DEFINE new == slot_count
    <2>2. /\ NodeIds' = NodeIds
          /\ SlotIds' = SlotIds \union {new}
          /\ new \notin SlotIds
      BY <2>1 DEF AllocAttr, NodeIds, SlotIds, TypeOK
    <2>3. /\ nodes'[n].attr = new
          /\ \A m \in NodeIds : m # n => nodes'[m].attr = nodes[m].attr
      BY <2>1 DEF AllocAttr, TypeOK, NodeIds, Node
    <2>4. /\ slots'[new].left = nodes[n].attr
          /\ \A s \in SlotIds : slots'[s].left = slots[s].left
      BY <2>1 DEF AllocAttr, TypeOK, SlotIds, Slot
    <2>5. /\ \A m \in NodeIds : nodes[m].attr \in 0..(new - 1)
          /\ \A s \in SlotIds : slots[s].left \in 0..(s - 1)
      BY SMTT(30) DEF RefsBelow, TypeOK, Node, Slot, NodeIds, SlotIds
    <2>6. RefsBelow' /\ ReadingInv'
      BY <2>1, <2>2, <2>3, <2>4, <2>5
         DEF AllocAttr, RefsBelow, ReadingInv, TypeOK, NodeIds, SlotIds, stack
    <2>7. SlotsOwned'
      <3> SUFFICES ASSUME NEW s \in SlotIds'
                   PROVE  SlotOwned(s)'
        BY DEF SlotsOwned
      <3>1. new \in SlotIds' /\ \A t \in SlotIds : t < new /\ t \in SlotIds'
        BY <2>2 DEF SlotIds, TypeOK
      <3>2. /\ \A m \in NodeIds : nodes[m].attr # new
            /\ \A t \in SlotIds : slots[t].left # new
        BY <2>5, <3>1 DEF SlotIds, TypeOK
      <3>3. CASE s = new
        <4>1. slots'[new].left # new
          BY <2>4, <3>2
        <4>q. QED
          BY <2>2, <2>3, <2>4, <3>2, <3>3, <4>1 DEF SlotOwned
      <3>4. CASE s \in SlotIds
        <4>1. SlotOwned(s) /\ s # new /\ s < new
          BY <3>1, <3>4, <2>2 DEF SlotInv, SlotsOwned
        <4>2. /\ (\E m \in NodeIds : nodes'[m].attr = s)
                 \/ \E t \in SlotIds' : t > s /\ slots'[t].left = s
          BY <2>2, <2>3, <2>4, <3>1, <4>1 DEF SlotOwned, SlotIds, TypeOK
        <4>3. \A l, m \in NodeIds : nodes'[l].attr = s /\ nodes'[m].attr = s => l = m
          BY <2>3, <4>1 DEF SlotOwned
        <4>4. \A t, u \in SlotIds' : slots'[t].left = s /\ slots'[u].left = s => t = u
          BY <2>2, <2>4, <4>1 DEF SlotOwned
        <4>5. ~ \E m \in NodeIds, t \in SlotIds' : nodes'[m].attr = s /\ slots'[t].left = s
          BY <2>2, <2>3, <2>4, <4>1 DEF SlotOwned
        <4>q. QED
          BY <2>2, <4>2, <4>3, <4>4, <4>5 DEF SlotOwned
      <3>q. QED
        BY <2>2, <3>3, <3>4
    <2>q. QED
      BY <2>6, <2>7
  <1>4. CASE SetStep
    <2>1. PICK s \in SlotIds, v \in Values : SetSlot(s, v)
      BY <1>4 DEF SetStep
    <2>2. \A t \in SlotIds : slots'[t].left = slots[t].left
      BY <2>1 DEF SetSlot, TypeOK, Slot
    <2>q. QED
      BY <2>1, <2>2
         DEF SetSlot, RefsBelow, ReadingInv, SlotsOwned, SlotOwned, NodeIds, SlotIds, stack
  <1>5. CASE EndAttrs
    BY <1>5 DEF EndAttrs, RefsBelow, ReadingInv, SlotsOwned, SlotOwned, NodeIds, SlotIds, graph, stack
  <1>6. CASE Abort \/ UNCHANGED vars
    BY <1>6 DEF Abort, vars, RefsBelow, ReadingInv, SlotsOwned, SlotOwned, NodeIds, SlotIds, graph, stack
  <1>q. QED
    BY <1>1, <1>2, <1>3, <1>4, <1>5, <1>6, NextSplit

(* The arrays, the stack and the counters of the parser keep their types   *)
(* whatever documents it reads: also when an element nests as deep as the  *)
(* stack is long, and when a second root is added.                         *)
THEOREM TypeCorrect == Spec => []TypeOK
  <1>1. TypeOK /\ SlotInv /\ [Next]_vars => (TypeOK /\ SlotInv)'
    BY TypeStep, SlotStep DEF SlotInv
  <1>q. QED
    BY InitSlots, <1>1, PTL DEF Spec

(* The lists of attributes go from younger slots to older ones that exist, *)
(* whatever alloc_attr is called for, and so come to an end; and there is  *)
(* a node to read attributes for while they are read.                      *)
THEOREM SlotsLinked == Spec => []SlotInv
  <1>1. TypeOK /\ SlotInv /\ [Next]_vars => (TypeOK /\ SlotInv)'
    BY TypeStep, SlotStep DEF SlotInv
  <1>q. QED
    BY InitSlots, <1>1, PTL DEF Spec

(* alloc_attr gives each slot to one node and one place on its list, and   *)
(* nothing that is read or set later takes it away or shares it.           *)
THEOREM SlotsOwnedAlways == Spec => []SlotsOwned
  <1>1. SlotInv => SlotsOwned
    BY DEF SlotInv
  <1>q. QED
    BY SlotsLinked, <1>1, PTL
-----------------------------------------------------------------------------
(* The tree: well-formed documents. *)

LEMMA InitTree == Init => TreeInv
BY DepthAssumption
   DEF Init, TreeInv, StackInv, OpenInv, LinksAgree, Preorder, NodeIds, Levels

(* What does not touch a node's links or the stack preserves the tree.     *)
LEMMA TreeKept ==
    ASSUME TypeOK, TreeInv,
           node_count' = node_count,
           \A n \in NodeIds : /\ nodes'[n].up = nodes[n].up
                              /\ nodes'[n].left = nodes[n].left
                              /\ nodes'[n].down = nodes[n].down,
           UNCHANGED <<node_stack, node_depth, open>>
    PROVE  TreeInv'
  <1>1. NodeIds' = NodeIds
    BY DEF NodeIds
  <1>2. StackInv'
    BY <1>1 DEF TreeInv, StackInv, TypeOK
  <1>3. OpenInv' /\ Preorder'
    BY <1>1 DEF TreeInv, OpenInv, Preorder
  <1>4. \A n \in NodeIds : Children(n)' = Children(n)
    BY <1>1 DEF Children
  <1>5. \A n \in NodeIds : n # 0 => nodes[n].up \in NodeIds
    <2>1. \A n \in NodeIds : nodes[n].up \in Nat
      BY DEF TypeOK, Node
    <2>q. QED
      BY <2>1 DEF TreeInv, LinksAgree, UpIsOlder, NodeIds, TypeOK
  <1>6. LinksAgree'
    <2>1. \A n \in NodeIds : Elders(n)' = Elders(n)
      BY <1>1, <1>4, <1>5 DEF Elders, Children
    <2>q. QED
      BY <1>1, <1>4, <2>1 DEF TreeInv, LinksAgree, UpIsOlder, DownIsYoungest, LeftIsElder, IsLast
  <1>q. QED
    BY <1>2, <1>3, <1>6 DEF TreeInv

LEMMA TreeAdd ==
    ASSUME WellFormed, TypeOK, TreeInv, AddStep
    PROVE  TreeInv'
  <1> DEFINE new == node_count
  <1>1. PICK t \in Elements : Accepts /\ NodeAdd(t)
    BY DEF AddStep
  <1>2. /\ node_depth + 1 < MaxDepth
        /\ node_depth = 0 => new = 0
        /\ new \in Nat /\ node_depth \in Nat /\ MaxDepth \in Nat
    BY <1>1, DepthAssumption DEF Accepts, WellFormed, TreeInv, StackInv, TypeOK
  <1>3. /\ NodeIds' = NodeIds \union {new}
        /\ \A n \in NodeIds : n \in Nat /\ n < new
    BY <1>1 DEF NodeAdd, NodeIds, TypeOK
  <1>4. /\ node_depth > 0 => Parent \in NodeIds /\ Parent = node_stack[node_depth - 1]
        /\ node_depth = 0 => Parent = new
    BY <1>2 DEF Parent, TreeInv, StackInv, TypeOK
  <1>5. /\ \A n \in NodeIds :
              /\ nodes'[n].up = nodes[n].up
              /\ nodes'[n].left = nodes[n].left
              /\ nodes'[n].down = IF n = Parent THEN new ELSE nodes[n].down
        /\ nodes'[new].up = Parent
        /\ nodes'[new].left = node_stack[node_depth]
        /\ nodes'[new].down = 0
    BY <1>1, <1>2, <1>3, <1>4, LinkedFields DEF NodeAdd
  <1>6. /\ node_depth' = node_depth + 1
        /\ node_stack' = [node_stack EXCEPT ![node_depth] = new]
        /\ open' = open + 1
    BY <1>1 DEF NodeAdd
  <1>7. /\ \A d \in 0..(node_depth - 1) :
              node_stack[d] \in NodeIds /\ node_stack[d] < new
        /\ \A d, e \in 0..(node_depth - 1) : d < e => node_stack[d] < node_stack[e]
        /\ node_depth > 0 => node_depth - 1 \in 0..(node_depth - 1)
    BY <1>2, <1>3 DEF TreeInv, StackInv
  <1>11. StackInv'
    <2>1. /\ node_stack'[node_depth] = new
          /\ \A d \in Levels : d # node_depth => node_stack'[d] = node_stack[d]
          /\ \A d \in 0..node_depth' : d \in Levels
      BY <1>2, <1>6 DEF TypeOK, Levels
    <2>3. open' = node_depth' /\ node_depth' < MaxDepth /\ node_count' # 0
      BY <1>1, <1>2, <1>6 DEF TreeInv, StackInv, NodeAdd, TypeOK
    <2>4. node_stack'[0] = 0
      BY <1>2, <2>1 DEF TreeInv, StackInv, Levels
    <2>5. \A d \in 0..(node_depth' - 1) : node_stack'[d] \in NodeIds'
      BY <1>3, <1>6, <2>1, <1>7 DEF TypeOK
    <2>6. \A d, e \in 0..(node_depth' - 1) : d < e => node_stack'[d] < node_stack'[e]
      BY <1>6, <1>7, <2>1 DEF TypeOK
    <2>7. ASSUME NEW d \in 1..node_depth'
          PROVE  node_stack'[d] = nodes'[node_stack'[d - 1]].down
      <3>1. CASE d = node_depth'
        BY <1>2, <1>5, <1>6, <2>1, <3>1 DEF TreeInv, StackInv, TypeOK, Levels
      <3>2. CASE d = node_depth
        BY <1>4, <1>5, <1>6, <2>1, <3>2 DEF TypeOK
      <3>3. CASE d < node_depth
        <4>1. node_stack[d - 1] \in NodeIds /\ node_stack[d - 1] # Parent
          <5>1. d - 1 \in 0..(node_depth - 1) /\ d - 1 < node_depth - 1 /\ node_depth > 0
            BY <1>2, <1>6, <3>3
          <5>2. node_stack[d - 1] < node_stack[node_depth - 1]
            BY <1>7, <5>1
          <5>q. QED
            BY <1>3, <1>4, <1>7, <5>1, <5>2
        <4>q. QED
          <5>1. d \in Levels /\ d - 1 \in Levels /\ d # node_depth /\ d - 1 # node_depth
            BY <1>2, <1>6, <3>3 DEF Levels
          <5>2. node_stack[d] = nodes[node_stack[d - 1]].down
            BY <1>2, <1>6, <3>3 DEF TreeInv, StackInv
          <5>q. QED
            BY <1>5, <2>1, <4>1, <5>1, <5>2
      <3>q. QED
        BY <1>6, <3>1, <3>2, <3>3 DEF TypeOK
    <2>8. \A d \in Levels : d > node_depth' => node_stack'[d] = 0
      BY <1>6, <2>1 DEF TreeInv, StackInv, TypeOK, Levels
    <2>q. QED
      BY <2>3, <2>4, <2>5, <2>6, <2>7, <2>8 DEF StackInv
  <1>8. OpenInv'
    <2> SUFFICES ASSUME NEW d \in 0..(node_depth' - 1), NEW m \in NodeIds',
                        m > node_stack'[d]
                 PROVE  nodes'[m].up >= node_stack'[d]
      BY DEF OpenInv
    <2>1. CASE d = node_depth
      BY <1>2, <1>3, <1>6, <2>1 DEF TypeOK, Levels
    <2>2. CASE d < node_depth
      <3>1. node_stack'[d] = node_stack[d] /\ d \in 0..(node_depth - 1)
        BY <1>2, <1>6, <2>2 DEF TypeOK, Levels
      <3>2. Parent >= node_stack[d]
        <4>1. Parent = node_stack[node_depth - 1] /\ node_depth - 1 \in 0..(node_depth - 1)
          BY <1>2, <1>4, <1>7, <2>2
        <4>2. CASE d = node_depth - 1
          BY <1>3, <1>7, <4>1, <4>2
        <4>3. CASE d < node_depth - 1
          BY <1>3, <1>7, <3>1, <4>1, <4>3
        <4>q. QED
          BY <1>2, <3>1, <4>2, <4>3
      <3>q. QED
        BY <1>3, <1>5, <3>1, <3>2 DEF TreeInv, OpenInv
    <2>q. QED
      BY <1>6, <2>1, <2>2 DEF TypeOK
  <1>9. LinksAgree'
    <2>1. \A n \in NodeIds' :
              Children(n)' = IF n = Parent /\ new # 0 THEN Children(n) \union {new}
                                                    ELSE Children(n)
      BY <1>3, <1>5 DEF Children
    <2>2. \A n \in NodeIds' : \A c \in Children(n) : c \in NodeIds /\ c < new /\ c > n
      BY <1>2, <1>3 DEF Children, TreeInv, LinksAgree, UpIsOlder
    <2>3. new # 0 => Parent \in NodeIds /\ Parent # new
      BY <1>2, <1>3, <1>4
    <2>4. UpIsOlder'
      <3>1. nodes'[new].up < new \/ new = 0
        BY <1>3, <1>5, <2>3
      <3>q. QED
        BY <1>3, <1>5, <3>1 DEF TreeInv, LinksAgree, UpIsOlder
    <2>5. ASSUME NEW n \in NodeIds'
          PROVE  IsLast(nodes'[n].down, Children(n)')
      <3>1. CASE n = Parent /\ new # 0
        <4>1. nodes'[n].down = new /\ Children(n)' = Children(n) \union {new}
          BY <1>5, <2>1, <2>3, <3>1
        <4>2. \A c \in Children(n) \union {new} : c <= new
          BY <1>2, <1>3, <2>2
        <4>q. QED
          BY <4>1, <4>2 DEF IsLast
      <3>2. CASE ~ (n = Parent /\ new # 0) /\ n \in NodeIds
        <4>1. nodes'[n].down = nodes[n].down
          BY <1>3, <1>5, <3>2
        <4>2. Children(n)' = Children(n)
          BY <2>1, <3>2
        <4>q. QED
          BY <3>2, <4>1, <4>2 DEF TreeInv, LinksAgree, DownIsYoungest
      <3>3. CASE n = new
        <4>0. \A c \in Children(n) : FALSE
          <5>1. ASSUME NEW c \in Children(n) PROVE FALSE
            <6>1. c \in NodeIds /\ c > new
              BY <2>2, <3>3
            <6>q. QED
              BY <1>2, <1>3, <6>1
          <5>q. QED
            BY <5>1
        <4>1. Children(n)' = {}
          BY <2>1, <2>3, <3>3, <4>0
        <4>q. QED
          BY <1>5, <3>3, <4>1 DEF IsLast
      <3>q. QED
        BY <1>3, <3>1, <3>2, <3>3
    <2>6. ASSUME NEW n \in NodeIds'
          PROVE  IsLast(nodes'[n].left, Elders(n)')
      <3>1. CASE n \in NodeIds
        <4>1. Elders(n)' = Elders(n)
          BY <1>2, <1>3, <1>5, <3>1 DEF Elders, Children
        <4>q. QED
          BY <1>5, <3>1, <4>1 DEF TreeInv, LinksAgree, LeftIsElder
      <3>2. CASE n = new /\ new = 0
        <4>1. nodes'[n].left = 0
          BY <1>2, <1>5, <3>2 DEF TreeInv, StackInv
        <4>2. Elders(n)' = {}
          BY <1>3, <3>2 DEF Elders, Children
        <4>q. QED
          BY <4>1, <4>2 DEF IsLast
      <3>3. CASE n = new /\ new # 0
        <4>0. PICK p \in NodeIds : p = Parent
          BY <2>3, <3>3
        <4>1. Elders(n)' = Children(p)
          <5>1. nodes'[n].up = p
            BY <1>5, <3>3, <4>0
          <5>2. Elders(n)' = {c \in Children(p)' : c < new}
            BY <3>3, <5>1 DEF Elders
          <5>3. Children(p)' = Children(p) \union {new}
            BY <1>3, <2>1, <3>3, <4>0
          <5>4. \A c \in Children(p) : c < new
            BY <1>3, <2>2
          <5>q. QED
            BY <1>2, <5>2, <5>3, <5>4
        <4>2. nodes'[n].left = nodes[Parent].down
          BY <1>2, <1>4, <1>5, <3>3 DEF TreeInv, StackInv
        <4>q. QED
          BY <4>0, <4>1, <4>2 DEF TreeInv, LinksAgree, DownIsYoungest
      <3>q. QED
        BY <1>3, <3>1, <3>2, <3>3
    <2>q. QED
      BY <2>4, <2>5, <2>6 DEF LinksAgree, DownIsYoungest, LeftIsElder
  <1>10. Preorder'
    <2> SUFFICES ASSUME NEW m \in NodeIds', NEW n \in NodeIds',
                        0 < m, m < n, nodes'[n].up < m
                 PROVE  nodes'[n].up <= nodes'[m].up
      BY DEF Preorder
    <2>1. m \in NodeIds
      BY <1>2, <1>3
    <2>2. CASE n \in NodeIds
      BY <1>5, <2>1, <2>2 DEF TreeInv, Preorder
    <2>3. CASE n = new
      <3>1. node_depth > 0
        BY <1>2, <1>3, <2>1, <2>3 DEF TypeOK, NodeIds
      <3>q. QED
        BY <1>4, <1>5, <2>1, <2>3, <3>1 DEF TreeInv, OpenInv, TypeOK
    <2>q. QED
      BY <1>3, <2>2, <2>3
  <1>q. QED
    BY <1>8, <1>9, <1>10, <1>11 DEF TreeInv

LEMMA TreePop ==
    ASSUME WellFormed, TypeOK, TreeInv, PopStep
    PROVE  TreeInv'
  <1>1. /\ node_depth \in Nat \ {0}
        /\ MaxDepth \in Nat
        /\ node_depth < MaxDepth
        /\ UNCHANGED <<node_count, nodes>>
        /\ node_stack' = [node_stack EXCEPT ![node_depth] = 0]
        /\ node_depth' = node_depth - 1
        /\ open' = open - 1
    BY DepthAssumption DEF PopStep, StackPop, TreeInv, StackInv, TypeOK, graph
  <1>2. /\ node_stack'[node_depth] = 0
        /\ \A d \in Levels : d # node_depth => node_stack'[d] = node_stack[d]
        /\ \A d \in 0..node_depth : d \in Levels
    BY <1>1 DEF TypeOK, Levels
  <1>3. NodeIds' = NodeIds
    BY <1>1 DEF NodeIds
  <1>4. \A d \in 0..node_depth' : d # node_depth /\ d \in Levels
    BY <1>1 DEF Levels
  <1>5. StackInv'
    <2>1. \A d \in 1..node_depth' :
              node_stack'[d] = nodes'[node_stack'[d - 1]].down
      <3>1. \A d \in 1..node_depth' :
                d \in 0..node_depth' /\ d - 1 \in 0..node_depth' /\ d \in 1..node_depth
        BY <1>1
      <3>q. QED
        BY <1>1, <1>2, <1>4, <3>1 DEF TreeInv, StackInv
    <2>2. \A d \in Levels : d > node_depth' => node_stack'[d] = 0
      BY <1>1, <1>2 DEF TreeInv, StackInv, Levels
    <2>3. \A d \in 0..(node_depth' - 1) : node_stack'[d] \in NodeIds'
      BY <1>1, <1>2, <1>3, <1>4 DEF TreeInv, StackInv
    <2>4. \A d, e \in 0..(node_depth' - 1) : d < e => node_stack'[d] < node_stack'[e]
      BY <1>1, <1>2, <1>4 DEF TreeInv, StackInv
    <2>5. open' = node_depth' /\ node_depth' < MaxDepth /\ node_stack'[0] = 0
      BY <1>1, <1>2 DEF TreeInv, StackInv, Levels
    <2>6. node_count' = 0 => node_depth' = 0
      BY <1>1 DEF TreeInv, StackInv
    <2>q. QED
      BY <2>1, <2>2, <2>3, <2>4, <2>5, <2>6 DEF StackInv
  <1>6. OpenInv'
    BY <1>1, <1>2, <1>3, <1>4 DEF TreeInv, OpenInv
  <1>7. LinksAgree' /\ Preorder'
    BY <1>1, <1>3
       DEF TreeInv, LinksAgree, UpIsOlder, DownIsYoungest, LeftIsElder, Preorder,
           Children, Elders, IsLast
  <1>q. QED
    BY <1>5, <1>6, <1>7 DEF TreeInv

LEMMA TreeStep ==
    ASSUME WellFormed, TypeOK, SlotInv, TreeInv, [Next]_vars
    PROVE  TreeInv'
  <1>1. CASE AllocStep
    <2>1. PICK n \in NodeIds, a \in Attrs, v \in Values : AllocAttr(n, a, v)
      BY <1>1 DEF AllocStep
    <2>2. \A m \in NodeIds : /\ nodes'[m].up = nodes[m].up
                             /\ nodes'[m].left = nodes[m].left
                             /\ nodes'[m].down = nodes[m].down
      BY <2>1 DEF AllocAttr, TypeOK, Node
    <2>q. QED
      BY <2>1, <2>2, TreeKept DEF AllocAttr, stack
  <1>2. CASE SetStep \/ EndAttrs \/ Abort \/ UNCHANGED vars
    BY <1>2, TreeKept DEF SetStep, SetSlot, EndAttrs, Abort, vars, graph, stack
  <1>q. QED
    BY <1>1, <1>2, TreeAdd, TreePop, NextSplit DEF SlotInv

(* The stack of the parser holds the elements that are open, outermost     *)
(* first, and everything that was started after one of them is below it,   *)
(* after any sequence of musvg_node_add and musvg_stack_pop.               *)
THEOREM TreeAlways == WellFormed /\ Spec => []TreeInv
  <1> SUFFICES ASSUME WellFormed PROVE Spec => []TreeInv
    OBVIOUS
  <1>1. TypeOK /\ SlotInv /\ TreeInv /\ [Next]_vars => (TypeOK /\ SlotInv /\ TreeInv)'
    BY TypeStep, SlotStep, TreeStep DEF SlotInv
  <1>q. QED
    BY InitSlots, InitTree, <1>1, PTL DEF Spec

(* Whatever a well-formed document holds and however deep it nests within  *)
(* the stack, `up', `left' and `down' describe one tree: musvg_node_add    *)
(* puts each element after its elder siblings and below the element that   *)
(* is open.                                                                *)
THEOREM TreeLinked == WellFormed /\ Spec => []LinksAgree
  <1>1. TreeInv => LinksAgree
    BY DEF TreeInv
  <1>q. QED
    BY TreeAlways, <1>1, PTL

(* The nodes of a well-formed document are numbered in document order: an  *)
(* element that has been left is never added to again.                     *)
THEOREM TreeOrdered == WellFormed /\ Spec => []Preorder
  <1>1. TreeInv => Preorder
    BY DEF TreeInv
  <1>q. QED
    BY TreeAlways, <1>1, PTL

-----------------------------------------------------------------------------
(* Lists of slots *)

IsList(list, slot, count) ==
    list = [s \in 0..(count - 1) |->
               IF s = 0 THEN <<>> ELSE Append(list[slot[s].left], s)]

LEMMA ListExists ==
    ASSUME NEW count \in Nat \ {0}, NEW slot,
           \A s \in 1..(count - 1) : slot[s].left \in Nat /\ slot[s].left < s
    PROVE  \E list \in [0..(count - 1) -> Seq(1..(count - 1))] :
              IsList(list, slot, count)
<1> DEFINE c == count - 1
           V == Seq(1..c)
           left == [s \in 1..c |-> slot[s].left]
           G == [s \in 1..c |-> [x \in V |-> Append(x, s)]]
<1>1. IsChain(c, left, V, <<>>, G)
  BY DEF IsChain
<1>2. PICK f : Follows(f, c, left, V, <<>>, G)
  <2> HIDE DEF c, V, left, G
  <2> QED
    BY <1>1, ChainRecursion
<1>3. /\ f \in [0..c -> V]
      /\ \A s \in 0..c : f[s] = IF s = 0 THEN <<>> ELSE G[s][f[left[s]]]
  BY <1>2 DEF Follows
<1>4. \A s \in 1..c : left[s] \in 0..c /\ G[s][f[left[s]]] = Append(f[slot[s].left], s)
  BY <1>3
<1>5. \A s \in 0..c : f[s] = IF s = 0 THEN <<>> ELSE Append(f[slot[s].left], s)
  <2> SUFFICES ASSUME NEW s \in 0..c
               PROVE  f[s] = IF s = 0 THEN <<>> ELSE Append(f[slot[s].left], s)
    OBVIOUS
  <2> HIDE DEF G, left, V
  <2>1. CASE s = 0
    BY <1>3, <2>1
  <2>2. CASE s \in 1..c
    BY <1>3, <1>4, <2>2
  <2> QED
    BY <2>1, <2>2
<1>6. f = [s \in 0..c |-> f[s]]
  BY <1>3
<1>7. f = [s \in 0..c |-> IF s = 0 THEN <<>> ELSE Append(f[slot[s].left], s)]
  BY <1>5, <1>6
<1>8. f \in [0..(count - 1) -> Seq(1..(count - 1))] /\ IsList(f, slot, count)
  BY <1>3, <1>7 DEF IsList
<1> QED
  BY <1>8

LEMMA ListUnique ==
    ASSUME NEW count \in Nat \ {0}, NEW slot,
           \A s \in 1..(count - 1) : slot[s].left \in Nat /\ slot[s].left < s,
           NEW f, NEW g, IsList(f, slot, count), IsList(g, slot, count)
    PROVE  f = g
<1> DEFINE Bad == {s \in 0..(count - 1) : f[s] # g[s]}
<1>1. ASSUME Bad # {} PROVE FALSE
  <2>1. Bad \in SUBSET Nat
    OBVIOUS
  <2>2. PICK s \in Bad : \A t \in Bad : s <= t
    <3> HIDE DEF Bad
    <3> QED
      BY <1>1, <2>1, LeastNatural
  <2>3. s # 0
    BY DEF IsList
  <2>4. slot[s].left \in 0..(count - 1) /\ slot[s].left < s
    BY <2>3
  <2>5. f[slot[s].left] = g[slot[s].left]
    BY <2>2, <2>4
  <2> QED
    BY <2>3, <2>4, <2>5, ZenonT(40) DEF IsList
<1>2. f = [s \in 0..(count - 1) |-> f[s]] /\ g = [s \in 0..(count - 1) |-> g[s]]
  BY DEF IsList
<1>3. \A s \in 0..(count - 1) : f[s] = g[s]
  BY <1>1
<1> QED
  BY <1>2, <1>3

SlotListRec ==
    /\ IsList(SlotList, slots, slot_count)
    /\ SlotList \in [0..(slot_count - 1) -> Seq(SlotIds)]

LEMMA SlotListFound == TypeOK /\ RefsBelow => SlotListRec
<1> SUFFICES ASSUME TypeOK, RefsBelow PROVE SlotListRec
  OBVIOUS
<1>1. slot_count \in Nat \ {0}
  BY DEF TypeOK
<1>2. \A s \in 1..(slot_count - 1) : slots[s].left \in Nat /\ slots[s].left < s
  BY DEF TypeOK, RefsBelow, SlotIds, Slot
<1>3. PICK list \in [0..(slot_count - 1) -> Seq(SlotIds)] :
          IsList(list, slots, slot_count)
  BY <1>1, <1>2, ListExists DEF SlotIds
<1>4. SlotList = CHOOSE l : IsList(l, slots, slot_count)
  BY DEF SlotList, IsList
<1>5. IsList(SlotList, slots, slot_count)
  BY <1>3, <1>4
<1>6. SlotList = list
  BY <1>1, <1>2, <1>3, <1>5, ListUnique
<1> QED
  BY <1>5, <1>6 DEF SlotListRec

(* The search of find_attr *)

IsFind(find, a) ==
    find = [s \in 0..(slot_count - 1) |->
               IF s = 0 \/ slots[s].type = a THEN s ELSE find[slots[s].left]]

LEMMA FindExists ==
    ASSUME TypeOK, RefsBelow, NEW a
    PROVE  \E find : IsFind(find, a)
<1> DEFINE c == slot_count - 1
           V == 0..c
           left == [s \in 1..c |-> slots[s].left]
           G == [s \in 1..c |-> [x \in V |-> IF slots[s].type = a THEN s ELSE x]]
<1>0. c \in Nat /\ \A s \in 1..c : slots[s].left \in Nat /\ slots[s].left < s
  BY DEF TypeOK, RefsBelow, SlotIds, Slot
<1>1. IsChain(c, left, V, 0, G)
  BY <1>0 DEF IsChain
<1>2. PICK f : Follows(f, c, left, V, 0, G)
  <2> HIDE DEF c, V, left, G
  <2> QED
    BY <1>1, ChainRecursion
<1>3. /\ f \in [0..c -> V]
      /\ \A s \in 0..c : f[s] = IF s = 0 THEN 0 ELSE G[s][f[left[s]]]
  BY <1>2 DEF Follows
<1>4. \A s \in 1..c : G[s][f[left[s]]] = IF slots[s].type = a THEN s ELSE f[slots[s].left]
  BY <1>0, <1>3
<1>5. \A s \in 0..c : f[s] = IF s = 0 \/ slots[s].type = a THEN s ELSE f[slots[s].left]
  <2> SUFFICES ASSUME NEW s \in 0..c
               PROVE  f[s] = IF s = 0 \/ slots[s].type = a THEN s ELSE f[slots[s].left]
    OBVIOUS
  <2> HIDE DEF G, left, V
  <2>1. CASE s = 0
    BY <1>3, <2>1
  <2>2. CASE s \in 1..c
    BY <1>3, <1>4, <2>2
  <2> QED
    BY <1>0, <2>1, <2>2
<1>6. f = [s \in 0..c |-> f[s]]
  BY <1>3
<1>7. f = [s \in 0..c |-> IF s = 0 \/ slots[s].type = a THEN s ELSE f[slots[s].left]]
  BY <1>5, <1>6
<1> QED
  BY <1>7 DEF IsFind

(* find_attr finds an attribute that is on the list of a node, and no      *)
(* other: 0 if there is none of that type, else a slot of the list.        *)
LEMMA FindOnList ==
    ASSUME TypeOK, RefsBelow, NEW n \in NodeIds, NEW a
    PROVE  /\ FindAttr(n, a) = 0 =>
                \A i \in DOMAIN AttrSlots(n) : slots[AttrSlots(n)[i]].type # a
           /\ FindAttr(n, a) # 0 =>
                \E i \in DOMAIN AttrSlots(n) :
                    AttrSlots(n)[i] = FindAttr(n, a) /\ slots[AttrSlots(n)[i]].type = a
<1> DEFINE c == slot_count - 1
           find == CHOOSE f : IsFind(f, a)
           Right(s) ==
              /\ find[s] = 0 =>
                   \A i \in DOMAIN SlotList[s] : slots[SlotList[s][i]].type # a
              /\ find[s] # 0 =>
                   \E i \in DOMAIN SlotList[s] :
                       SlotList[s][i] = find[s] /\ slots[SlotList[s][i]].type = a
           Wrong == {s \in 0..c : ~ Right(s)}
<1>0. c \in Nat /\ \A s \in 1..c : slots[s].left \in Nat /\ slots[s].left < s
  BY DEF TypeOK, RefsBelow, SlotIds, Slot
<1>1. IsFind(find, a)
  BY FindExists
<1>2. FindAttr(n, a) = find[nodes[n].attr]
  BY DEF FindAttr, IsFind
<1>3. SlotListRec
  BY SlotListFound
<1>4. /\ \A s \in 0..c :
            find[s] = IF s = 0 \/ slots[s].type = a THEN s ELSE find[slots[s].left]
      /\ \A s \in 0..c :
            SlotList[s] = IF s = 0 THEN <<>> ELSE Append(SlotList[slots[s].left], s)
      /\ \A s \in 0..c : SlotList[s] \in Seq(SlotIds)
  <2> HIDE DEF find
  <2>1. find = [s \in 0..c |-> IF s = 0 \/ slots[s].type = a THEN s ELSE find[slots[s].left]]
    BY <1>1 DEF IsFind
  <2>2. SlotList = [s \in 0..c |-> IF s = 0 THEN <<>> ELSE Append(SlotList[slots[s].left], s)]
    BY <1>3 DEF SlotListRec, IsList
  <2>3. \A s \in 0..c : SlotList[s] \in Seq(SlotIds)
    BY <1>3 DEF SlotListRec
  <2> QED
    BY <2>1, <2>2, <2>3
<1>5. Wrong = {}
  <2> SUFFICES ASSUME Wrong # {} PROVE FALSE
    OBVIOUS
  <2>1. PICK s \in Wrong : \A t \in Wrong : s <= t
    <3>1. Wrong \in SUBSET Nat
      BY <1>0
    <3> HIDE DEF Wrong
    <3> QED
      BY <3>1, LeastNatural
  <2> HIDE DEF find
  <2>2. CASE s = 0
    <3>1. find[0] = 0 /\ SlotList[0] = <<>>
      BY <1>0, <1>4
    <3> QED
      BY <2>1, <2>2, <3>1
  <2>3. CASE s \in 1..c
    <3> DEFINE t == slots[s].left
    <3>1. t \in 0..c /\ t < s /\ Right(t)
      <4>1. t \in 0..c /\ t < s
        BY <1>0, <2>3
      <4>2. t \notin Wrong
        BY <2>1, <4>1
      <4> QED
        BY <4>1, <4>2
    <3>2. /\ SlotList[t] \in Seq(SlotIds)
          /\ SlotList[s] = Append(SlotList[t], s)
          /\ find[s] = IF slots[s].type = a THEN s ELSE find[t]
      <4> HIDE DEF Right, Wrong
      <4>1. s \in 0..c /\ s # 0 /\ t \in 0..c
        BY <2>3, <3>1
      <4>2. SlotList[t] \in Seq(SlotIds)
        BY <1>4, <4>1
      <4>3. SlotList[s] = Append(SlotList[t], s)
        BY <1>4, <4>1
      <4>4. find[s] = IF slots[s].type = a THEN s ELSE find[t]
        BY <1>4, <4>1
      <4> QED
        BY <4>2, <4>3, <4>4
    <3> HIDE DEF t
    <3>3. /\ DOMAIN SlotList[s] = DOMAIN SlotList[t] \union {Len(SlotList[t]) + 1}
          /\ \A i \in DOMAIN SlotList[t] : SlotList[s][i] = SlotList[t][i]
          /\ SlotList[s][Len(SlotList[t]) + 1] = s
      BY <3>2
    <3>4. Right(s)
      <4>1. CASE slots[s].type = a
        BY <2>3, <3>2, <3>3, <4>1
      <4>2. CASE slots[s].type # a
        BY <3>1, <3>2, <3>3, <4>2
      <4> QED
        BY <4>1, <4>2
    <3> QED
      BY <2>1, <3>4
  <2> QED
    BY <1>0, <2>1, <2>2, <2>3
<1>6. nodes[n].attr \in 0..c
  BY DEF TypeOK, RefsBelow, Node
<1>7. Right(nodes[n].attr)
  BY <1>5, <1>6
<1> QED
  <2> HIDE DEF find
  <2> QED
    BY <1>2, <1>7 DEF AttrSlots

-----------------------------------------------------------------------------
(* What the steps do to the lists *)

(* A new attribute, for a node that has none of its type.                  *)
NewStep ==
    \E n \in NodeIds, a \in Attrs, v \in Values :
        ~aborted /\ FindAttr(n, a) = 0 /\ AllocAttr(n, a, v)

(* A value for an attribute that the node has.                             *)
OldStep ==
    \E n \in NodeIds, a \in Attrs, v \in Values, s \in SlotIds :
        ~aborted /\ s = FindAttr(n, a) /\ SetSlot(s, v)

AbortStep ==
    ~aborted /\ ~reading /\ (node_depth = 0 \/ node_depth = MaxDepth) /\ Abort

LEMMA NextWrites ==
    ASSUME TypeOK, ReadingInv, reading => ~aborted, [Next]_vars
    PROVE  \/ AddStep
           \/ PopStep
           \/ NewStep
           \/ OldStep
           \/ EndAttrs
           \/ AbortStep
           \/ UNCHANGED vars
<1>1. CASE \E t \in Elements : StartElement(t)
  BY <1>1 DEF StartElement, AddStep, AbortStep
<1>2. CASE EndElement
  BY <1>2 DEF EndElement, PopStep, AbortStep
<1>3. CASE \E a \in Attrs, v \in Values : ReadAttr(a, v)
  <2>1. PICK a \in Attrs, v \in Values : ReadAttr(a, v)
    BY <1>3
  <2>2. node_count - 1 \in NodeIds /\ ~aborted
    BY <2>1 DEF ReadAttr, ReadingInv, TypeOK, NodeIds
  <2> QED
    BY <2>1, <2>2 DEF ReadAttr, WriteAttr, NewStep, OldStep
<1>4. CASE \E n \in NodeIds, a \in Attrs, v \in Values : AttrValueSet(n, a, v)
  BY <1>4 DEF AttrValueSet, OldStep
<1>5. CASE \E n \in NodeIds, a \in Attrs : AttrValueGet(n, a)
  BY <1>5 DEF AttrValueGet, NewStep
<1> QED
  BY <1>1, <1>2, <1>3, <1>4, <1>5 DEF Next

(* Lists are the same where the slots and their `left' are.                *)
LEMMA ListsKept ==
    ASSUME TypeOK, RefsBelow, TypeOK', RefsBelow', slot_count' = slot_count,
           \A s \in SlotIds : slots'[s].left = slots[s].left
    PROVE  SlotList' = SlotList
<1>1. SlotListRec /\ SlotListRec'
  BY SlotListFound, PTL
<1>2. slot_count \in Nat \ {0}
  BY DEF TypeOK
<1>3. \A s \in 1..(slot_count - 1) : slots[s].left \in Nat /\ slots[s].left < s
  BY DEF TypeOK, RefsBelow, SlotIds, Slot
<1>4. IsList(SlotList, slots, slot_count)
  BY <1>1 DEF SlotListRec
<1>5. IsList(SlotList', slots, slot_count)
  <2> DEFINE list == SlotList'
             c == slot_count - 1
  <2>1. list = [s \in 0..c |-> IF s = 0 THEN <<>> ELSE Append(list[slots'[s].left], s)]
    BY <1>1 DEF SlotListRec, IsList
  <2> HIDE DEF list
  <2>2. \A s \in 0..c : s # 0 => slots'[s].left = slots[s].left
    BY <1>2 DEF SlotIds
  <2>3. list = [s \in 0..c |-> IF s = 0 THEN <<>> ELSE Append(list[slots[s].left], s)]
    BY <2>1, <2>2
  <2> QED
    BY <2>3 DEF IsList, list
<1> QED
  BY <1>2, <1>3, <1>4, <1>5, ListUnique

LEMMA ListsAlloc ==
    ASSUME TypeOK, RefsBelow, TypeOK', RefsBelow',
           NEW n \in NodeIds, NEW a \in Attrs, NEW v \in Values, AllocAttr(n, a, v)
    PROVE  /\ \A s \in 0..(slot_count - 1) : SlotList'[s] = SlotList[s]
           /\ SlotList'[slot_count] = Append(SlotList[nodes[n].attr], slot_count)
<1> DEFINE c == slot_count
           cut == [s \in 0..(c - 1) |-> SlotList'[s]]
<1>1. SlotListRec /\ SlotListRec'
  BY SlotListFound, PTL
<1>2. c \in Nat \ {0} /\ slot_count' = c + 1
  BY DEF TypeOK, AllocAttr
<1>3. \A s \in 1..(c - 1) : slots[s].left \in 0..(c - 1) /\ slots[s].left < s
  BY DEF TypeOK, RefsBelow, SlotIds, Slot
<1>4. /\ \A s \in 1..(c - 1) : slots'[s].left = slots[s].left
      /\ slots'[c].left = nodes[n].attr
  BY <1>2 DEF AllocAttr, TypeOK
<1>5. \A s \in 0..c :
          SlotList'[s] = IF s = 0 THEN <<>> ELSE Append(SlotList'[slots'[s].left], s)
  <2> DEFINE list == SlotList'
  <2>0. 0..(slot_count' - 1) = 0..c
    BY <1>2
  <2>1. list = [s \in 0..c |-> IF s = 0 THEN <<>> ELSE Append(list[slots'[s].left], s)]
    BY <1>1, <2>0 DEF SlotListRec, IsList
  <2> HIDE DEF list, c
  <2>2. \A s \in 0..c : list[s] = IF s = 0 THEN <<>> ELSE Append(list[slots'[s].left], s)
    BY <2>1
  <2> QED
    BY <2>2 DEF list
<1>6. IsList(cut, slots, c)
  <2>1. \A s \in 1..(c - 1) : cut[slots[s].left] = SlotList'[slots'[s].left]
    BY <1>3, <1>4
  <2>2. \A s \in 0..(c - 1) :
            cut[s] = IF s = 0 THEN <<>> ELSE Append(cut[slots[s].left], s)
    <3> SUFFICES ASSUME NEW s \in 0..(c - 1)
                 PROVE  cut[s] = IF s = 0 THEN <<>> ELSE Append(cut[slots[s].left], s)
      OBVIOUS
    <3>1. cut[s] = SlotList'[s] /\ s \in 0..c
      BY <1>2
    <3> HIDE DEF cut
    <3>2. CASE s = 0
      BY <1>5, <3>1, <3>2
    <3>3. CASE s \in 1..(c - 1)
      BY <1>5, <2>1, <3>1, <3>3
    <3> QED
      BY <1>2, <3>2, <3>3
  <2>3. cut = [s \in 0..(c - 1) |-> cut[s]]
    OBVIOUS
  <2> HIDE DEF cut
  <2>4. cut = [s \in 0..(c - 1) |-> IF s = 0 THEN <<>> ELSE Append(cut[slots[s].left], s)]
    BY <2>2, <2>3
  <2> QED
    BY <2>4 DEF IsList
<1>7. cut = SlotList
  <2>1. \A s \in 1..(c - 1) : slots[s].left \in Nat /\ slots[s].left < s
    BY <1>3
  <2> HIDE DEF cut
  <2> QED
    BY <1>1, <1>2, <1>6, <2>1, ListUnique DEF SlotListRec
<1>8. \A s \in 0..(c - 1) : SlotList'[s] = SlotList[s]
  BY <1>7
<1>9. nodes[n].attr \in 0..(c - 1)
  BY DEF TypeOK, RefsBelow, Node
<1>10. SlotList'[c] = Append(SlotList[nodes[n].attr], c)
  <2>1. c \in 0..c /\ c # 0
    BY <1>2
  <2>2. SlotList'[c] = Append(SlotList'[slots'[c].left], c)
    BY <1>5, <2>1
  <2> QED
    BY <1>4, <1>8, <1>9, <2>2
<1> QED
  BY <1>8, <1>10

(* The lists are sequences of slots that exist.                            *)
LEMMA AttrSlotsType ==
    ASSUME TypeOK, RefsBelow, NEW n \in NodeIds
    PROVE  AttrSlots(n) \in Seq(SlotIds)
<1>1. nodes[n].attr \in 0..(slot_count - 1)
  BY DEF TypeOK, RefsBelow, Node
<1> QED
  BY <1>1, SlotListFound DEF AttrSlots, SlotListRec

(* A step that gives no node a slot, and no slot another type, leaves each *)
(* attribute once.                                                         *)
LEMMA AttrsKept ==
    ASSUME TypeOK, RefsBelow, AttrsUnique, ListsApart, SlotList' = SlotList,
           TypeOK', RefsBelow',
           \A s \in SlotIds : slots'[s].type = slots[s].type,
           \A n \in NodeIds' : \/ nodes'[n].attr = 0
                               \/ n \in NodeIds /\ nodes'[n].attr = nodes[n].attr
    PROVE  AttrsUnique' /\ ListsApart'
<1>1. SlotList[0] = <<>>
  <2>1. IsList(SlotList, slots, slot_count) /\ 0 \in 0..(slot_count - 1)
    BY SlotListFound DEF SlotListRec, TypeOK
  <2> QED
    BY <2>1 DEF IsList
<1>2. \A n \in NodeIds' : \/ AttrSlots(n)' = <<>>
                          \/ n \in NodeIds /\ AttrSlots(n)' = AttrSlots(n)
  BY <1>1 DEF AttrSlots
<1>3. \A n \in NodeIds : \A i \in DOMAIN AttrSlots(n) : AttrSlots(n)[i] \in SlotIds
  BY AttrSlotsType
<1>4. AttrsUnique'
  <2> SUFFICES ASSUME NEW n \in NodeIds',
                      NEW i \in DOMAIN AttrSlots(n)', NEW j \in DOMAIN AttrSlots(n)',
                      slots'[AttrSlots(n)'[i]].type = slots'[AttrSlots(n)'[j]].type
               PROVE  i = j
    BY DEF AttrsUnique
  <2>1. n \in NodeIds /\ AttrSlots(n)' = AttrSlots(n)
    BY <1>2
  <2>2. slots[AttrSlots(n)[i]].type = slots[AttrSlots(n)[j]].type
    BY <1>3, <2>1
  <2> QED
    BY <2>1, <2>2 DEF AttrsUnique
<1>5. ListsApart'
  <2> SUFFICES ASSUME NEW m \in NodeIds', NEW n \in NodeIds',
                      NEW i \in DOMAIN AttrSlots(m)', NEW j \in DOMAIN AttrSlots(n)',
                      AttrSlots(m)'[i] = AttrSlots(n)'[j]
               PROVE  m = n
    BY DEF ListsApart
  <2>1. m \in NodeIds /\ AttrSlots(m)' = AttrSlots(m)
    BY <1>2
  <2>2. n \in NodeIds /\ AttrSlots(n)' = AttrSlots(n)
    BY <1>2
  <2> QED
    BY <2>1, <2>2 DEF ListsApart
<1> QED
  BY <1>4, <1>5

(* What alloc_attr does to the list of its node, and to the others.        *)
LEMMA AllocLists ==
    ASSUME TypeOK, RefsBelow, TypeOK', RefsBelow',
           NEW n \in NodeIds, NEW a \in Attrs, NEW v \in Values, AllocAttr(n, a, v)
    PROVE  /\ NodeIds' = NodeIds
           /\ AttrSlots(n)' = Append(AttrSlots(n), slot_count)
           /\ \A m \in NodeIds : m # n => AttrSlots(m)' = AttrSlots(m)
           /\ \A s \in SlotIds : slots'[s] = slots[s]
           /\ slots'[slot_count] = [type |-> a, left |-> nodes[n].attr, value |-> v]
           /\ slot_count \notin SlotIds
<1>1. /\ nodes'[n].attr = slot_count
      /\ \A m \in NodeIds : m # n => nodes'[m].attr = nodes[m].attr
  BY DEF AllocAttr, TypeOK, Node
<1>2. \A m \in NodeIds : nodes[m].attr \in 0..(slot_count - 1)
  BY DEF TypeOK, RefsBelow, Node
<1>3. /\ NodeIds' = NodeIds
      /\ \A s \in SlotIds : slots'[s] = slots[s]
      /\ slots'[slot_count] = [type |-> a, left |-> nodes[n].attr, value |-> v]
      /\ slot_count \notin SlotIds
  BY DEF AllocAttr, NodeIds, SlotIds, TypeOK
<1> QED
  BY <1>1, <1>2, <1>3, ListsAlloc DEF AttrSlots

LEMMA AttrsNew ==
    ASSUME TypeOK, RefsBelow, TypeOK', RefsBelow', AttrsUnique, ListsApart, NewStep
    PROVE  AttrsUnique' /\ ListsApart'
<1>1. PICK n \in NodeIds, a \in Attrs, v \in Values :
          FindAttr(n, a) = 0 /\ AllocAttr(n, a, v)
  BY DEF NewStep
<1> DEFINE new == slot_count
           old(m) == AttrSlots(m)
<1>2. /\ NodeIds' = NodeIds
      /\ AttrSlots(n)' = Append(old(n), new)
      /\ \A m \in NodeIds : m # n => AttrSlots(m)' = old(m)
      /\ \A s \in SlotIds : slots'[s] = slots[s]
      /\ slots'[new].type = a
      /\ new \notin SlotIds
  <2>1. slots'[new] = [type |-> a, left |-> nodes[n].attr, value |-> v]
    BY <1>1, AllocLists
  <2>2. /\ NodeIds' = NodeIds
        /\ AttrSlots(n)' = Append(AttrSlots(n), slot_count)
        /\ \A m \in NodeIds : m # n => AttrSlots(m)' = AttrSlots(m)
        /\ \A s \in SlotIds : slots'[s] = slots[s]
        /\ slot_count \notin SlotIds
    BY <1>1, AllocLists
  <2> QED
    BY <2>1, <2>2
<1>3. /\ \A m \in NodeIds : old(m) \in Seq(SlotIds)
      /\ \A m \in NodeIds : \A i \in DOMAIN old(m) : old(m)[i] \in SlotIds
  BY AttrSlotsType
<1>4. /\ Len(old(n)) \in Nat
      /\ DOMAIN AttrSlots(n)' = DOMAIN old(n) \union {Len(old(n)) + 1}
      /\ Len(old(n)) + 1 \notin DOMAIN old(n)
      /\ \A i \in DOMAIN old(n) : AttrSlots(n)'[i] = old(n)[i]
      /\ AttrSlots(n)'[Len(old(n)) + 1] = new
  <2>1. old(n) \in Seq(SlotIds)
    BY <1>3
  <2> HIDE DEF old
  <2> QED
    BY <1>2, <2>1
<1>5. \A i \in DOMAIN old(n) : slots[old(n)[i]].type # a
  BY <1>1, FindOnList
<1> HIDE DEF old
<1>6. AttrsUnique'
  <2> SUFFICES ASSUME NEW m \in NodeIds,
                      NEW i \in DOMAIN AttrSlots(m)', NEW j \in DOMAIN AttrSlots(m)',
                      slots'[AttrSlots(m)'[i]].type = slots'[AttrSlots(m)'[j]].type
               PROVE  i = j
    BY <1>2 DEF AttrsUnique
  <2>0. \A k, l \in DOMAIN old(m) : slots[old(m)[k]].type = slots[old(m)[l]].type => k = l
    BY DEF AttrsUnique, old
  <2>1. CASE m # n
    BY <1>2, <1>3, <2>0, <2>1
  <2>2. CASE m = n /\ i \in DOMAIN old(n) /\ j \in DOMAIN old(n)
    BY <1>2, <1>3, <1>4, <2>0, <2>2
  <2>3. CASE m = n /\ i \in DOMAIN old(n) /\ j \notin DOMAIN old(n)
    BY <1>2, <1>3, <1>4, <1>5, <2>3
  <2>4. CASE m = n /\ i \notin DOMAIN old(n) /\ j \in DOMAIN old(n)
    BY <1>2, <1>3, <1>4, <1>5, <2>4
  <2>5. CASE m = n /\ i \notin DOMAIN old(n) /\ j \notin DOMAIN old(n)
    BY <1>4, <2>5
  <2> QED
    BY <2>1, <2>2, <2>3, <2>4, <2>5
<1>7. ListsApart'
  <2> SUFFICES ASSUME NEW l \in NodeIds, NEW m \in NodeIds,
                      NEW i \in DOMAIN AttrSlots(l)', NEW j \in DOMAIN AttrSlots(m)',
                      AttrSlots(l)'[i] = AttrSlots(m)'[j]
               PROVE  l = m
    BY <1>2 DEF ListsApart
  <2>1. /\ l # n => i \in DOMAIN old(l) /\ AttrSlots(l)'[i] = old(l)[i]
        /\ m # n => j \in DOMAIN old(m) /\ AttrSlots(m)'[j] = old(m)[j]
    BY <1>2
  <2>2. \A p, q \in NodeIds : \A x \in DOMAIN old(p), y \in DOMAIN old(q) :
            old(p)[x] = old(q)[y] => p = q
    BY DEF ListsApart, old
  <2>3. CASE l # n /\ m # n
    BY <2>1, <2>2, <2>3
  <2>4. CASE l = n /\ m # n
    BY <1>2, <1>3, <1>4, <2>1, <2>2, <2>4
  <2>5. CASE l # n /\ m = n
    BY <1>2, <1>3, <1>4, <2>1, <2>2, <2>5
  <2> QED
    BY <2>3, <2>4, <2>5
<1> QED
  BY <1>6, <1>7

LEMMA AttrStep ==
    ASSUME TypeOK, SlotInv, TypeOK', SlotInv', AttrInv, [Next]_vars
    PROVE  AttrInv'
<1> USE DEF SlotInv, AttrInv
<1>1. CASE AddStep
  <2>1. PICK t \in Elements : ~aborted /\ NodeAdd(t)
    BY <1>1 DEF AddStep
  <2>2. /\ \A n \in NodeIds : nodes'[n].attr = nodes[n].attr
        /\ nodes'[node_count].attr = 0
    BY <2>1, LinkedFields DEF NodeAdd
  <2>3. NodeIds' = NodeIds \union {node_count}
    BY <2>1 DEF NodeAdd, NodeIds, TypeOK
  <2>4. slots' = slots /\ slot_count' = slot_count /\ ~aborted'
    BY <2>1 DEF NodeAdd
  <2>5. SlotList' = SlotList
    BY <2>4, ListsKept
  <2>6. AttrsUnique' /\ ListsApart'
    <3>1. \A n \in NodeIds' : \/ nodes'[n].attr = 0
                              \/ n \in NodeIds /\ nodes'[n].attr = nodes[n].attr
      BY <2>2, <2>3
    <3>2. \A s \in SlotIds : slots'[s].type = slots[s].type
      BY <2>4
    <3> QED
      BY <2>5, <3>1, <3>2, AttrsKept
  <2> QED
    BY <2>4, <2>6
<1>2. CASE PopStep \/ EndAttrs \/ AbortStep \/ UNCHANGED vars
  <2>1. /\ UNCHANGED graph
        /\ reading' => reading
        /\ aborted' # aborted => ~reading
    BY <1>2 DEF PopStep, StackPop, EndAttrs, AbortStep, Abort, vars
  <2>2. slots' = slots /\ slot_count' = slot_count /\ nodes' = nodes /\ NodeIds' = NodeIds
    BY <2>1 DEF graph, NodeIds
  <2>3. SlotList' = SlotList
    BY <2>2, ListsKept
  <2>4. AttrsUnique' /\ ListsApart'
    BY <2>2, <2>3, AttrsKept
  <2> QED
    BY <2>1, <2>4
<1>3. CASE NewStep
  <2>1. reading' = reading /\ aborted' = aborted
    BY <1>3 DEF NewStep, AllocAttr
  <2> QED
    BY <1>3, <2>1, AttrsNew
<1>4. CASE OldStep
  <2>1. PICK s \in SlotIds, v \in Values : SetSlot(s, v)
    BY <1>4 DEF OldStep
  <2>2. /\ reading' = reading /\ aborted' = aborted
        /\ slot_count' = slot_count /\ nodes' = nodes /\ NodeIds' = NodeIds
    BY <2>1 DEF SetSlot, NodeIds
  <2>3. \A t \in SlotIds : slots'[t].left = slots[t].left /\ slots'[t].type = slots[t].type
    BY <2>1 DEF SetSlot, TypeOK, Slot
  <2>4. SlotList' = SlotList
    BY <2>2, <2>3, ListsKept
  <2> QED
    BY <2>2, <2>3, <2>4, AttrsKept
<1> QED
  BY <1>1, <1>2, <1>3, <1>4, NextWrites

(* An attribute that is written again, by a parser or by the caller of     *)
(* musvg_attr_value_set or musvg_attr_value_get, goes to the slot that it  *)
(* has: for every document, no node ever has two slots of one type.        *)
THEOREM AttrsUniqueAlways == Spec => []AttrsUnique
<1>1. Init => AttrInv
  BY DEF Init, AttrInv, AttrsUnique, ListsApart, NodeIds
<1>2. TypeOK /\ SlotInv /\ AttrInv /\ [Next]_vars => (TypeOK /\ SlotInv /\ AttrInv)'
  <2> SUFFICES ASSUME TypeOK, SlotInv, AttrInv, [Next]_vars
               PROVE  (TypeOK /\ SlotInv /\ AttrInv)'
    OBVIOUS
  <2>1. TypeOK' /\ SlotInv'
    BY TypeStep, SlotStep DEF SlotInv
  <2> QED
    BY <2>1, AttrStep
<1>3. AttrInv => AttrsUnique
  BY DEF AttrInv
<1> QED
  BY InitSlots, <1>1, <1>2, <1>3, PTL DEF Spec

-----------------------------------------------------------------------------
(* Visits *)

Under(visit, n) == IF n = 0 THEN <<>> ELSE visit[n]

Wrap(x, a, y, b) == x \o <<a>> \o y \o <<b>>

Around(elders, n, below) == Wrap(elders, <<"start", n>>, below, <<"end", n>>)

IsVisit(visit, node, count) ==
    visit = [n \in 0..(count - 1) |->
                Around(Under(visit, node[n].left), n, Under(visit, node[n].down))]

(* The links of a tree: from a node to its next elder sibling, and to its  *)
(* youngest child.                                                         *)
TreeLinks(node, count) ==
    /\ \A n \in 0..(count - 1) :
          /\ n # 0 => node[n].up \in 0..(n - 1)
          /\ node[n].left # 0 =>
                node[n].left \in 1..(n - 1) /\ node[node[n].left].up = node[n].up
          /\ node[n].down # 0 =>
                node[n].down \in 1..(count - 1) /\ node[node[n].down].up = n
    /\ count > 0 => node[0].left = 0

(* What holds of a node if it does of its elder sibling and its youngest   *)
(* child holds of all: they have the same parent and a lower index, or are *)
(* deeper.                                                                 *)
LEMMA TreeInduction ==
    ASSUME NEW count \in Nat, NEW node, TreeLinks(node, count), NEW T,
           \A n \in 0..(count - 1) :
              /\ node[n].left = 0 \/ node[n].left \in T
              /\ node[n].down = 0 \/ node[n].down \in T
              => n \in T
    PROVE  0..(count - 1) \subseteq T
<1> DEFINE Bad == {n \in 1..(count - 1) : n \notin T}
           Ups == {count - node[n].up : n \in Bad}
<1>1. ASSUME Bad # {} PROVE FALSE
  <2>1. \A n \in Bad : node[n].up \in 0..(n - 1) /\ n \in 1..(count - 1)
    BY DEF TreeLinks
  <2>2. Ups \in SUBSET Nat /\ Ups # {}
    BY <1>1, <2>1
  <2>3. PICK k \in Ups : \A j \in Ups : k <= j
    <3> HIDE DEF Ups
    <3> QED
      BY <2>2, LeastNatural
  <2> DEFINE Low == {n \in Bad : count - node[n].up = k}
  <2>4. Low \in SUBSET Nat /\ Low # {}
    BY <2>3
  <2>5. PICK n \in Low : \A m \in Low : n <= m
    <3> HIDE DEF Low
    <3> QED
      BY <2>4, LeastNatural
  <2>6. n \in 1..(count - 1) /\ count - node[n].up = k /\ n \notin T
    OBVIOUS
  <2>7. ASSUME node[n].left # 0 PROVE node[n].left \in T
    <3> DEFINE l == node[n].left
    <3>1. l \in 1..(n - 1) /\ node[l].up = node[n].up
      BY <2>6, <2>7 DEF TreeLinks
    <3>2. l \notin Low
      BY <2>5, <2>6, <3>1
    <3> QED
      BY <2>6, <3>1, <3>2
  <2>8. ASSUME node[n].down # 0 PROVE node[n].down \in T
    <3> DEFINE d == node[n].down
    <3>1. d \in 1..(count - 1) /\ node[d].up = n
      BY <2>6, <2>8 DEF TreeLinks
    <3>2. node[n].up \in 0..(n - 1)
      BY <2>6 DEF TreeLinks
    <3>3. count - node[d].up < k
      BY <2>6, <3>1, <3>2
    <3>4. ASSUME d \in Bad PROVE FALSE
      <4>1. count - node[d].up \in Ups
        BY <3>4
      <4>2. count - node[d].up \in Nat /\ k \in Nat
        BY <2>2, <2>3, <4>1
      <4> HIDE DEF Ups, Bad, d
      <4>3. k <= count - node[d].up
        BY <2>3, <4>1
      <4> QED
        BY <3>3, <4>2, <4>3
    <3> QED
      BY <3>1, <3>4
  <2> QED
    BY <2>6, <2>7, <2>8
<1>2. \A n \in 1..(count - 1) : n \in T
  BY <1>1
<1>3. ASSUME count > 0 PROVE 0 \in T
  <2>1. node[0].left = 0 /\ (node[0].down # 0 => node[0].down \in 1..(count - 1))
    BY <1>3 DEF TreeLinks
  <2> QED
    BY <1>2, <1>3, <2>1
<1> QED
  BY <1>2, <1>3

(* There is one visit of a tree: the visit of a node is determined by its  *)
(* elders' and by its children's.                                          *)
LEMMA VisitUnique ==
    ASSUME NEW count \in Nat, NEW node, TreeLinks(node, count),
           NEW f, NEW g, IsVisit(f, node, count), IsVisit(g, node, count)
    PROVE  f = g
<1> DEFINE T == {n \in 0..(count - 1) : f[n] = g[n]}
<1>1. /\ \A n \in 0..(count - 1) :
            f[n] = Around(Under(f, node[n].left), n, Under(f, node[n].down))
      /\ \A n \in 0..(count - 1) :
            g[n] = Around(Under(g, node[n].left), n, Under(g, node[n].down))
  BY DEF IsVisit
<1>2. ASSUME NEW n \in 0..(count - 1),
             node[n].left = 0 \/ node[n].left \in T,
             node[n].down = 0 \/ node[n].down \in T
      PROVE  n \in T
  <2>1. Under(f, node[n].left) = Under(g, node[n].left)
    BY <1>2 DEF Under
  <2>2. Under(f, node[n].down) = Under(g, node[n].down)
    BY <1>2 DEF Under
  <2> QED
    BY <1>1, <2>1, <2>2
<1>3. 0..(count - 1) \subseteq T
  <2> HIDE DEF T
  <2> QED
    BY <1>2, TreeInduction
<1>4. \A n \in 0..(count - 1) : f[n] = g[n]
  BY <1>3
<1>5. f = [n \in 0..(count - 1) |-> f[n]] /\ g = [n \in 0..(count - 1) |-> g[n]]
  BY DEF IsVisit
<1> QED
  BY <1>4, <1>5

(* The links of SvgTree are those of a tree.                               *)
LEMMA LinksOfTree ==
    ASSUME TypeOK, LinksAgree
    PROVE  TreeLinks(nodes, node_count)
<1>1. \A n \in NodeIds : n \in Nat /\ n <= node_count - 1
  BY DEF TypeOK, NodeIds
<1>2. \A n \in NodeIds : /\ nodes[n].up \in Nat
                         /\ nodes[n].left \in Nat
                         /\ nodes[n].down \in Nat
  BY DEF TypeOK, Node
<1>3. \A n \in NodeIds : n # 0 => nodes[n].up \in 0..(n - 1)
  BY <1>1, <1>2 DEF LinksAgree, UpIsOlder
<1>4. ASSUME NEW n \in NodeIds, nodes[n].left # 0
      PROVE  nodes[n].left \in 1..(n - 1) /\ nodes[nodes[n].left].up = nodes[n].up
  <2>1. nodes[n].left \in Elders(n)
    BY <1>4 DEF LinksAgree, LeftIsElder, IsLast
  <2> QED
    BY <1>1, <2>1 DEF Elders, Children
<1>5. ASSUME NEW n \in NodeIds, nodes[n].down # 0
      PROVE  nodes[n].down \in 1..(node_count - 1) /\ nodes[nodes[n].down].up = n
  <2>1. nodes[n].down \in Children(n)
    BY <1>5 DEF LinksAgree, DownIsYoungest, IsLast
  <2> QED
    BY <1>1, <2>1 DEF Children
<1>6. node_count > 0 => nodes[0].left = 0
  BY <1>1, <1>4 DEF NodeIds, TypeOK
<1> QED
  BY <1>3, <1>4, <1>5, <1>6 DEF TreeLinks, NodeIds

(* So a visit of the graph is what VisitRecurse is.                        *)
OneVisit == \A visit : IsVisit(visit, nodes, node_count) => VisitRecurse = visit

LEMMA VisitFound == TypeOK /\ LinksAgree => OneVisit
<1> SUFFICES ASSUME TypeOK, LinksAgree, NEW visit, IsVisit(visit, nodes, node_count)
             PROVE  VisitRecurse = visit
  BY DEF OneVisit
<1>1. VisitRecurse = CHOOSE v : IsVisit(v, nodes, node_count)
  BY DEF VisitRecurse, IsVisit, Around, Wrap, Under, NodeIds
<1>2. IsVisit(VisitRecurse, nodes, node_count)
  BY <1>1
<1> QED
  BY <1>2, VisitUnique, LinksOfTree DEF TypeOK

-----------------------------------------------------------------------------
(* A start and an end between the first events of a visit and the last n.  *)

Between(visit, n, start, end) ==
    [i \in 1..(Len(visit) + 2) |->
        IF i <= Len(visit) - n THEN visit[i]
        ELSE IF i = Len(visit) - n + 1 THEN start
        ELSE IF i = Len(visit) - n + 2 THEN end
        ELSE visit[i - 2]]

IsBetween(l, E, x, n, s, e) ==
    /\ l \in Seq(E)
    /\ Len(l) = Len(x) + 2
    /\ \A i \in 1..(Len(x) - n) : l[i] = x[i]
    /\ l[Len(x) - n + 1] = s
    /\ l[Len(x) - n + 2] = e
    /\ \A i \in (Len(x) - n + 1)..Len(x) : l[i + 2] = x[i]

LEMMA BetweenAt ==
    ASSUME NEW E, NEW x \in Seq(E), NEW n \in 0..Len(x), NEW s \in E, NEW e \in E
    PROVE  IsBetween(Between(x, n, s, e), E, x, n, s, e)
<1> DEFINE m == Len(x)
           k == m - n
           l == Between(x, n, s, e)
<1>1. m \in Nat /\ x \in [1..m -> E] /\ k \in 0..m
  OBVIOUS
<1>2. /\ DOMAIN l = 1..(m + 2)
      /\ l = [i \in 1..(m + 2) |-> l[i]]
      /\ \A i \in 1..(m + 2) :
            l[i] = IF i <= k THEN x[i] ELSE IF i = k + 1 THEN s
                   ELSE IF i = k + 2 THEN e ELSE x[i - 2]
  BY DEF Between
<1> HIDE DEF l, k, m
<1>3. /\ \A i \in 1..k : l[i] = x[i]
      /\ l[k + 1] = s
      /\ l[k + 2] = e
  BY <1>1, <1>2
<1>4. ASSUME NEW i \in (k + 1)..m PROVE l[i + 2] = x[i]
  <2>1. i + 2 \in 1..(m + 2) /\ i + 2 > k + 2 /\ (i + 2) - 2 = i
    BY <1>1
  <2> QED
    BY <1>1, <1>2, <2>1
<1>5. \A i \in 1..(m + 2) : l[i] \in E
  <2> SUFFICES ASSUME NEW i \in 1..(m + 2) PROVE l[i] \in E
    OBVIOUS
  <2>1. CASE i <= k
    BY <1>1, <1>3, <2>1
  <2>2. CASE i > k + 2
    <3>1. i - 2 \in 1..m
      BY <1>1, <2>2
    <3>2. l[i] = x[i - 2]
      BY <1>1, <1>2, <2>2
    <3> QED
      BY <1>1, <3>1, <3>2
  <2> QED
    BY <1>1, <1>3, <2>1, <2>2
<1>6. l \in [1..(m + 2) -> E]
  BY <1>2, <1>5
<1>7. l \in Seq(E) /\ Len(l) = m + 2
  BY <1>1, <1>6
<1> QED
  BY <1>3, <1>4, <1>7 DEF l, k, m, IsBetween

IsWrap(r, E, x, a, y, b) ==
    /\ r \in Seq(E)
    /\ Len(r) = Len(x) + Len(y) + 2
    /\ \A i \in 1..Len(x) : r[i] = x[i]
    /\ r[Len(x) + 1] = a
    /\ \A i \in 1..Len(y) : r[Len(x) + 1 + i] = y[i]
    /\ r[Len(x) + Len(y) + 2] = b

LEMMA WrapAt ==
    ASSUME NEW E, NEW x \in Seq(E), NEW y \in Seq(E), NEW a \in E, NEW b \in E
    PROVE  IsWrap(Wrap(x, a, y, b), E, x, a, y, b)
<1> DEFINE as == <<a>>
           bs == <<b>>
           xa == x \o as
           xay == xa \o y
           r == xay \o bs
           p == Len(x)
           q == Len(y)
<1>0. x \in Seq(E) /\ y \in Seq(E)
  OBVIOUS
<1>1. p \in Nat /\ q \in Nat
  OBVIOUS
<1>2. as \in Seq(E) /\ Len(as) = 1 /\ as[1] = a /\ 1 \in 1..Len(as)
  OBVIOUS
<1>3. bs \in Seq(E) /\ Len(bs) = 1 /\ bs[1] = b /\ 1 \in 1..Len(bs)
  OBVIOUS
<1> HIDE DEF as, bs
<1>4. /\ xa \in Seq(E) /\ Len(xa) = Len(x) + Len(as)
      /\ \A i \in 1..Len(x) : xa[i] = x[i]
      /\ \A i \in 1..Len(as) : xa[Len(x) + i] = as[i]
  <2>1. /\ xa \in Seq(E) /\ Len(xa) = Len(x) + Len(as)
        /\ \A i \in 1..(Len(x) + Len(as)) :
              xa[i] = IF i <= Len(x) THEN x[i] ELSE as[i - Len(x)]
    BY <1>2, ConcatProperties
  <2> HIDE DEF xa
  <2>2. \A i \in 1..Len(x) : i \in 1..(Len(x) + Len(as)) /\ i <= Len(x)
    BY <1>1, <1>2
  <2>3. \A i \in 1..Len(as) : /\ Len(x) + i \in 1..(Len(x) + Len(as))
                              /\ ~ (Len(x) + i <= Len(x))
                              /\ (Len(x) + i) - Len(x) = i
    BY <1>1, <1>2
  <2> QED
    BY <2>1, <2>2, <2>3
<1> HIDE DEF xa
<1>5. /\ xay \in Seq(E) /\ Len(xay) = Len(xa) + Len(y)
      /\ \A i \in 1..Len(xa) : xay[i] = xa[i]
      /\ \A i \in 1..Len(y) : xay[Len(xa) + i] = y[i]
  <2>1. xa \in Seq(E)
    BY <1>4
  <2> QED
    BY ONLY <1>0, <2>1
<1> HIDE DEF xay
<1>6. /\ r \in Seq(E) /\ Len(r) = Len(xay) + Len(bs)
      /\ \A i \in 1..Len(xay) : r[i] = xay[i]
      /\ \A i \in 1..Len(bs) : r[Len(xay) + i] = bs[i]
  <2>1. xay \in Seq(E) /\ bs \in Seq(E)
    BY <1>3, <1>5
  <2> QED
    BY ONLY <2>1
<1>7. Wrap(x, a, y, b) = r
  BY DEF Wrap, xay, xa, as, bs
<1> HIDE DEF r, p, q
<1>8. Len(xa) = p + 1 /\ xa[p + 1] = a
  BY <1>2, <1>4 DEF p
<1>9. /\ Len(xay) = p + 1 + q
      /\ \A i \in 1..(p + 1) : xay[i] = xa[i]
      /\ \A i \in 1..q : xay[p + 1 + i] = y[i]
  BY <1>5, <1>8 DEF q
<1>10. /\ Len(r) = p + q + 2
       /\ \A i \in 1..(p + 1 + q) : r[i] = xay[i]
       /\ r[p + q + 2] = b
  <2>1. Len(r) = (p + 1 + q) + 1 /\ r[(p + 1 + q) + 1] = b
    BY <1>3, <1>6, <1>9
  <2>2. (p + 1 + q) + 1 = p + q + 2
    BY <1>1
  <2>3. \A i \in 1..(p + 1 + q) : r[i] = xay[i]
    BY <1>6, <1>9
  <2> QED
    BY <2>1, <2>2, <2>3
<1>11. /\ \A i \in 1..p : i \in 1..(p + 1) /\ i \in 1..(p + 1 + q)
       /\ p + 1 \in 1..(p + 1) /\ p + 1 \in 1..(p + 1 + q)
       /\ \A i \in 1..q : p + 1 + i \in 1..(p + 1 + q)
  BY <1>1
<1>12. /\ \A i \in 1..p : r[i] = x[i]
       /\ r[p + 1] = a
       /\ \A i \in 1..q : r[p + 1 + i] = y[i]
  <2>1. \A i \in 1..p : xa[i] = x[i]
    BY <1>4 DEF p
  <2> QED
    BY <1>8, <1>9, <1>10, <1>11, <2>1
<1> QED
  BY <1>6, <1>7, <1>10, <1>12 DEF p, q, IsWrap

(* Two events put before the last n + 1 of a visit are put before the last *)
(* n of its children's visits.                                             *)
LEMMA BetweenWrap ==
    ASSUME NEW E, NEW x \in Seq(E), NEW y \in Seq(E), NEW a \in E, NEW b \in E,
           NEW n \in 0..Len(y), NEW s \in E, NEW e \in E
    PROVE  Between(Wrap(x, a, y, b), n + 1, s, e) = Wrap(x, a, Between(y, n, s, e), b)
<1> DEFINE p == Len(x)
           q == Len(y)
           w == Wrap(x, a, y, b)
           z == Between(y, n, s, e)
           l == Between(w, n + 1, s, e)
           r == Wrap(x, a, z, b)
           k == q - n
<1>1. p \in Nat /\ q \in Nat /\ n \in 0..q /\ k \in 0..q
  OBVIOUS
<1>2. /\ w \in Seq(E) /\ Len(w) = p + q + 2
      /\ \A i \in 1..p : w[i] = x[i]
      /\ w[p + 1] = a
      /\ \A i \in 1..q : w[p + 1 + i] = y[i]
      /\ w[p + q + 2] = b
  <2>1. IsWrap(w, E, x, a, y, b)
    BY WrapAt
  <2> HIDE DEF w
  <2> QED
    BY <2>1 DEF IsWrap
<1>3. /\ z \in Seq(E) /\ Len(z) = q + 2
      /\ \A i \in 1..k : z[i] = y[i]
      /\ z[k + 1] = s
      /\ z[k + 2] = e
      /\ \A i \in (k + 1)..q : z[i + 2] = y[i]
  <2>1. IsBetween(z, E, y, n, s, e)
    BY BetweenAt
  <2> HIDE DEF z
  <2> QED
    BY <2>1 DEF IsBetween
<1> HIDE DEF w, z
<1>4. /\ r \in Seq(E) /\ Len(r) = Len(x) + Len(z) + 2
      /\ \A i \in 1..Len(x) : r[i] = x[i]
      /\ r[Len(x) + 1] = a
      /\ \A i \in 1..Len(z) : r[Len(x) + 1 + i] = z[i]
      /\ r[Len(x) + Len(z) + 2] = b
  <2>1. IsWrap(r, E, x, a, z, b)
    BY <1>3, WrapAt
  <2> HIDE DEF r
  <2> QED
    BY <2>1 DEF IsWrap
<1>5. n + 1 \in 0..Len(w)
  BY <1>1, <1>2
<1>6. /\ l \in Seq(E) /\ Len(l) = Len(w) + 2
      /\ \A i \in 1..(Len(w) - (n + 1)) : l[i] = w[i]
      /\ l[(Len(w) - (n + 1)) + 1] = s
      /\ l[(Len(w) - (n + 1)) + 2] = e
      /\ \A i \in ((Len(w) - (n + 1)) + 1)..Len(w) : l[i + 2] = w[i]
  <2>1. IsBetween(l, E, w, n + 1, s, e)
    BY <1>2, <1>5, BetweenAt
  <2> HIDE DEF l
  <2> QED
    BY <2>1 DEF IsBetween
<1> HIDE DEF l, r, p, q, k
<1>7. Len(w) - (n + 1) = p + 1 + k
  BY <1>1, <1>2 DEF k
<1>8. /\ \A i \in 1..(p + 1 + k) : l[i] = w[i]
      /\ l[p + 1 + k + 1] = s
      /\ l[p + 1 + k + 2] = e
      /\ \A i \in (p + 1 + k + 1)..(p + q + 2) : l[i + 2] = w[i]
  BY <1>2, <1>6, <1>7
<1>9. /\ \A i \in 1..p : r[i] = x[i]
      /\ r[p + 1] = a
      /\ \A i \in 1..(q + 2) : r[p + 1 + i] = z[i]
      /\ r[p + q + 4] = b
  <2>1. p + (q + 2) + 2 = p + q + 4
    BY <1>1
  <2> QED
    BY <1>3, <1>4, <2>1 DEF p
<1>10. \A i \in 1..(p + q + 4) : l[i] = r[i]
  <2> SUFFICES ASSUME NEW i \in 1..(p + q + 4) PROVE l[i] = r[i]
    OBVIOUS
  <2>1. CASE i \in 1..p
    <3>1. i \in 1..(p + 1 + k)
      BY <1>1, <2>1
    <3> QED
      BY <1>2, <1>8, <1>9, <2>1, <3>1
  <2>2. CASE i = p + 1
    <3>1. p + 1 \in 1..(p + 1 + k)
      BY <1>1
    <3> QED
      BY <1>2, <1>8, <1>9, <2>2, <3>1
  <2>3. ASSUME NEW j \in 1..k, i = p + 1 + j PROVE l[i] = r[i]
    <3>1. p + 1 + j \in 1..(p + 1 + k) /\ j \in 1..q /\ j \in 1..(q + 2)
      BY <1>1
    <3>2. l[p + 1 + j] = y[j]
      BY <1>2, <1>8, <3>1
    <3>3. r[p + 1 + j] = y[j]
      BY <1>3, <1>9, <3>1
    <3> QED
      BY <2>3, <3>2, <3>3
  <2>4. CASE i = p + 1 + k + 1
    <3>1. p + 1 + k + 1 = p + 1 + (k + 1) /\ k + 1 \in 1..(q + 2)
      BY <1>1
    <3> QED
      BY <1>3, <1>8, <1>9, <2>4, <3>1
  <2>5. CASE i = p + 1 + k + 2
    <3>1. p + 1 + k + 2 = p + 1 + (k + 2) /\ k + 2 \in 1..(q + 2)
      BY <1>1
    <3> QED
      BY <1>3, <1>8, <1>9, <2>5, <3>1
  <2>6. ASSUME NEW j \in (k + 1)..q, i = p + 1 + j + 2 PROVE l[i] = r[i]
    <3>1. /\ p + 1 + j \in (p + 1 + k + 1)..(p + q + 2)
          /\ j \in 1..q
          /\ j + 2 \in 1..(q + 2)
          /\ p + 1 + (j + 2) = p + 1 + j + 2
      BY <1>1
    <3>2. l[p + 1 + j + 2] = y[j]
      BY <1>2, <1>8, <3>1
    <3>3. r[p + 1 + (j + 2)] = y[j]
      BY <1>3, <1>9, <3>1
    <3> QED
      BY <2>6, <3>1, <3>2, <3>3
  <2>7. CASE i = p + q + 4
    <3>1. p + q + 2 \in (p + 1 + k + 1)..(p + q + 2) /\ (p + q + 2) + 2 = p + q + 4
      BY <1>1
    <3>2. l[(p + q + 2) + 2] = b
      BY <1>2, <1>8, <3>1
    <3> QED
      BY <1>9, <2>7, <3>1, <3>2
  <2>8. \/ i \in 1..p
        \/ i = p + 1
        \/ i - (p + 1) \in 1..k /\ i = p + 1 + (i - (p + 1))
        \/ i = p + 1 + k + 1
        \/ i = p + 1 + k + 2
        \/ i - (p + 3) \in (k + 1)..q /\ i = p + 1 + (i - (p + 3)) + 2
        \/ i = p + q + 4
    BY <1>1
  <2> QED
    BY <2>1, <2>2, <2>3, <2>4, <2>5, <2>6, <2>7, <2>8
<1>11. Len(l) = p + q + 4 /\ Len(r) = p + q + 4
  BY <1>1, <1>2, <1>3, <1>4, <1>6 DEF p
<1>12. l = r
  BY <1>4, <1>6, <1>10, <1>11, SeqEqual
<1> QED
  BY <1>12 DEF l, r, w, z

(* Two events put at the end of the elders' visits are those of a younger  *)
(* node without children.                                                  *)
LEMMA BetweenLast ==
    ASSUME NEW E, NEW x \in Seq(E), NEW a \in E, NEW b \in E
    PROVE  Between(x, 0, a, b) = Wrap(x, a, <<>>, b)
<1> DEFINE l == Between(x, 0, a, b)
           r == Wrap(x, a, <<>>, b)
           p == Len(x)
<1>1. p \in Nat /\ <<>> \in Seq(E) /\ Len(<<>>) = 0
  OBVIOUS
<1>2. /\ l \in Seq(E) /\ Len(l) = p + 2
      /\ \A i \in 1..(p - 0) : l[i] = x[i]
      /\ l[(p - 0) + 1] = a
      /\ l[(p - 0) + 2] = b
  <2>1. 0 \in 0..Len(x)
    BY <1>1
  <2>2. IsBetween(l, E, x, 0, a, b)
    BY <2>1, BetweenAt
  <2> HIDE DEF l
  <2> QED
    BY <2>2 DEF IsBetween
<1>3. /\ r \in Seq(E) /\ Len(r) = p + Len(<<>>) + 2
      /\ \A i \in 1..p : r[i] = x[i]
      /\ r[p + 1] = a
      /\ r[p + Len(<<>>) + 2] = b
  <2> DEFINE none == <<>>
  <2>1. none \in Seq(E)
    BY <1>1
  <2> HIDE DEF none
  <2>2. IsWrap(Wrap(x, a, none, b), E, x, a, none, b)
    BY <2>1, WrapAt
  <2>3. IsWrap(r, E, x, a, none, b)
    BY <2>2 DEF none
  <2> HIDE DEF r
  <2> QED
    BY <2>3 DEF IsWrap, none
<1> HIDE DEF l, r, p
<1>4. \A i \in 1..(p + 2) : l[i] = r[i]
  <2>1. p - 0 = p /\ p + 0 + 2 = p + 2
    BY <1>1
  <2>2. r[p + 2] = b /\ l[p + 2] = b /\ l[p + 1] = a
    BY <1>1, <1>2, <1>3, <2>1
  <2>3. \A i \in 1..(p + 2) : i \in 1..p \/ i = p + 1 \/ i = p + 2
    BY <1>1
  <2> QED
    BY <1>2, <1>3, <2>1, <2>2, <2>3
<1>5. l = r
  BY <1>1, <1>2, <1>3, <1>4, SeqEqual
<1> QED
  BY <1>5 DEF l, r

-----------------------------------------------------------------------------
(* What the steps do to the visit *)

Event == {"start", "end"} \X Nat

(* VisitRecurse obeys its equation. *)
VisitRec ==
    /\ IsVisit(VisitRecurse, nodes, node_count)
    /\ VisitRecurse \in [NodeIds -> Seq(Event)]

DocInv == VisitRec /\ VisitInv

LEMMA EventType == \A n \in Nat : <<"start", n>> \in Event /\ <<"end", n>> \in Event
BY DEF Event

(* The visit is the same where `left' and `down' are.                      *)
LEMMA VisitKept ==
    ASSUME TypeOK', LinksAgree', VisitRec, node_count' = node_count,
           \A n \in NodeIds : /\ nodes'[n].left = nodes[n].left
                              /\ nodes'[n].down = nodes[n].down
    PROVE  VisitRecurse' = VisitRecurse /\ VisitRec'
<1> DEFINE v == VisitRecurse
<1>1. IsVisit(v, nodes', node_count)
  <2>1. v = [n \in NodeIds |-> Around(Under(v, nodes[n].left), n, Under(v, nodes[n].down))]
    BY DEF VisitRec, IsVisit, NodeIds
  <2> HIDE DEF v
  <2>2. v = [n \in NodeIds |-> Around(Under(v, nodes'[n].left), n, Under(v, nodes'[n].down))]
    BY <2>1
  <2> QED
    BY <2>2 DEF IsVisit, NodeIds
<1>2. v = VisitRecurse'
  <2>1. OneVisit'
    BY VisitFound, PTL
  <2>2. IsVisit(v, nodes', node_count')
    BY <1>1
  <2> HIDE DEF v
  <2> QED
    BY <2>1, <2>2 DEF OneVisit
<1>3. NodeIds' = NodeIds
  BY DEF NodeIds
<1> QED
  BY <1>1, <1>2, <1>3 DEF VisitRec

(* The elements that are open are the youngest children of the one before, *)
(* so none of them is visited as an elder sibling, or as a child of an     *)
(* element that is closed.                                                 *)
IsOpen(n) == \E d \in 0..(node_depth - 1) : node_stack[d] = n

LEMMA OpenLinks ==
    ASSUME TypeOK, TreeInv
    PROVE  /\ \A n \in NodeIds : nodes[n].left # 0 =>
                 nodes[n].left \in NodeIds /\ ~ IsOpen(nodes[n].left)
           /\ \A n \in NodeIds : nodes[n].down # 0 /\ ~ IsOpen(n) =>
                 nodes[n].down \in NodeIds /\ ~ IsOpen(nodes[n].down)
           /\ node_stack[node_depth] # 0 =>
                 node_stack[node_depth] \in NodeIds /\ ~ IsOpen(node_stack[node_depth])
           /\ node_count # 0 => NodeIds = 0..(node_count - 1)
<1>0. /\ node_depth \in Nat /\ node_count \in Nat
      /\ TreeLinks(nodes, node_count)
      /\ \A n \in NodeIds : nodes[n].down \in Nat
  BY LinksOfTree DEF TreeInv, TypeOK, Node
<1>1. ASSUME NEW d \in 1..(node_depth - 1)
      PROVE  /\ node_stack[d - 1] \in NodeIds
             /\ node_stack[d] = nodes[node_stack[d - 1]].down
             /\ node_stack[d] # 0
             /\ nodes[node_stack[d]].up = node_stack[d - 1]
             /\ \A c \in Children(node_stack[d - 1]) : c <= node_stack[d]
             /\ IsOpen(node_stack[d - 1])
  <2>1. d \in 0..(node_depth - 1) /\ d - 1 \in 0..(node_depth - 1) /\ d - 1 < d
    BY <1>0
  <2>2. /\ node_stack[d - 1] \in NodeIds
        /\ node_stack[d] \in NodeIds
        /\ node_stack[d - 1] < node_stack[d]
        /\ node_stack[d] = nodes[node_stack[d - 1]].down
    BY <1>0, <2>1 DEF TreeInv, StackInv
  <2>3. node_stack[d] # 0
    BY <1>0, <2>2 DEF NodeIds
  <2>4. IsLast(node_stack[d], Children(node_stack[d - 1]))
    BY <2>2 DEF TreeInv, LinksAgree, DownIsYoungest
  <2>5. /\ node_stack[d] \in Children(node_stack[d - 1])
        /\ \A c \in Children(node_stack[d - 1]) : c <= node_stack[d]
    BY <2>3, <2>4 DEF IsLast
  <2> QED
    BY <2>1, <2>2, <2>3, <2>5 DEF Children, IsOpen
<1>2. node_stack[0] = 0
  BY DEF TreeInv, StackInv
<1>3. ASSUME NEW n \in NodeIds, nodes[n].left # 0
      PROVE  nodes[n].left \in NodeIds /\ ~ IsOpen(nodes[n].left)
  <2> DEFINE l == nodes[n].left
  <2>1. l \in 1..(n - 1) /\ nodes[l].up = nodes[n].up /\ n \in Nat /\ l \in NodeIds
    BY <1>0, <1>3 DEF TreeLinks, NodeIds
  <2>2. ASSUME NEW d \in 0..(node_depth - 1), node_stack[d] = l PROVE FALSE
    <3>1. d \in 1..(node_depth - 1)
      BY <1>0, <1>2, <2>1, <2>2
    <3>2. n \in Children(node_stack[d - 1])
      BY <1>1, <2>1, <2>2, <3>1 DEF Children
    <3> QED
      BY <1>1, <2>1, <2>2, <3>1, <3>2
  <2> QED
    BY <2>1, <2>2 DEF IsOpen
<1>4. ASSUME NEW n \in NodeIds, nodes[n].down # 0, ~ IsOpen(n)
      PROVE  nodes[n].down \in NodeIds /\ ~ IsOpen(nodes[n].down)
  <2> DEFINE c == nodes[n].down
  <2>1. c \in NodeIds /\ nodes[c].up = n
    BY <1>0, <1>4 DEF TreeLinks, NodeIds
  <2>2. ASSUME NEW d \in 0..(node_depth - 1), node_stack[d] = c PROVE FALSE
    <3>1. d \in 1..(node_depth - 1)
      BY <1>0, <1>2, <1>4, <2>2
    <3> QED
      BY <1>1, <1>4, <2>1, <2>2, <3>1
  <2> QED
    BY <2>1, <2>2 DEF IsOpen
<1>5. ASSUME node_stack[node_depth] # 0
      PROVE  node_stack[node_depth] \in NodeIds /\ ~ IsOpen(node_stack[node_depth])
  <2> DEFINE c == node_stack[node_depth]
             p == node_stack[node_depth - 1]
  <2>1. node_depth > 0 /\ node_depth - 1 \in 0..(node_depth - 1) /\ node_depth \in 1..node_depth
    BY <1>0, <1>2, <1>5
  <2>2. p \in NodeIds /\ c = nodes[p].down
    BY <2>1 DEF TreeInv, StackInv
  <2>3. c \in NodeIds /\ nodes[c].up = p /\ c # 0
    BY <1>0, <1>5, <2>2 DEF TreeLinks, NodeIds
  <2>4. p < c
    BY <2>3 DEF TreeInv, LinksAgree, UpIsOlder
  <2>5. ASSUME NEW d \in 0..(node_depth - 1), node_stack[d] = c PROVE FALSE
    <3>1. CASE d = node_depth - 1
      BY <2>4, <2>5, <3>1, <2>2, <2>3 DEF NodeIds
    <3>2. CASE d < node_depth - 1
      <4>1. node_stack[d] < p
        BY <1>0, <2>1, <3>2 DEF TreeInv, StackInv
      <4> QED
        BY <1>0, <2>2, <2>3, <2>4, <2>5, <4>1 DEF NodeIds
    <3> QED
      BY <1>0, <3>1, <3>2
  <2> QED
    BY <2>3, <2>5 DEF IsOpen
<1> QED
  BY <1>3, <1>4, <1>5 DEF NodeIds

(* musvg_node_add puts the start and the end of the new node before the    *)
(* ends of the open elements, in the visit of each of them.                *)
LEMMA VisitAdd ==
    ASSUME WellFormed, TypeOK, TreeInv, TypeOK', TreeInv', DocInv,
           NEW t \in Elements, Accepts, NodeAdd(t)
    PROVE  LET v == VisitRecurse
               new == node_count
           IN  /\ VisitRec'
               /\ \A d \in 0..(node_depth - 1) :
                     VisitRecurse'[node_stack[d]] =
                         Between(v[node_stack[d]], node_depth - d, <<"start", new>>, <<"end", new>>)
               /\ VisitRecurse'[new] =
                         Around(Under(v, node_stack[node_depth]), new, <<>>)
<1> DEFINE v == VisitRecurse
           new == node_count
           last == node_stack[node_depth]
           S == <<"start", new>>
           F == <<"end", new>>
           level(n) == CHOOSE d \in 0..(node_depth - 1) : node_stack[d] = n
           w == [n \in 0..new |->
                    IF n = new THEN Around(Under(v, last), new, <<>>)
                    ELSE IF IsOpen(n) THEN Between(v[n], node_depth - level(n), S, F)
                    ELSE v[n]]
<1>1. /\ new \in Nat /\ node_depth \in Nat
      /\ node_depth = 0 => new = 0
      /\ S \in Event /\ F \in Event
      /\ NodeIds = 0..(new - 1)
      /\ node_stack[0] = 0
  BY EventType DEF Accepts, WellFormed, TreeInv, StackInv, TypeOK, NodeIds
<1>2. /\ \A d \in 0..(node_depth - 1) : node_stack[d] \in NodeIds
      /\ \A d, e \in 0..(node_depth - 1) : d < e => node_stack[d] < node_stack[e]
      /\ \A d \in 1..node_depth : node_stack[d] = nodes[node_stack[d - 1]].down
  BY DEF TreeInv, StackInv
<1>3. /\ \A n \in NodeIds : v[n] \in Seq(Event)
      /\ \A n \in NodeIds :
            v[n] = Around(Under(v, nodes[n].left), n, Under(v, nodes[n].down))
  <2>1. v = [n \in NodeIds |-> Around(Under(v, nodes[n].left), n, Under(v, nodes[n].down))]
    BY DEF DocInv, VisitRec, IsVisit, NodeIds
  <2>2. v \in [NodeIds -> Seq(Event)]
    BY DEF DocInv, VisitRec
  <2> HIDE DEF v
  <2> QED
    BY <2>1, <2>2
<1>4. \A d \in 0..(node_depth - 1) : Len(v[node_stack[d]]) >= node_depth - d
  BY <1>1 DEF DocInv, VisitInv
<1>5. /\ last # 0 => last \in NodeIds /\ ~ IsOpen(last)
      /\ Under(v, last) \in Seq(Event)
  <2>1. last # 0 => last \in NodeIds /\ ~ IsOpen(last)
    BY OpenLinks
  <2> QED
    BY <1>3, <2>1 DEF Under
<1> HIDE DEF S, F
<1>6. /\ w[new] = Around(Under(v, last), new, <<>>)
      /\ \A d \in 0..(node_depth - 1) :
            w[node_stack[d]] = Between(v[node_stack[d]], node_depth - d, S, F)
      /\ \A n \in NodeIds : ~ IsOpen(n) => w[n] = v[n]
  <2>1. new \in 0..new /\ \A n \in NodeIds : n \in 0..new /\ n # new
    BY <1>1
  <2>2. ASSUME NEW d \in 0..(node_depth - 1)
        PROVE  IsOpen(node_stack[d]) /\ level(node_stack[d]) = d
    <3>1. \A e \in 0..(node_depth - 1) : node_stack[e] = node_stack[d] => e = d
      <4> SUFFICES ASSUME NEW e \in 0..(node_depth - 1), node_stack[e] = node_stack[d], e # d
                   PROVE  FALSE
        OBVIOUS
      <4>1. node_stack[d] \in Nat /\ node_stack[e] \in Nat
        BY <1>1, <1>2
      <4>2. d < e \/ e < d
        BY <1>1
      <4> QED
        BY <1>2, <4>1, <4>2
    <3> QED
      BY <3>1 DEF IsOpen
  <2> HIDE DEF level
  <2> QED
    BY <1>2, <2>1, <2>2
<1>7. w \in [0..new -> Seq(Event)]
  <2>1. w[new] \in Seq(Event)
    <3>1. <<>> \in Seq(Event)
      OBVIOUS
    <3>2. IsWrap(Wrap(Under(v, last), S, <<>>, F), Event, Under(v, last), S, <<>>, F)
      BY <1>1, <1>5, <3>1, WrapAt
    <3> QED
      BY <1>6, <3>2 DEF IsWrap, Around, S, F
  <2>2. ASSUME NEW n \in NodeIds PROVE w[n] \in Seq(Event)
    <3>1. ASSUME NEW d \in 0..(node_depth - 1), node_stack[d] = n
          PROVE  w[n] \in Seq(Event)
      <4>1. node_depth - d \in 0..Len(v[n]) /\ v[n] \in Seq(Event)
        BY <1>1, <1>3, <1>4, <3>1
      <4> DEFINE k == node_depth - d
                 x == v[n]
      <4>2. w[n] = Between(x, k, S, F)
        BY <1>6, <3>1
      <4> HIDE DEF k, x, w
      <4>3. IsBetween(Between(x, k, S, F), Event, x, k, S, F)
        <5>1. k \in 0..Len(x) /\ x \in Seq(Event)
          BY <4>1 DEF k, x
        <5> QED
          BY <1>1, <5>1, BetweenAt
      <4> QED
        BY <4>2, <4>3 DEF IsBetween
    <3> QED
      BY <1>3, <1>6, <3>1 DEF IsOpen
  <2>3. w = [n \in 0..new |-> w[n]] /\ \A n \in 0..new : n = new \/ n \in NodeIds
    BY <1>1
  <2> HIDE DEF w
  <2> QED
    BY <2>1, <2>2, <2>3
<1>8. w = [n \in 0..new |-> w[n]]
  OBVIOUS
<1> HIDE DEF w, level
<1>9. /\ \A n \in NodeIds :
            /\ nodes'[n].left = nodes[n].left
            /\ nodes'[n].down = IF n = Parent THEN new ELSE nodes[n].down
      /\ nodes'[new].left = last
      /\ nodes'[new].down = 0
      /\ node_depth > 0 => Parent = node_stack[node_depth - 1]
      /\ node_depth > 0 => new # 0
  <2>1. node_depth < MaxDepth
    BY DEF NodeAdd
  <2>2. node_depth > 0 => new # 0 /\ node_stack[node_depth - 1] \in NodeIds
    <3>1. node_depth > 0 => node_depth - 1 \in 0..(node_depth - 1)
      BY <1>1
    <3> QED
      BY <1>1, <1>2, <3>1
  <2>3. Parent = IF node_depth > 0 THEN node_stack[node_depth - 1] ELSE 0
    BY DEF Parent
  <2>4. nodes'[new].down = 0
    <3>1. nodes'[new].down = IF new = Parent THEN new ELSE 0
      BY <2>1, LinkedFields DEF NodeAdd
    <3> QED
      BY <1>1, <2>2, <2>3, <3>1
  <2> QED
    BY <2>1, <2>2, <2>3, <2>4, LinkedFields DEF NodeAdd
<1>10. \A n \in NodeIds : Under(w, nodes[n].left) = Under(v, nodes[n].left)
  BY <1>6, OpenLinks DEF Under
<1>11. Under(w, last) = Under(v, last)
  BY <1>5, <1>6 DEF Under
<1> DEFINE Right(n) == w[n] = Around(Under(w, nodes'[n].left), n, Under(w, nodes'[n].down))
<1>12. Right(new)
  BY <1>6, <1>9, <1>11 DEF Under
<1>13. ASSUME NEW n \in NodeIds, ~ IsOpen(n) PROVE Right(n)
  <2>1. nodes'[n].left = nodes[n].left /\ nodes'[n].down = nodes[n].down
    <3>1. node_depth > 0
      BY <1>1
    <3>2. IsOpen(Parent)
      BY <1>1, <1>9, <3>1 DEF IsOpen
    <3> QED
      BY <1>9, <1>13, <3>2
  <2>2. Under(w, nodes[n].down) = Under(v, nodes[n].down)
    BY <1>6, <1>13, OpenLinks DEF Under
  <2> QED
    BY <1>3, <1>6, <1>10, <1>13, <2>1, <2>2
<1>14. ASSUME NEW d \in 0..(node_depth - 1) PROVE Right(node_stack[d])
  <2> DEFINE n == node_stack[d]
             x == Under(v, nodes[n].left)
             s == <<"start", n>>
             e == <<"end", n>>
  <2>1. /\ n \in NodeIds /\ s \in Event /\ e \in Event
        /\ x \in Seq(Event)
        /\ nodes'[n].left = nodes[n].left
        /\ Under(w, nodes[n].left) = x
    <3>1. n \in NodeIds
      BY <1>2
    <3>2. x \in Seq(Event)
      BY <1>3, <3>1, OpenLinks DEF Under
    <3>3. s \in Event /\ e \in Event
      BY <1>1, <3>1, EventType
    <3> QED
      BY <1>9, <1>10, <3>1, <3>2, <3>3
  <2>2. CASE d < node_depth - 1
    <3> DEFINE c == node_stack[d + 1]
               k == node_depth - (d + 1)
    <3>1. d + 1 \in 0..(node_depth - 1) /\ d + 1 \in 1..node_depth /\ (d + 1) - 1 = d
      BY <1>1, <2>2
    <3>2. c = nodes[n].down /\ c \in NodeIds /\ c # 0
      <4>1. n < c
        BY <1>2, <3>1
      <4>2. c = nodes[n].down /\ c \in NodeIds
        BY <1>2, <3>1
      <4> QED
        BY <1>1, <2>1, <4>1, <4>2
    <3>3. n # Parent
      <4>1. node_depth - 1 \in 0..(node_depth - 1)
        BY <1>1, <2>2
      <4>2. n < node_stack[node_depth - 1] /\ node_stack[node_depth - 1] \in NodeIds
        BY <1>2, <2>2, <4>1
      <4> QED
        BY <1>1, <1>9, <2>1, <2>2, <4>2
    <3>4. nodes'[n].down = c
      BY <1>9, <2>1, <3>2, <3>3
    <3>5. v[n] = Wrap(x, s, v[c], e)
      BY <1>3, <2>1, <3>2 DEF Under, Around
    <3>6. k \in 0..Len(v[c]) /\ v[c] \in Seq(Event) /\ k + 1 = node_depth - d
      BY <1>1, <1>3, <1>4, <3>1, <3>2, SMTT(30)
    <3>7. w[c] = Between(v[c], k, S, F)
      BY <1>6, <3>1
    <3>8. w[n] = Between(v[n], k + 1, S, F)
      BY <1>6, <3>6
    <3> HIDE DEF n, c, k, x, s, e
    <3>9. w[n] = Wrap(x, s, w[c], e)
      BY <1>1, <2>1, <3>5, <3>6, <3>7, <3>8, BetweenWrap
    <3>10. w[n] = Around(Under(w, nodes'[n].left), n, Under(w, nodes'[n].down))
      BY <2>1, <3>2, <3>4, <3>9 DEF Under, Around, s, e
    <3> QED
      BY <3>10 DEF n
  <2>3. CASE d = node_depth - 1
    <3> DEFINE y == Under(v, last)
    <3>1. n = Parent /\ node_depth > 0 /\ new # 0
      BY <1>1, <1>9, <2>3
    <3>2. last = nodes[n].down
      <4>1. node_depth \in 1..node_depth
        BY <1>1, <3>1
      <4> QED
        BY <1>2, <2>3, <4>1
    <3>3. nodes'[n].down = new
      BY <1>9, <2>1, <3>1
    <3>4. v[n] = Wrap(x, s, y, e)
      BY <1>3, <2>1, <3>2 DEF Around
    <3>5. y \in Seq(Event) /\ 0 \in 0..Len(y) /\ 0 + 1 = node_depth - d
      <4>1. y \in Seq(Event)
        BY <1>5
      <4> HIDE DEF y
      <4> QED
        BY <1>1, <2>3, <4>1
    <3>6. w[n] = Between(v[n], 0 + 1, S, F)
      BY <1>6, <3>5
    <3>7. w[new] = Between(y, 0, S, F)
      BY <1>1, <1>6, <3>5, BetweenLast DEF Around, S, F
    <3> HIDE DEF n, y, x, s, e
    <3>8. w[n] = Wrap(x, s, w[new], e)
      BY <1>1, <2>1, <3>4, <3>5, <3>6, <3>7, BetweenWrap
    <3>9. w[n] = Around(Under(w, nodes'[n].left), n, Under(w, nodes'[n].down))
      BY <2>1, <3>1, <3>3, <3>8 DEF Under, Around, s, e
    <3> QED
      BY <3>9 DEF n
  <2> QED
    BY <1>1, <2>2, <2>3
<1>15. node_count' = new + 1 /\ NodeIds' = 0..new /\ 0..(node_count' - 1) = 0..new
  BY <1>1 DEF NodeAdd, NodeIds
<1>16. IsVisit(w, nodes', node_count')
  <2>1. \A n \in 0..new : Right(n)
    BY <1>1, <1>12, <1>13, <1>14 DEF IsOpen
  <2>2. w = [n \in 0..new |-> Around(Under(w, nodes'[n].left), n, Under(w, nodes'[n].down))]
    BY <1>8, <2>1
  <2> QED
    BY <1>15, <2>2 DEF IsVisit
<1>17. VisitRecurse' = w
  <2>1. OneVisit'
    BY VisitFound, PTL DEF TreeInv
  <2> QED
    BY <1>16, <2>1 DEF OneVisit
<1>18. VisitRec'
  BY <1>7, <1>15, <1>16, <1>17 DEF VisitRec
<1> QED
  BY <1>6, <1>17, <1>18 DEF S, F

(* What comes after an equal beginning is appended to it.                  *)
LEMMA PrefixNext ==
    ASSUME NEW E, NEW x \in Seq(E), NEW y \in Seq(E), NEW k \in 0..Len(x),
           k + 1 <= Len(y), \A i \in 1..k : y[i] = x[i]
    PROVE  SubSeq(y, 1, k + 1) = Append(SubSeq(x, 1, k), y[k + 1])
<1> DEFINE l == SubSeq(y, 1, k + 1)
           p == SubSeq(x, 1, k)
           r == Append(p, y[k + 1])
<1>0. k \in Nat /\ Len(x) \in Nat /\ Len(y) \in Nat /\ k + 1 \in 1..Len(y)
  OBVIOUS
<1>1. l \in Seq(E) /\ Len(l) = k + 1 /\ \A i \in 1..(k + 1) : l[i] = y[i]
  BY <1>0
<1>2. p \in Seq(E) /\ Len(p) = k /\ \A i \in 1..k : p[i] = x[i]
  BY <1>0
<1>3. y[k + 1] \in E
  BY <1>0
<1> HIDE DEF l, p
<1>4. /\ r \in Seq(E) /\ Len(r) = k + 1
      /\ \A i \in 1..k : r[i] = p[i]
      /\ r[k + 1] = y[k + 1]
  BY <1>0, <1>2, <1>3
<1> HIDE DEF r
<1>5. \A i \in 1..(k + 1) : l[i] = r[i]
  <2> SUFFICES ASSUME NEW i \in 1..(k + 1) PROVE l[i] = r[i]
    OBVIOUS
  <2>1. i \in 1..k \/ i = k + 1
    BY <1>0
  <2> QED
    BY <1>1, <1>2, <1>4, <2>1
<1>6. l = r
  BY <1>1, <1>4, <1>5, SeqEqual
<1> QED
  BY <1>6 DEF l, r, p


(* Two events before the last n of a visit follow what is left without     *)
(* these n.                                                                *)
LEMMA CutAfter ==
    ASSUME NEW E, NEW x \in Seq(E), NEW n \in 0..Len(x), NEW s \in E, NEW e \in E,
           NEW y, y = Between(x, n, s, e)
    PROVE  SubSeq(y, 1, Len(y) - (n + 1)) = Append(SubSeq(x, 1, Len(x) - n), s)
<1> DEFINE k == Len(x) - n
<1>1. IsBetween(y, E, x, n, s, e)
  BY BetweenAt
<1>2. /\ y \in Seq(E)
      /\ Len(y) = Len(x) + 2
      /\ \A i \in 1..k : y[i] = x[i]
      /\ y[k + 1] = s
  BY <1>1 DEF IsBetween
<1>3. k \in 0..Len(x) /\ k + 1 <= Len(y) /\ Len(y) - (n + 1) = k + 1
  BY <1>2
<1> HIDE DEF k
<1>4. SubSeq(y, 1, k + 1) = Append(SubSeq(x, 1, k), y[k + 1])
  BY <1>2, <1>3, PrefixNext
<1> QED
  BY <1>2, <1>3, <1>4 DEF k

(* The start of the new node is added to the document.                     *)
LEMMA DocAdd ==
    ASSUME WellFormed, TypeOK, TreeInv, TypeOK', TreeInv', DocInv,
           NEW t \in Elements, Accepts, NodeAdd(t)
    PROVE  DocInv' /\ Document' = Append(Document, <<"start", node_count>>)
<1> DEFINE v == VisitRecurse
           w == VisitRecurse'
           new == node_count
           last == node_stack[node_depth]
           S == <<"start", new>>
           F == <<"end", new>>
<1>1. /\ new \in Nat /\ node_depth \in Nat
      /\ node_depth = 0 => new = 0
      /\ S \in Event /\ F \in Event
      /\ node_stack[0] = 0
      /\ node_count' = new + 1
  BY EventType DEF Accepts, WellFormed, TreeInv, StackInv, TypeOK, NodeIds, NodeAdd
<1>2. /\ node_depth' = node_depth + 1
      /\ node_stack'[node_depth] = new
      /\ \A d \in 0..(node_depth - 1) : node_stack'[d] = node_stack[d]
  BY <1>1 DEF NodeAdd, TypeOK, Levels
<1>3. /\ VisitRec'
      /\ \A d \in 0..(node_depth - 1) :
            w[node_stack[d]] = Between(v[node_stack[d]], node_depth - d, S, F)
      /\ w[new] = Around(Under(v, last), new, <<>>)
  BY VisitAdd
<1>4. /\ \A d \in 0..(node_depth - 1) :
            v[node_stack[d]] \in Seq(Event) /\ Len(v[node_stack[d]]) >= node_depth - d
      /\ Under(v, last) \in Seq(Event)
  <2>1. \A n \in NodeIds : v[n] \in Seq(Event)
    BY DEF DocInv, VisitRec
  <2>2. last # 0 => last \in NodeIds
    BY OpenLinks
  <2> QED
    BY <1>1, <2>1, <2>2 DEF DocInv, VisitInv, TreeInv, StackInv, Under
<1>5. Len(w[new]) \in Nat /\ Len(w[new]) >= 2
  <2>1. IsWrap(Wrap(Under(v, last), S, <<>>, F), Event, Under(v, last), S, <<>>, F)
    <3>1. <<>> \in Seq(Event)
      OBVIOUS
    <3> QED
      BY <1>1, <1>4, <3>1, WrapAt
  <2> DEFINE none == <<>>
             u == Under(v, last)
  <2>2. IsWrap(w[new], Event, u, S, none, F) /\ none \in Seq(Event) /\ u \in Seq(Event)
    BY <1>3, <1>4, <2>1 DEF Around
  <2> HIDE DEF none, u, w
  <2> QED
    BY <2>2 DEF IsWrap
<1> HIDE DEF S, F, w, v
<1>6. ASSUME NEW d \in 0..(node_depth - 1)
      PROVE  IsBetween(w[node_stack[d]], Event, v[node_stack[d]], node_depth - d, S, F)
  <2> DEFINE x == v[node_stack[d]]
             k == node_depth - d
             y == w[node_stack[d]]
  <2>1. x \in Seq(Event) /\ k \in 0..Len(x) /\ y = Between(x, k, S, F)
    BY <1>1, <1>3, <1>4
  <2> HIDE DEF x, k, y
  <2>2. IsBetween(y, Event, x, k, S, F)
    BY <1>1, <2>1, BetweenAt
  <2> QED
    BY <2>2 DEF x, k, y
<1>7. \A d \in 0..(node_depth' - 1) : Len(w[node_stack'[d]]) >= node_depth' - d
  <2> SUFFICES ASSUME NEW d \in 0..(node_depth' - 1)
               PROVE  Len(w[node_stack'[d]]) >= node_depth' - d
    OBVIOUS
  <2>1. CASE d = node_depth
    BY <1>1, <1>2, <1>5, <2>1
  <2>2. CASE d \in 0..(node_depth - 1)
    <3>1. Len(w[node_stack[d]]) = Len(v[node_stack[d]]) + 2
      BY <1>6, <2>2 DEF IsBetween
    <3>2. Len(v[node_stack[d]]) >= node_depth - d /\ Len(v[node_stack[d]]) \in Nat
      BY <1>4, <2>2
    <3> QED
      BY <1>1, <1>2, <2>2, <3>1, <3>2
  <2> QED
    BY <1>1, <1>2, <2>1, <2>2
<1>8. CASE node_depth = 0
  <2> DEFINE x == <<>>
             y == w[0]
  <2>1. new = 0 /\ last = 0
    BY <1>1, <1>8
  <2>2. x \in Seq(Event) /\ Len(x) = 0 /\ SubSeq(x, 1, 0) = <<>>
    BY SubSeqEmpty
  <2>3. Under(v, last) = x
    BY <2>1 DEF Under
  <2>4. Visit' = y /\ w[new] = Wrap(x, S, x, F)
    BY <1>3, <2>1, <2>3 DEF Visit, w, Around, S, F
  <2>5. Wrap(x, S, x, F) = Between(x, 0, S, F)
    <3>1. \A z \in Seq(Event) : Between(z, 0, S, F) = Wrap(z, S, <<>>, F)
      BY <1>1, BetweenLast
    <3> QED
      BY <2>2, <3>1
  <2> HIDE DEF x, y
  <2>6. y = Between(x, 0, S, F)
    BY <2>1, <2>4, <2>5 DEF y
  <2>7. IsBetween(y, Event, x, 0, S, F)
    <3>1. 0 \in 0..Len(x)
      BY <2>2
    <3> QED
      BY <1>1, <2>2, <2>6, <3>1, BetweenAt
  <2>8. Len(y) = 2 /\ y[2] = F
    BY <2>2, <2>7 DEF IsBetween
  <2>9. VisitInv'
    <3>1. \A d \in 0..(node_depth' - 1) : d = 0
      BY <1>2, <1>8
    <3>2. y[Len(y) - 0] = <<"end", node_stack'[0]>>
      BY <1>2, <1>8, <2>8 DEF F
    <3> QED
      BY <1>7, <2>4, <3>1, <3>2 DEF VisitInv, w
  <2>10. Document = SubSeq(x, 1, Len(x) - 0)
    BY <2>1, <2>2 DEF Document
  <2>11. Document' = SubSeq(y, 1, Len(y) - (0 + 1))
    BY <1>1, <1>2, <1>8, <2>4 DEF Document
  <2>12. Document' = Append(Document, S)
    <3> DEFINE k == 0
    <3>1. k \in 0..Len(x) /\ y = Between(x, k, S, F)
      BY <2>2, <2>6
    <3>2. Document = SubSeq(x, 1, Len(x) - k) /\ Document' = SubSeq(y, 1, Len(y) - (k + 1))
      BY <2>10, <2>11
    <3>3. x \in Seq(Event) /\ S \in Event /\ F \in Event
      BY <1>1, <2>2
    <3> HIDE DEF k
    <3>4. SubSeq(y, 1, Len(y) - (k + 1)) = Append(SubSeq(x, 1, Len(x) - k), S)
      BY ONLY <3>1, <3>3, CutAfter, ZenonT(40)
    <3> QED
      BY <3>2, <3>4
  <2> QED
    BY <1>3, <2>9, <2>12 DEF DocInv, S
<1>9. CASE node_depth > 0
  <2> DEFINE x == v[0]
             y == w[0]
  <2>1. 0 \in 0..(node_depth - 1) /\ node_depth - 0 = node_depth
    BY <1>1, <1>9
  <2>2. /\ x \in Seq(Event) /\ Len(x) \in Nat
        /\ node_depth \in 0..Len(x)
        /\ y = Between(x, node_depth, S, F)
        /\ IsBetween(y, Event, x, node_depth, S, F)
    BY <1>1, <1>3, <1>4, <1>6, <2>1
  <2>3. Visit = x /\ Visit' = y
    BY DEF Visit, v, w
  <2> HIDE DEF x, y
  <2>4. new # 0
    <3>1. node_stack[0] \in NodeIds
      BY <2>1 DEF TreeInv, StackInv
    <3> QED
      BY <1>1, <3>1 DEF NodeIds
  <2>5. \A d \in 0..(node_depth - 1) : x[Len(x) - d] = <<"end", node_stack[d]>>
    BY <1>9, <2>3 DEF DocInv, VisitInv
  <2>6. /\ Len(y) = Len(x) + 2
        /\ y[Len(x) - node_depth + 2] = F
        /\ \A i \in (Len(x) - node_depth + 1)..Len(x) : y[i + 2] = x[i]
    BY <2>2 DEF IsBetween
  <2>7. ASSUME NEW d \in 0..(node_depth' - 1)
        PROVE  y[Len(y) - d] = <<"end", node_stack'[d]>>
    <3>1. CASE d = node_depth
      <4>1. Len(y) - d = Len(x) - node_depth + 2
        BY <1>1, <2>2, <2>6, <3>1
      <4> QED
        BY <1>2, <2>6, <3>1, <4>1 DEF F
    <3>2. CASE d \in 0..(node_depth - 1)
      <4>1. /\ Len(x) - d \in (Len(x) - node_depth + 1)..Len(x)
            /\ Len(y) - d = (Len(x) - d) + 2
        BY <1>1, <2>2, <2>6, <3>2
      <4>2. y[(Len(x) - d) + 2] = x[Len(x) - d]
        BY <2>6, <4>1
      <4> QED
        BY <1>2, <2>5, <3>2, <4>1, <4>2
    <3> QED
      BY <1>1, <1>2, <3>1, <3>2
  <2>8. VisitInv'
    BY <1>7, <2>3, <2>7 DEF VisitInv, w
  <2>9. Document = SubSeq(x, 1, Len(x) - node_depth)
    BY <2>3, <2>4 DEF Document
  <2>10. Document' = SubSeq(y, 1, Len(y) - (node_depth + 1))
    BY <1>1, <1>2, <2>3 DEF Document
  <2>11. Document' = Append(Document, S)
    <3>1. PICK k : k = node_depth
      OBVIOUS
    <3>2. x \in Seq(Event) /\ k \in 0..Len(x) /\ y = Between(x, k, S, F)
      BY <2>2, <3>1
    <3>3. S \in Event /\ F \in Event
      BY <1>1
    <3>4. SubSeq(y, 1, Len(y) - (k + 1)) = Append(SubSeq(x, 1, Len(x) - k), S)
      BY ONLY <3>2, <3>3, CutAfter, ZenonT(40)
    <3> QED
      BY <2>9, <2>10, <3>1, <3>4
  <2> QED
    BY <1>3, <2>8, <2>11 DEF DocInv, S
<1> QED
  BY <1>1, <1>8, <1>9

-----------------------------------------------------------------------------
(* Every step is one of DocTree's, or none *)

PathOK == OpenPath \in Seq(Nat) /\ Len(OpenPath) = node_depth

LEMMA PathType == TypeOK => PathOK
<1> SUFFICES ASSUME TypeOK PROVE PathOK
  OBVIOUS
<1>1. node_depth \in Nat /\ \A k \in 1..node_depth : k - 1 \in Levels
  BY DepthAssumption DEF TypeOK, Levels
<1>2. OpenPath \in [1..node_depth -> Nat]
  BY <1>1 DEF OpenPath, TypeOK
<1> QED
  BY <1>1, <1>2 DEF PathOK

(* What is kept of the labels where a step does not write an attribute.    *)
LEMMA AttrListKept ==
    ASSUME TypeOK, RefsBelow, SlotList' = SlotList, NEW n \in NodeIds,
           nodes'[n].attr = nodes[n].attr,
           \A s \in SlotIds : slots'[s].type = slots[s].type /\ slots'[s].value = slots[s].value
    PROVE  AttrList(n)' = AttrList(n)
<1>1. AttrSlots(n)' = AttrSlots(n)
  BY DEF AttrSlots
<1>2. \A i \in DOMAIN AttrSlots(n) : AttrSlots(n)[i] \in SlotIds
  BY AttrSlotsType
<1> QED
  BY <1>1, <1>2 DEF AttrList

LEMMA GraphKept ==
    ASSUME TypeOK, TypeOK', RefsBelow, RefsBelow', LinksAgree', VisitRec, UNCHANGED graph
    PROVE  Labels' = Labels /\ VisitRecurse' = VisitRecurse /\ VisitRec'
<1>1. /\ slots' = slots /\ slot_count' = slot_count
      /\ nodes' = nodes /\ node_count' = node_count
      /\ NodeIds' = NodeIds
  BY DEF graph, NodeIds
<1>2. SlotList' = SlotList
  BY <1>1, ListsKept
<1>3. \A n \in NodeIds : AttrList(n)' = AttrList(n)
  BY <1>1, <1>2, AttrListKept
<1>4. Labels' = Labels
  BY <1>1, <1>3 DEF Labels
<1> QED
  BY <1>1, <1>4, VisitKept

(* musvg_node_add opens an element.                                        *)
LEMMA AddOpens ==
    ASSUME WellFormed, TypeOK, SlotInv, TreeInv, TypeOK', SlotInv', TreeInv', DocInv,
           NEW t \in Elements, ~aborted, Accepts, NodeAdd(t)
    PROVE  DocInv' /\ Tree!Open(node_count, t)
<1>0. PICK new \in Nat : new = node_count
  BY DEF TypeOK
<1>1. ~aborted /\ Accepts /\ NodeAdd(t)
  OBVIOUS
<1>2. DocInv' /\ Document' = Append(Document, <<"start", new>>)
  BY <1>0, <1>1, DocAdd
<1>3. /\ new \in Nat /\ node_depth \in Nat /\ node_depth < MaxDepth
      /\ node_depth' = node_depth + 1
      /\ node_stack' = [node_stack EXCEPT ![node_depth] = new]
      /\ slots' = slots /\ slot_count' = slot_count /\ aborted' = aborted
      /\ NodeIds' = 0..new /\ NodeIds = 0..(new - 1)
  BY <1>0, <1>1 DEF NodeAdd, TypeOK, NodeIds
<1>4. /\ \A n \in NodeIds : /\ nodes'[n].attr = nodes[n].attr
                            /\ nodes'[n].type = nodes[n].type
      /\ nodes'[new].attr = 0
      /\ nodes'[new].type = t
  BY <1>0, <1>1, <1>3, LinkedFields DEF NodeAdd
<1>5. OpenPath' = Append(OpenPath, new)
  <2>1. OpenPath \in Seq(Nat) /\ Len(OpenPath) = node_depth
    BY PathType DEF PathOK
  <2>2. OpenPath' \in Seq(Nat) /\ Len(OpenPath') = node_depth + 1
    <3>1. PathOK'
      BY PathType, PTL
    <3> QED
      BY <1>3, <3>1 DEF PathOK
  <2>3. \A k \in 1..node_depth : OpenPath[k] = node_stack[k - 1]
    BY DEF OpenPath
  <2>4. \A k \in 1..(node_depth + 1) : OpenPath'[k] = node_stack'[k - 1]
    BY <1>3 DEF OpenPath
  <2>5. \A k \in 1..(node_depth + 1) :
            node_stack'[k - 1] = IF k = node_depth + 1 THEN new ELSE node_stack[k - 1]
    BY <1>3 DEF TypeOK, Levels
  <2>6. Append(OpenPath, new) \in Seq(Nat) /\ Len(Append(OpenPath, new)) = node_depth + 1
    BY <1>3, <2>1
  <2>7. \A k \in 1..(node_depth + 1) : Append(OpenPath, new)[k] = OpenPath'[k]
    <3>1. /\ \A k \in 1..node_depth : Append(OpenPath, new)[k] = OpenPath[k]
          /\ Append(OpenPath, new)[node_depth + 1] = new
      BY <1>3, <2>1
    <3>2. \A k \in 1..(node_depth + 1) : k # node_depth + 1 => k \in 1..node_depth
      BY <1>3
    <3> QED
      BY <2>3, <2>4, <2>5, <3>1, <3>2
  <2> QED
    BY <2>2, <2>6, <2>7, SeqEqual
<1>6. Labels' = [m \in 0..new |-> IF m = new THEN [type |-> t, attrs |-> <<>>] ELSE Labels[m]]
  <2>1. SlotList' = SlotList
    BY <1>3, ListsKept DEF SlotInv
  <2>2. \A n \in NodeIds : AttrList(n)' = AttrList(n)
    BY <1>3, <1>4, <2>1, AttrListKept DEF SlotInv
  <2>3. AttrSlots(new)' = <<>>
    <3>1. IsList(SlotList, slots, slot_count) /\ 0 \in 0..(slot_count - 1)
      BY SlotListFound DEF SlotListRec, TypeOK, SlotInv
    <3>2. SlotList[0] = <<>>
      BY <3>1 DEF IsList
    <3> QED
      BY <1>4, <2>1, <3>2 DEF AttrSlots
  <2>4. AttrList(new)' = <<>>
    BY <2>3 DEF AttrList
  <2>5. Labels' = [m \in 0..new |-> [type |-> nodes'[m].type, attrs |-> AttrList(m)']]
    BY <1>3 DEF Labels
  <2>6. \A m \in NodeIds : Labels[m] = [type |-> nodes[m].type, attrs |-> AttrList(m)]
    BY DEF Labels
  <2> QED
    BY <1>3, <1>4, <2>2, <2>4, <2>5, <2>6
<1>7. DOMAIN Labels = NodeIds
  BY DEF Labels
<1>8. Tree!Open(new, t)
  <2>1. Len(OpenPath) < MaxDepth
    BY <1>3, PathType DEF PathOK
  <2>2. new \notin DOMAIN Labels /\ (new = 0 \/ new - 1 \in DOMAIN Labels)
    BY <1>3, <1>7
  <2> QED
    BY <1>1, <1>2, <1>3, <1>5, <1>6, <2>1, <2>2 DEF Tree!Open
<1> QED
  BY <1>0, <1>2, <1>8

LEMMA AddMaps ==
    ASSUME WellFormed, TypeOK, SlotInv, TreeInv, TypeOK', SlotInv', TreeInv', DocInv,
           AddStep
    PROVE  DocInv' /\ Tree!Next
<1>1. PICK t \in Elements : ~aborted /\ Accepts /\ NodeAdd(t)
  BY DEF AddStep
<1>2. DocInv' /\ Tree!Open(node_count, t)
  BY <1>1, AddOpens
<1>3. node_count \in {0} \union {m + 1 : m \in DOMAIN Labels}
  <2>1. DOMAIN Labels = NodeIds /\ node_count \in Nat
    BY DEF Labels, TypeOK
  <2>2. node_count # 0 => node_count - 1 \in NodeIds /\ (node_count - 1) + 1 = node_count
    BY <2>1 DEF NodeIds
  <2> QED
    BY <2>1, <2>2
<1> QED
  BY <1>2, <1>3 DEF Tree!Next

(* musvg_stack_pop closes the innermost.                                   *)
LEMMA PopCloses ==
    ASSUME WellFormed, TypeOK, SlotInv, TreeInv, TypeOK', SlotInv', TreeInv', DocInv,
           PopStep
    PROVE  DocInv' /\ Tree!Close
<1> DEFINE last == node_depth - 1
           v == Visit
<1>1. /\ ~aborted /\ aborted' = aborted
      /\ node_depth \in Nat \ {0} /\ last \in Nat
      /\ node_depth' = last
      /\ node_stack' = [node_stack EXCEPT ![node_depth] = 0]
      /\ UNCHANGED graph
      /\ node_count' = node_count
  BY DepthAssumption DEF PopStep, StackPop, TreeInv, StackInv, TypeOK, graph
<1>2. \A d \in 0..last : node_stack'[d] = node_stack[d] /\ node_stack[d] \in NodeIds
  BY <1>1 DEF TypeOK, Levels, TreeInv, StackInv
<1>3. Labels' = Labels /\ VisitRecurse' = VisitRecurse /\ VisitRec'
  BY <1>1, GraphKept DEF SlotInv, TreeInv, DocInv
<1>4. /\ \A d \in 0..last : Len(VisitRecurse[node_stack[d]]) >= node_depth - d
      /\ \A d \in 0..last : v[Len(v) - d] = <<"end", node_stack[d]>>
  BY <1>1 DEF DocInv, VisitInv
<1>5. Visit' = v
  BY <1>3 DEF Visit
<1>6. v \in Seq(Event) /\ Len(v) \in Nat /\ Len(v) >= node_depth /\ node_count # 0
  <2>1. node_stack[0] = 0 /\ 0 \in 0..last /\ node_depth - 0 = node_depth
    BY <1>1 DEF TreeInv, StackInv
  <2>2. 0 \in NodeIds
    BY <1>2, <2>1
  <2>3. VisitRecurse[0] \in Seq(Event) /\ Len(VisitRecurse[0]) >= node_depth
    BY <1>4, <2>1, <2>2 DEF DocInv, VisitRec
  <2>4. v \in Seq(Event) /\ Len(v) >= node_depth
    BY <2>3 DEF Visit
  <2> HIDE DEF v
  <2> QED
    BY <2>2, <2>4 DEF NodeIds
<1> HIDE DEF v
<1>7. VisitInv'
  <2>1. \A d \in 0..(node_depth' - 1) : Len(VisitRecurse'[node_stack'[d]]) >= node_depth' - d
    <3> SUFFICES ASSUME NEW d \in 0..(node_depth' - 1)
                 PROVE  Len(VisitRecurse'[node_stack'[d]]) >= node_depth' - d
      OBVIOUS
    <3>1. d \in 0..last /\ node_stack'[d] = node_stack[d]
      BY <1>1, <1>2
    <3>2. VisitRecurse[node_stack[d]] \in Seq(Event)
      BY <1>2, <3>1 DEF DocInv, VisitRec
    <3>3. Len(VisitRecurse[node_stack[d]]) >= node_depth - d
      BY <1>4, <3>1
    <3> QED
      BY <1>1, <1>3, <3>1, <3>2, <3>3
  <2>2. \A d \in 0..(node_depth' - 1) : v[Len(v) - d] = <<"end", node_stack'[d]>>
    BY <1>1, <1>2, <1>4
  <2> QED
    BY <1>5, <2>1, <2>2 DEF VisitInv
<1>8. Document' = Append(Document, <<"end", node_stack[last]>>)
  <2> DEFINE k == Len(v) - node_depth
  <2>1. k \in 0..Len(v) /\ k + 1 <= Len(v) /\ k + 1 = Len(v) - last
    BY <1>1, <1>6
  <2>2. Document = SubSeq(v, 1, k)
    BY <1>6 DEF Document, v
  <2>3. Document' = SubSeq(v, 1, k + 1)
    BY <1>1, <1>5, <1>6, <2>1 DEF Document
  <2>4. v[k + 1] = <<"end", node_stack[last]>>
    BY <1>1, <1>4, <2>1
  <2>5. SubSeq(v, 1, k + 1) = Append(SubSeq(v, 1, k), v[k + 1])
    <3> HIDE DEF k
    <3> QED
      BY <1>6, <2>1, PrefixNext
  <2> QED
    BY <2>2, <2>3, <2>4, <2>5
<1>9. /\ OpenPath \in Seq(Nat) /\ Len(OpenPath) = node_depth
      /\ OpenPath[node_depth] = node_stack[last]
      /\ OpenPath # <<>>
  <2>1. OpenPath \in Seq(Nat) /\ Len(OpenPath) = node_depth
    BY PathType DEF PathOK
  <2>2. OpenPath[node_depth] = node_stack[last]
    BY <1>1 DEF OpenPath
  <2> QED
    BY <1>1, <2>1, <2>2
<1>10. OpenPath' = SubSeq(OpenPath, 1, Len(OpenPath) - 1)
  <2> DEFINE p == SubSeq(OpenPath, 1, last)
  <2>1. OpenPath' \in Seq(Nat) /\ Len(OpenPath') = last
    <3>1. PathOK'
      BY PathType, PTL
    <3> QED
      BY <1>1, <3>1 DEF PathOK
  <2>2. p \in Seq(Nat) /\ Len(p) = last /\ \A k \in 1..last : p[k] = OpenPath[k]
    BY <1>1, <1>9
  <2>3. \A k \in 1..last : OpenPath[k] = node_stack[k - 1] /\ k - 1 \in 0..last
    BY <1>1 DEF OpenPath
  <2>4. \A k \in 1..last : OpenPath'[k] = node_stack'[k - 1]
    BY <1>1 DEF OpenPath
  <2>5. \A k \in 1..last : OpenPath'[k] = p[k]
    BY <1>2, <2>2, <2>3, <2>4
  <2> HIDE DEF p
  <2>6. OpenPath' = p
    BY <2>1, <2>2, <2>5, SeqEqual
  <2> QED
    BY <1>9, <2>6 DEF p
<1>11. Tree!Close
  BY <1>1, <1>3, <1>8, <1>9, <1>10 DEF Tree!Close
<1> QED
  BY <1>3, <1>7, <1>11 DEF DocInv

LEMMA PopMaps ==
    ASSUME WellFormed, TypeOK, SlotInv, TreeInv, TypeOK', SlotInv', TreeInv', DocInv,
           PopStep
    PROVE  DocInv' /\ Tree!Next
  BY PopCloses DEF Tree!Next

(* The label of the node that an attribute is written to.                  *)
LEMMA LabelsSet ==
    ASSUME NodeIds' = NodeIds, NEW n \in NodeIds, NEW list,
           \A m \in NodeIds : nodes'[m].type = nodes[m].type,
           \A m \in NodeIds : m # n => AttrList(m)' = AttrList(m),
           AttrList(n)' = list
    PROVE  Labels' = [Labels EXCEPT ![n].attrs = list]
<1>1. Labels' = [m \in NodeIds |-> [type |-> nodes[m].type, attrs |-> AttrList(m)']]
  BY DEF Labels
<1>2. Labels = [m \in NodeIds |-> [type |-> nodes[m].type, attrs |-> AttrList(m)]]
  BY DEF Labels
<1> QED
  BY <1>1, <1>2

(* alloc_attr gives an element an attribute more.                          *)
LEMMA NewSets ==
    ASSUME TypeOK, SlotInv, TreeInv, TypeOK', SlotInv', TreeInv', DocInv,
           NEW n \in NodeIds, NEW a \in Attrs, NEW v \in Values,
           ~aborted, FindAttr(n, a) = 0, AllocAttr(n, a, v)
    PROVE  DocInv' /\ Tree!SetAttr(n, a, v)
<1>1. ~aborted /\ FindAttr(n, a) = 0 /\ AllocAttr(n, a, v)
  OBVIOUS
<1>2. /\ UNCHANGED <<node_count, node_stack, node_depth, aborted>>
      /\ \A m \in NodeIds : /\ nodes'[m].type = nodes[m].type
                            /\ nodes'[m].left = nodes[m].left
                            /\ nodes'[m].down = nodes[m].down
  BY <1>1 DEF AllocAttr, TypeOK, Node, stack
<1>3. VisitRecurse' = VisitRecurse /\ VisitRec'
  BY <1>2, VisitKept DEF TreeInv, DocInv
<1>4. DocInv' /\ Document' = Document /\ OpenPath' = OpenPath
  BY <1>2, <1>3 DEF DocInv, VisitInv, Visit, Document, OpenPath
<1>5. PICK new : new = slot_count
  OBVIOUS
<1>6. /\ NodeIds' = NodeIds
      /\ AttrSlots(n)' = Append(AttrSlots(n), new)
      /\ \A m \in NodeIds : m # n => AttrSlots(m)' = AttrSlots(m)
      /\ \A s \in SlotIds : slots'[s] = slots[s]
      /\ slots'[new].type = a /\ slots'[new].value = v
      /\ new \notin SlotIds
  <2>1. slots'[slot_count] = [type |-> a, left |-> nodes[n].attr, value |-> v]
    BY <1>1, AllocLists DEF SlotInv
  <2>2. /\ NodeIds' = NodeIds
        /\ AttrSlots(n)' = Append(AttrSlots(n), slot_count)
        /\ \A m \in NodeIds : m # n => AttrSlots(m)' = AttrSlots(m)
        /\ \A s \in SlotIds : slots'[s] = slots[s]
        /\ slot_count \notin SlotIds
    BY <1>1, AllocLists DEF SlotInv
  <2> QED
    BY <1>5, <2>1, <2>2
<1>7. \A m \in NodeIds : /\ AttrSlots(m) \in Seq(SlotIds)
                         /\ \A i \in DOMAIN AttrSlots(m) : AttrSlots(m)[i] \in SlotIds
  BY AttrSlotsType DEF SlotInv
<1>8. \A m \in NodeIds : m # n => AttrList(m)' = AttrList(m)
  BY <1>6, <1>7 DEF AttrList
<1>9. PICK list : list = AttrSlots(n)
  OBVIOUS
<1>10. /\ list \in Seq(SlotIds)
       /\ \A i \in DOMAIN list : list[i] \in SlotIds /\ slots[list[i]].type # a
  BY <1>1, <1>7, <1>9, FindOnList DEF SlotInv
<1> DEFINE pairs == [i \in DOMAIN list |-> <<slots[list[i]].type, slots[list[i]].value>>]
<1>11. AttrList(n) = pairs
  BY <1>9 DEF AttrList
<1>12. AttrList(n)' = Append(pairs, <<a, v>>)
  <2> DEFINE long == Append(list, new)
             k == Len(list)
  <2>1. k \in Nat /\ DOMAIN list = 1..k
    BY <1>10
  <2>2. /\ DOMAIN long = 1..(k + 1)
        /\ \A i \in 1..k : long[i] = list[i]
        /\ long[k + 1] = new
    BY <1>10
  <2>3. AttrSlots(n)' = long
    BY <1>6, <1>9
  <2>4. AttrList(n)' = [i \in DOMAIN long |-> <<slots'[long[i]].type, slots'[long[i]].value>>]
    BY <2>3 DEF AttrList
  <2>5. pairs \in Seq(Attrs \X Values) /\ Len(pairs) = k
    <3>1. \A i \in 1..k : list[i] \in SlotIds
      BY <1>10, <2>1
    <3>2. \A i \in 1..k : slots[list[i]].type \in Attrs /\ slots[list[i]].value \in Values
      BY <3>1 DEF TypeOK, Slot
    <3>3. pairs \in [1..k -> Attrs \X Values]
      BY <2>1, <3>2
    <3> HIDE DEF pairs, k
    <3> QED
      BY <2>1, <3>3
  <2>6. /\ Append(pairs, <<a, v>>) = [i \in 1..(k + 1) |-> Append(pairs, <<a, v>>)[i]]
        /\ \A i \in 1..k : Append(pairs, <<a, v>>)[i] = pairs[i]
        /\ Append(pairs, <<a, v>>)[k + 1] = <<a, v>>
    <3> HIDE DEF pairs, k
    <3> QED
      BY <2>1, <2>5
  <2>7. \A i \in 1..k : pairs[i] = <<slots[list[i]].type, slots[list[i]].value>>
    BY <2>1
  <2> HIDE DEF long, k, pairs
  <2>8. ASSUME NEW i \in 1..(k + 1)
        PROVE  Append(pairs, <<a, v>>)[i] = <<slots'[long[i]].type, slots'[long[i]].value>>
    <3>1. CASE i = k + 1
      BY <1>6, <2>2, <2>6, <3>1
    <3>2. CASE i \in 1..k
      <4>1. list[i] \in SlotIds /\ long[i] = list[i]
        BY <1>10, <2>1, <2>2, <3>2
      <4>2. slots'[long[i]] = slots[list[i]]
        BY <1>6, <4>1
      <4>3. Append(pairs, <<a, v>>)[i] = <<slots[list[i]].type, slots[list[i]].value>>
        BY <2>6, <2>7, <3>2
      <4> QED
        BY <4>2, <4>3
    <3>3. i = k + 1 \/ i \in 1..k
      BY <2>1
    <3> QED
      BY <3>1, <3>2, <3>3
  <2> QED
    BY <2>2, <2>4, <2>6, <2>8
<1>13. \A i \in DOMAIN pairs : pairs[i][1] # a
  BY <1>10
<1> HIDE DEF pairs
<1>14. AttrList(n)' = Tree!With(AttrList(n), a, v)
  BY <1>11, <1>12, <1>13 DEF Tree!With
<1>15. Labels' = [Labels EXCEPT ![n].attrs = Tree!With(AttrList(n), a, v)]
  BY <1>2, <1>6, <1>8, <1>14, LabelsSet
<1>16. Labels[n].attrs = AttrList(n) /\ DOMAIN Labels = NodeIds
  BY DEF Labels
<1>17. Tree!SetAttr(n, a, v)
  BY <1>1, <1>2, <1>4, <1>15, <1>16 DEF Tree!SetAttr
<1> QED
  BY <1>4, <1>17

LEMMA NewMaps ==
    ASSUME TypeOK, SlotInv, TreeInv, TypeOK', SlotInv', TreeInv', DocInv, NewStep
    PROVE  DocInv' /\ Tree!Next
<1>1. PICK n \in NodeIds, a \in Attrs, v \in Values :
          ~aborted /\ FindAttr(n, a) = 0 /\ AllocAttr(n, a, v)
  BY DEF NewStep
<1>2. DocInv' /\ Tree!SetAttr(n, a, v)
  BY <1>1, NewSets
<1>3. DOMAIN Labels = NodeIds
  BY DEF Labels
<1> QED
  BY <1>2, <1>3 DEF Tree!Next

LEMMA OldMaps ==
    ASSUME TypeOK, SlotInv, TreeInv, AttrInv, TypeOK', SlotInv', TreeInv', DocInv, OldStep
    PROVE  DocInv' /\ Tree!Next
<1>1. PICK n \in NodeIds, a \in Attrs, v \in Values, s \in SlotIds :
          ~aborted /\ s = FindAttr(n, a) /\ SetSlot(s, v)
  BY DEF OldStep
<1>2. /\ UNCHANGED <<node_count, nodes, node_stack, node_depth, slot_count, aborted>>
      /\ NodeIds' = NodeIds
      /\ \A t \in SlotIds : slots'[t].left = slots[t].left /\ slots'[t].type = slots[t].type
      /\ \A t \in SlotIds : slots'[t].value = IF t = s THEN v ELSE slots[t].value
  BY <1>1 DEF SetSlot, TypeOK, Slot, stack, NodeIds
<1>3. VisitRecurse' = VisitRecurse /\ VisitRec'
  BY <1>2, VisitKept DEF TreeInv, DocInv
<1>4. DocInv' /\ Document' = Document /\ OpenPath' = OpenPath
  BY <1>2, <1>3 DEF DocInv, VisitInv, Visit, Document, OpenPath
<1>5. \A m \in NodeIds : /\ AttrSlots(m)' = AttrSlots(m)
                         /\ \A i \in DOMAIN AttrSlots(m) : AttrSlots(m)[i] \in SlotIds
  <2>1. SlotList' = SlotList
    BY <1>2, ListsKept DEF SlotInv
  <2> QED
    BY <1>2, <2>1, AttrSlotsType DEF AttrSlots, SlotInv
<1>6. PICK j \in DOMAIN AttrSlots(n) : AttrSlots(n)[j] = s /\ slots[AttrSlots(n)[j]].type = a
  <2>1. s # 0
    BY DEF SlotIds
  <2> QED
    BY <1>1, <2>1, FindOnList DEF SlotInv
<1>7. ASSUME NEW m \in NodeIds, m # n PROVE AttrList(m)' = AttrList(m)
  <2>1. \A i \in DOMAIN AttrSlots(m) : AttrSlots(m)[i] \in SlotIds /\ AttrSlots(m)[i] # s
    BY <1>5, <1>6, <1>7 DEF AttrInv, ListsApart
  <2> QED
    BY <1>2, <1>5, <2>1 DEF AttrList
<1>8. PICK list : list = AttrSlots(n)
  OBVIOUS
<1>9. /\ \A i \in DOMAIN list : list[i] \in SlotIds
      /\ j \in DOMAIN list /\ list[j] = s /\ slots[s].type = a
      /\ \A i \in DOMAIN list : slots[list[i]].type = a => i = j
  BY <1>5, <1>6, <1>8 DEF AttrInv, AttrsUnique
<1> DEFINE pairs == [i \in DOMAIN list |-> <<slots[list[i]].type, slots[list[i]].value>>]
<1>10. AttrList(n) = pairs
  BY <1>8 DEF AttrList
<1>11. AttrList(n)' = [i \in DOMAIN list |-> <<slots'[list[i]].type, slots'[list[i]].value>>]
  BY <1>5, <1>8 DEF AttrList
<1>12. /\ DOMAIN pairs = DOMAIN list
       /\ \A i \in DOMAIN list : pairs[i] = <<slots[list[i]].type, slots[list[i]].value>>
       /\ \A i \in DOMAIN list : pairs[i][1] = slots[list[i]].type
  OBVIOUS
<1> HIDE DEF pairs
<1>13. ASSUME NEW i \in DOMAIN list
       PROVE  <<slots'[list[i]].type, slots'[list[i]].value>> =
                  IF pairs[i][1] = a THEN <<a, v>> ELSE pairs[i]
  <2>1. CASE i = j
    BY <1>2, <1>9, <1>12, <2>1
  <2>2. CASE i # j
    <3>1. slots[list[i]].type # a /\ list[i] # s /\ list[i] \in SlotIds
      BY <1>9, <2>2
    <3> QED
      BY <1>2, <1>12, <3>1
  <2> QED
    BY <2>1, <2>2
<1>14. AttrList(n)' = [i \in DOMAIN pairs |-> IF pairs[i][1] = a THEN <<a, v>> ELSE pairs[i]]
  BY <1>11, <1>12, <1>13
<1>15. \E i \in DOMAIN pairs : pairs[i][1] = a
  BY <1>9, <1>12
<1>16. AttrList(n)' = Tree!With(AttrList(n), a, v)
  BY <1>10, <1>14, <1>15 DEF Tree!With
<1>17. Labels' = [Labels EXCEPT ![n].attrs = Tree!With(AttrList(n), a, v)]
  BY <1>2, <1>7, <1>16, LabelsSet
<1>18. Labels[n].attrs = AttrList(n) /\ DOMAIN Labels = NodeIds
  BY DEF Labels
<1>19. Tree!SetAttr(n, a, v)
  BY <1>1, <1>2, <1>4, <1>17, <1>18 DEF Tree!SetAttr
<1> QED
  BY <1>4, <1>18, <1>19 DEF Tree!Next

LEMMA RestMaps ==
    ASSUME TypeOK, SlotInv, TypeOK', SlotInv', TreeInv', DocInv,
           AbortStep \/ EndAttrs \/ UNCHANGED vars
    PROVE  DocInv' /\ [Tree!Next]_(Tree!vars)
<1>1. UNCHANGED <<graph, node_stack, node_depth>> /\ node_count' = node_count
  BY DEF AbortStep, Abort, EndAttrs, vars, graph, stack
<1>2. Labels' = Labels /\ VisitRecurse' = VisitRecurse /\ VisitRec'
  BY <1>1, GraphKept DEF SlotInv, TreeInv, DocInv
<1>3. DocInv' /\ Document' = Document /\ OpenPath' = OpenPath
  BY <1>1, <1>2 DEF DocInv, VisitInv, Visit, Document, OpenPath
<1>4. CASE AbortStep
  <2>1. OpenPath = <<>> \/ Len(OpenPath) = MaxDepth
    <3>1. OpenPath \in Seq(Nat) /\ Len(OpenPath) = node_depth
      BY PathType DEF PathOK
    <3>2. node_depth = 0 \/ node_depth = MaxDepth
      BY <1>4 DEF AbortStep
    <3> QED
      BY <3>1, <3>2
  <2>2. Tree!Fail
    BY <1>2, <1>3, <1>4, <2>1 DEF Tree!Fail, AbortStep, Abort
  <2> QED
    BY <1>3, <2>2 DEF Tree!Next
<1>5. CASE EndAttrs \/ UNCHANGED vars
  <2>1. aborted' = aborted
    BY <1>5 DEF EndAttrs, vars
  <2> QED
    BY <1>2, <1>3, <2>1 DEF Tree!vars
<1> QED
  BY <1>4, <1>5

LEMMA InitMaps == Init => DocInv /\ Tree!Init
<1> SUFFICES ASSUME Init PROVE DocInv /\ Tree!Init
  OBVIOUS
<1>1. TypeOK /\ LinksAgree
  BY InitSlots, InitTree DEF TreeInv
<1>2. node_count = 0 /\ node_depth = 0 /\ NodeIds = {} /\ 0..(node_count - 1) = {}
  BY DEF Init, NodeIds
<1> DEFINE none == [n \in {} |-> <<>>]
<1>3. IsVisit(none, nodes, node_count)
  BY <1>2 DEF IsVisit
<1>4. VisitRecurse = none
  BY <1>1, <1>3, VisitFound DEF OneVisit
<1>5. VisitRec
  BY <1>2, <1>3, <1>4 DEF VisitRec
<1>6. VisitInv
  BY <1>2 DEF VisitInv
<1>7. Document = <<>>
  BY <1>2 DEF Document
<1>8. OpenPath = <<>>
  <2>1. OpenPath \in Seq(Nat) /\ Len(OpenPath) = 0
    BY <1>1, <1>2, PathType DEF PathOK
  <2> QED
    BY <2>1
<1>9. Labels = [n \in {} |-> <<>>]
  BY <1>2 DEF Labels
<1>10. aborted = FALSE
  BY DEF Init
<1> QED
  BY <1>5, <1>6, <1>7, <1>8, <1>9, <1>10 DEF DocInv, Tree!Init

(* The inductive invariant of the refinement, and of whatever else reads   *)
(* and emits well-formed documents.                                        *)
GraphInv == TypeOK /\ SlotInv /\ TreeInv /\ AttrInv /\ DocInv

LEMMA GraphInit == Init => GraphInv /\ Tree!Init
<1>1. Init => AttrInv
  BY DEF Init, AttrInv, AttrsUnique, ListsApart, NodeIds
<1> QED
  BY <1>1, InitSlots, InitTree, InitMaps DEF GraphInv

LEMMA GraphStep ==
    ASSUME WellFormed, GraphInv, [Next]_vars
    PROVE  GraphInv' /\ [Tree!Next]_(Tree!vars)
<1>0. TypeOK /\ SlotInv /\ TreeInv /\ AttrInv /\ DocInv
  BY DEF GraphInv
<1>1. TypeOK' /\ SlotInv' /\ TreeInv'
  BY <1>0, TypeStep, SlotStep, TreeStep DEF SlotInv
<1>2. AttrInv'
  BY <1>0, <1>1, AttrStep
<1>3. \/ AddStep
      \/ PopStep
      \/ NewStep
      \/ OldStep
      \/ AbortStep \/ EndAttrs \/ UNCHANGED vars
  BY <1>0, NextWrites DEF SlotInv, AttrInv
<1>4. DocInv' /\ [Tree!Next]_(Tree!vars)
  BY <1>0, <1>1, <1>3, AddMaps, PopMaps, NewMaps, OldMaps, RestMaps
<1> QED
  BY <1>1, <1>2, <1>4 DEF GraphInv

(* The parser and its callers replay DocTree: for every well-formed        *)
(* document, of any length and of any depth the stack has room for, what   *)
(* musvg_visit yields with the ends of the open elements left off is the   *)
(* document so far, in order and under the right parents, and every node   *)
(* has the attributes it was given, in order; each handler does one step   *)
(* of DocTree or none.                                                     *)
THEOREM Implements == WellFormed /\ Spec => TreeSpec
<1> SUFFICES ASSUME WellFormed PROVE Spec => TreeSpec
  OBVIOUS
<1>1. GraphInv /\ [Next]_vars => GraphInv' /\ [Tree!Next]_(Tree!vars)
  BY GraphStep
<1> QED
  BY <1>1, GraphInit, PTL DEF Spec, TreeSpec, Tree!Spec
=============================================================================
