------------------------------- MODULE SvgTree -------------------------------
(***************************************************************************)
(* The node graph that the parsers of src/musvg.c build and the emitters   *)
(* visit.                                                                  *)
(*                                                                         *)
(* Nodes and attribute slots live in two growing arrays and refer to each  *)
(* other by index; 0 stands for "none" (and is also the index of the first *)
(* node).  A node knows its parent (`up'), its elder sibling (`left') and  *)
(* its youngest child (`down'): the children of a node are a list that is  *)
(* read backwards.  A stack of MaxDepth indices, one per level, holds the  *)
(* open elements and, one level below them, the child added last.          *)
(*                                                                         *)
(* Every attribute value has storage of its own, allocated together with   *)
(* its slot, so a slot here holds its value; the text or the bytes that    *)
(* the value is read from are abstracted to Values.  An element or an      *)
(* attribute whose name is not in the tables is passed over by the parsers *)
(* and changes nothing.                                                    *)
(***************************************************************************)
EXTENDS Naturals, Sequences

CONSTANTS
    Elements,   \* the element types
    Attrs,      \* the attribute types
    Values,     \* the values of attributes
    MaxDepth,   \* musvg_max_depth
    MaxNodes,   \* a bound on the number of nodes, for model checking
    MaxSlots,   \* a bound on the number of attribute slots, likewise
    ManyRoots,  \* documents may have more than one outermost element
    FullDepth   \* documents may nest MaxDepth elements

ASSUME DepthAssumption == MaxDepth \in Nat \ {0}
ASSUME BoundsAssumption == MaxNodes \in Nat /\ MaxSlots \in Nat
ASSUME InputAssumption == ManyRoots \in BOOLEAN /\ FullDepth \in BOOLEAN

VARIABLES
    node_count,  \* p->nodes.count
    nodes,       \* p->nodes
    slot_count,  \* p->slots.count; slot 0 is reserved
    slots,       \* p->slots, with the storage each of them points to
    node_stack,  \* p->node_stack
    node_depth,  \* p->node_depth
    reading,     \* the attributes of the newest node are being read
    aborted,     \* the program has called abort()
    open         \* history: how many elements the document has open

graph == <<node_count, nodes, slot_count, slots>>
stack == <<node_stack, node_depth>>
vars == <<graph, stack, reading, aborted, open>>

NodeIds == 0..(node_count - 1)
SlotIds == 1..(slot_count - 1)
Levels == 0..(MaxDepth - 1)

Init ==
    /\ node_count = 0
    /\ nodes = [n \in {} |-> 0]
    /\ slot_count = 1
    /\ slots = [s \in {} |-> 0]
    /\ node_stack = [d \in Levels |-> 0]
    /\ node_depth = 0
    /\ reading = FALSE
    /\ aborted = FALSE
    /\ open = 0

-----------------------------------------------------------------------------
(* Nodes *)

Abort == aborted' = TRUE /\ UNCHANGED <<graph, stack, reading, open>>

(* The new node, the last child of the element that is open at the level   *)
(* above.  At level 0 there is none, and the "parent" is node 0: the new   *)
(* node itself, or the root that came before it.                           *)
Linked(type) ==
    LET new == node_count
        parent == IF node_depth > 0 THEN node_stack[node_depth - 1] ELSE 0
        node == [type |-> type, left |-> node_stack[node_depth], down |-> 0,
                 up |-> parent, attr |-> 0]
        grown == [n \in 0..new |-> IF n = new THEN node ELSE nodes[n]]
    IN  [grown EXCEPT ![parent].down = new]

NodeAddFirstOnly(type) ==
    /\ node_depth < MaxDepth
    /\ node_count < MaxNodes
    /\ nodes' = Linked(type)
    /\ node_count' = node_count + 1
    /\ node_stack' = [node_stack EXCEPT ![node_depth] = IF @ = 0 THEN node_count ELSE @]
    /\ node_depth' = node_depth + 1
    /\ reading' = TRUE
    /\ open' = open + 1
    /\ UNCHANGED <<slot_count, slots, aborted>>

NodeAdd(type) ==
    /\ node_depth < MaxDepth
    /\ node_count < MaxNodes
    /\ nodes' = Linked(type)
    /\ node_count' = node_count + 1
    /\ node_stack' = [node_stack EXCEPT ![node_depth] = node_count]
    /\ node_depth' = node_depth + 1
    /\ reading' = TRUE
    /\ open' = open + 1
    /\ UNCHANGED <<slot_count, slots, aborted>>

(* What of documents the parsers are given. *)
Accepts ==
    /\ ManyRoots \/ open > 0 \/ node_count = 0
    /\ FullDepth \/ open + 1 < MaxDepth

(* musvg_start_element, and an element byte in musvg_parse_binary. *)
StartElement(type) ==
    /\ ~aborted
    /\ ~reading
    /\ Accepts
    /\ \/ NodeAdd(type)
       \/ node_depth = MaxDepth /\ Abort

StackPopStale ==
    /\ node_depth > 0
    /\ node_depth' = node_depth - 1
    /\ open' = open - 1
    /\ UNCHANGED <<graph, node_stack, reading, aborted>>

(* musvg_stack_pop clears the level below the closed element.  Below level *)
(* MaxDepth - 1 there is none: the store falls on the memory that follows  *)
(* node_stack, which is node_depth, and the compiler may order it before   *)
(* or after the store of the decremented depth.                            *)
StackPop ==
    /\ node_depth > 0
    /\ \/ /\ node_depth < MaxDepth
          /\ node_stack' = [node_stack EXCEPT ![node_depth] = 0]
          /\ node_depth' = node_depth - 1
       \/ /\ node_depth = MaxDepth
          /\ node_depth' \in {0, node_depth - 1}
          /\ UNCHANGED node_stack
    /\ open' = open - 1
    /\ UNCHANGED <<graph, reading, aborted>>

(* musvg_end_element, and element_none in musvg_parse_binary. *)
EndElement ==
    /\ ~aborted
    /\ ~reading
    /\ \/ StackPop
       \/ node_depth = 0 /\ Abort

-----------------------------------------------------------------------------
(* Attributes *)

SlotListNewestFirst[s \in 0..(slot_count - 1)] ==
    IF s = 0 THEN <<>> ELSE <<s>> \o SlotListNewestFirst[slots[s].left]

AttrSlotsNewestFirst(n) == SlotListNewestFirst[nodes[n].attr]

(* The slots that `left' leads to from slot s on, oldest first.            *)
SlotList[s \in 0..(slot_count - 1)] ==
    IF s = 0 THEN <<>> ELSE Append(SlotList[slots[s].left], s)

(* musvg_node_attr_slots: the slots of a node, oldest first. *)
AttrSlots(n) == SlotList[nodes[n].attr]

(* find_attr: the slot of a node's attribute, 0 if it has none. *)
FindAttr(n, a) ==
    LET find[s \in 0..(slot_count - 1)] ==
            IF s = 0 \/ slots[s].type = a THEN s ELSE find[slots[s].left]
    IN  find[nodes[n].attr]

AllocAttrAlone(n, a, v) ==
    /\ slot_count <= MaxSlots
    /\ slots' = [s \in 1..slot_count |->
                    IF s = slot_count THEN [type |-> a, left |-> 0, value |-> v]
                                      ELSE slots[s]]
    /\ slot_count' = slot_count + 1
    /\ nodes' = [nodes EXCEPT ![n].attr = slot_count]
    /\ UNCHANGED <<node_count, stack, reading, aborted, open>>

(* alloc_attr, and the store of v in the new storage. *)
AllocAttr(n, a, v) ==
    /\ slot_count <= MaxSlots
    /\ slots' = [s \in 1..slot_count |->
                    IF s = slot_count
                    THEN [type |-> a, left |-> nodes[n].attr, value |-> v]
                    ELSE slots[s]]
    /\ slot_count' = slot_count + 1
    /\ nodes' = [nodes EXCEPT ![n].attr = slot_count]
    /\ UNCHANGED <<node_count, stack, reading, aborted, open>>

SetSlot(s, v) ==
    /\ slots' = [slots EXCEPT ![s].value = v]
    /\ UNCHANGED <<node_count, nodes, slot_count, stack, reading, aborted, open>>

WriteAttrAnew(n, a, v) == AllocAttr(n, a, v)

(* A reader of attribute values: attr_pointer, and the store of v there. *)
WriteAttr(n, a, v) ==
    \/ \E s \in SlotIds : s = FindAttr(n, a) /\ SetSlot(s, v)
    \/ FindAttr(n, a) = 0 /\ AllocAttr(n, a, v)

(* One turn of the loop over the attributes of an element that was read. *)
ReadAttr(a, v) ==
    /\ reading
    /\ WriteAttr(node_count - 1, a, v)

(* The end of that loop; and of a binary input cut off in it. *)
EndAttrs ==
    /\ reading
    /\ reading' = FALSE
    /\ UNCHANGED <<graph, stack, aborted, open>>

(* musvg_attr_value_set_value writes no attribute the node does not have. *)
AttrValueSet(n, a, v) ==
    /\ ~aborted
    /\ ~reading
    /\ \E s \in SlotIds : s = FindAttr(n, a) /\ SetSlot(s, v)

(* musvg_attr_value_get goes through attr_pointer, which allocates the     *)
(* attribute if the node does not have it; what is read then is whatever   *)
(* the storage holds.                                                      *)
AttrValueGet(n, a) ==
    /\ ~aborted
    /\ ~reading
    /\ FindAttr(n, a) = 0
    /\ \E v \in Values : AllocAttr(n, a, v)

-----------------------------------------------------------------------------
(* musvg_visit_recurse: begin and end of node n and its elder siblings,    *)
(* the eldest first, each around the visit of its children.                *)
VisitRecurse[n \in NodeIds] ==
    (IF nodes[n].left = 0 THEN <<>> ELSE VisitRecurse[nodes[n].left])
    \o <<<<"start", n>>>>
    \o (IF nodes[n].down = 0 THEN <<>> ELSE VisitRecurse[nodes[n].down])
    \o <<<<"end", n>>>>

(* musvg_visit: every element that can be reached from node 0.  Visiting a *)
(* graph without nodes is not defined.                                     *)
Visit == VisitRecurse[0]

-----------------------------------------------------------------------------
Next ==
    \/ \E t \in Elements : StartElement(t)
    \/ EndElement
    \/ \E a \in Attrs, v \in Values : ReadAttr(a, v)
    \/ EndAttrs
    \/ \E n \in NodeIds, a \in Attrs, v \in Values : AttrValueSet(n, a, v)
    \/ \E n \in NodeIds, a \in Attrs : AttrValueGet(n, a)

Spec == Init /\ [][Next]_vars

-----------------------------------------------------------------------------
(* Properties *)

Node == [type : Elements, left : Nat, down : Nat, up : Nat, attr : Nat]
Slot == [type : Attrs, left : Nat, value : Values]

(* The types of the parser's arrays, stack and counters. *)
TypeOK ==
    /\ node_count \in Nat
    /\ nodes \in [NodeIds -> Node]
    /\ slot_count \in Nat \ {0}
    /\ slots \in [SlotIds -> Slot]
    /\ node_stack \in [Levels -> Nat]
    /\ node_depth \in 0..MaxDepth
    /\ reading \in BOOLEAN
    /\ aborted \in BOOLEAN
    /\ open \in Nat

Children(n) == {c \in NodeIds \ {0} : nodes[c].up = n}

(* c is the greatest of the numbers `set', 0 if there is none. *)
IsLast(c, set) ==
    IF set = {} THEN c = 0 ELSE c \in set /\ \A d \in set : d <= c

Elders(n) == {c \in Children(nodes[n].up) : c < n}

UpIsOlder == \A n \in NodeIds : n # 0 => nodes[n].up < n

DownIsYoungest == \A n \in NodeIds : IsLast(nodes[n].down, Children(n))

LeftIsElder == \A n \in NodeIds : IsLast(nodes[n].left, Elders(n))

(* The three links of musvg_node_add agree: every node but the root hangs  *)
(* below an older node, `down' is the youngest child and `left' the next   *)
(* elder sibling, so that no child is lost and none is visited twice.      *)
LinksAgree == UpIsOlder /\ DownIsYoungest /\ LeftIsElder

(* The indices of the nodes are a preorder of the tree, so that an array   *)
(* indexed by node is in document order: nothing is added below an element *)
(* once another one has been started after it at its level or above.       *)
Preorder ==
    \A m, n \in NodeIds :
        0 < m /\ m < n /\ nodes[n].up < m => nodes[n].up <= nodes[m].up

SlotOwned(s) ==
    /\ \/ \E n \in NodeIds : nodes[n].attr = s
       \/ \E t \in SlotIds : t > s /\ slots[t].left = s
    /\ \A m, n \in NodeIds : nodes[m].attr = s /\ nodes[n].attr = s => m = n
    /\ \A t, u \in SlotIds : slots[t].left = s /\ slots[u].left = s => t = u
    /\ ~ \E n \in NodeIds, t \in SlotIds : nodes[n].attr = s /\ slots[t].left = s

(* Every slot is on the list of one node, in one place: there is one       *)
(* reference to it, from a node's `attr' or from a younger slot's `left'.  *)
SlotsOwned == \A s \in SlotIds : SlotOwned(s)

(* A node has an attribute once, however often it is written: a list of    *)
(* slots is never longer than the number of attributes, which the emitters *)
(* rely on when they fetch it into an array of 64.                         *)
AttrsUnique ==
    \A n \in NodeIds :
        LET list == AttrSlots(n)
        IN  \A i, j \in DOMAIN list :
                slots[list[i]].type = slots[list[j]].type => i = j

(* The parser implements the document that DocTree describes: visiting the *)
(* graph, with the ends of the elements that are still open left off,      *)
(* replays the elements in document order, under their parents and with    *)
(* their attributes.                                                       *)
Document ==
    IF node_count = 0 THEN <<>> ELSE SubSeq(Visit, 1, Len(Visit) - node_depth)

OpenPath == [k \in 1..node_depth |-> node_stack[k - 1]]

AttrList(n) ==
    LET list == AttrSlots(n)
    IN  [i \in DOMAIN list |-> <<slots[list[i]].type, slots[list[i]].value>>]

Labels == [n \in NodeIds |-> [type |-> nodes[n].type, attrs |-> AttrList(n)]]

Tree == INSTANCE DocTree
        WITH doc <- Document, path <- OpenPath, label <- Labels, failed <- aborted

TreeSpec == Tree!Spec
=============================================================================
