----------------------------- MODULE SvgTreeInv -----------------------------
(***************************************************************************)
(* The inductive invariants of SvgTree from which SvgTreeProofs proves its *)
(* properties; the runs check them on small instances first.               *)
(***************************************************************************)
EXTENDS SvgTree

(* What the theorems about the tree assume of documents: one root, and no  *)
(* element at the last level of the stack.                                 *)
WellFormed == ~ManyRoots /\ ~FullDepth

(* The references to slots go to older slots, and to slots that exist.     *)
RefsBelow ==
    /\ \A n \in NodeIds : nodes[n].attr < slot_count
    /\ \A s \in SlotIds : slots[s].left < s

(* There is a node to give an attribute to while attributes are read, and  *)
(* the stack holds no more elements than are open.                         *)
ReadingInv ==
    /\ reading => node_count > 0
    /\ node_depth <= open

(* The first node_depth entries of the stack are the open elements, each a *)
(* child of the one before it; the entry after them is the last child of   *)
(* the innermost, and the rest is clear.                                   *)
StackInv ==
    /\ open = node_depth
    /\ node_depth < MaxDepth
    /\ node_stack[0] = 0
    /\ node_count = 0 => node_depth = 0
    /\ \A d \in 0..(node_depth - 1) : node_stack[d] \in NodeIds
    /\ \A d, e \in 0..(node_depth - 1) : d < e => node_stack[d] < node_stack[e]
    /\ \A d \in 1..node_depth : node_stack[d] = nodes[node_stack[d - 1]].down
    /\ \A d \in Levels : d > node_depth => node_stack[d] = 0

(* All that came after an open element is below it.                        *)
OpenInv ==
    \A d \in 0..(node_depth - 1), m \in NodeIds :
        m > node_stack[d] => nodes[m].up >= node_stack[d]

(* The inductive invariant of well-formed documents.                       *)
TreeInv == StackInv /\ OpenInv /\ LinksAgree /\ Preorder

(* The inductive invariant of every document.                              *)
SlotInv == RefsBelow /\ ReadingInv /\ SlotsOwned

(* A slot is on the list of one node; no attributes are read once the      *)
(* program has ended.                                                      *)
ListsApart ==
    \A m, n \in NodeIds :
        \A i \in DOMAIN AttrSlots(m), j \in DOMAIN AttrSlots(n) :
            AttrSlots(m)[i] = AttrSlots(n)[j] => m = n

AttrInv == AttrsUnique /\ ListsApart /\ (reading => ~aborted)

(* The visit of the graph ends with the ends of the open elements, the     *)
(* innermost first; and that of each of them with the ends of those in it. *)
VisitInv ==
    node_depth > 0 =>
        /\ \A d \in 0..(node_depth - 1) :
              /\ Len(VisitRecurse[node_stack[d]]) >= node_depth - d
              /\ Visit[Len(Visit) - d] = <<"end", node_stack[d]>>
=============================================================================
