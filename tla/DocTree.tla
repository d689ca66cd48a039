------------------------------- MODULE DocTree -------------------------------
(***************************************************************************)
(* What the node graph of src/musvg.c promises to those who visit it: the  *)
(* elements of a document, numbered 0, 1, ... as they are started, are     *)
(* replayed in the order in which they were started and ended, each with   *)
(* its type and with its attributes in the order in which they were first  *)
(* given.  An end for which no element is open, and a start below MaxDepth *)
(* open elements, end the program.                                         *)
(***************************************************************************)
EXTENDS Naturals, Sequences

CONSTANTS Elements, Attrs, Values, MaxDepth

VARIABLES
    doc,    \* the <<"start", n>> and <<"end", n>> events of the document
    path,   \* the elements that are open, outermost first
    label,  \* of each element: its type and <<attribute, value>> pairs
    failed  \* the program has been ended

vars == <<doc, path, label, failed>>

Init ==
    /\ doc = <<>>
    /\ path = <<>>
    /\ label = [n \in {} |-> <<>>]
    /\ failed = FALSE

(* `given' with attribute a given the value v: in its old place, or last. *)
With(given, a, v) ==
    IF \E i \in DOMAIN given : given[i][1] = a
    THEN [i \in DOMAIN given |-> IF given[i][1] = a THEN <<a, v>> ELSE given[i]]
    ELSE Append(given, <<a, v>>)

Open(n, t) ==
    /\ ~failed
    /\ Len(path) < MaxDepth
    /\ n \notin DOMAIN label
    /\ n = 0 \/ n - 1 \in DOMAIN label
    /\ doc' = Append(doc, <<"start", n>>)
    /\ path' = Append(path, n)
    /\ label' = [m \in 0..n |->
                    IF m = n THEN [type |-> t, attrs |-> <<>>] ELSE label[m]]
    /\ UNCHANGED failed

Close ==
    /\ ~failed
    /\ path # <<>>
    /\ doc' = Append(doc, <<"end", path[Len(path)]>>)
    /\ path' = SubSeq(path, 1, Len(path) - 1)
    /\ UNCHANGED <<label, failed>>

(* An attribute is given a value, by a parser or by the caller. *)
SetAttr(n, a, v) ==
    /\ ~failed
    /\ label' = [label EXCEPT ![n].attrs = With(@, a, v)]
    /\ UNCHANGED <<doc, path, failed>>

Fail ==
    /\ path = <<>> \/ Len(path) = MaxDepth
    /\ failed' = TRUE
    /\ UNCHANGED <<doc, path, label>>

Next ==
    \/ \E n \in {0} \union {m + 1 : m \in DOMAIN label}, t \in Elements : Open(n, t)
    \/ Close
    \/ \E n \in DOMAIN label, a \in Attrs, v \in Values : SetAttr(n, a, v)
    \/ Fail

Spec == Init /\ [][Next]_vars
=============================================================================
