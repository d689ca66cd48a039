------------------------------ MODULE AttrStore ------------------------------
(***************************************************************************)
(* Where attribute values live: the storage buffer, in which each value of *)
(* a node has an aligned block, and the arrays of strings, points and path *)
(* operations that the blocks refer to by offset.                          *)
(*                                                                         *)
(* As in SvgPipe there are two runs of the program.  The first reads the   *)
(* attributes of nodes as text, and emits them; the second reads what was  *)
(* emitted.  How nodes and slots are linked is the matter of SvgTree: here *)
(* a node is the sequence of its slots.                                    *)
(***************************************************************************)
EXTENDS AttrBinary

CONSTANTS
    Texts,     \* the attributes that may be read, as <<name, text>>
    Formats,   \* the formats that may be emitted
    Pow2Ge,    \* pow2_ge, by which a buffer grows
    MaxBuffer, \* a bound on the bytes of a buffer, for model checking
    MaxReads,  \* a bound on the attributes that are read, likewise
    MaxNodes   \* a bound on the nodes that are read, likewise

ASSUME FormatsAssumption == Formats \subseteq {"binary", "xml"}
ASSUME BufferAssumption ==
    /\ MaxBuffer \in Nat
    /\ Pow2Ge \in [0..MaxBuffer -> Nat]
    /\ \A n \in 0..MaxBuffer : Pow2Ge[n] >= n

VARIABLES
    nodes,       \* for each node its slots, each an attribute and its block
    storage,     \* p->storage: offset and capacity
    blocks,      \* what is in storage, by offset
    strings,     \* p->strings: offset and capacity
    names,       \* what is in strings, by offset
    points,      \* p->points
    path_ops,    \* p->path_ops and p->path_points
    todo,        \* the declarations that are left of an attribute
    reads,       \* how many attributes have been read
    given,       \* history: the value that each block was last given
    stage,       \* "source" or "copy"
    format,      \* the format of the file in transit
    sent,        \* history: what the first run has written, as text
    exact,       \* history: nothing was sent that the format cannot keep
    wire,        \* what the second run has yet to read
    crashed      \* the program has ended abnormally

block_vars == <<nodes, storage, blocks, given>>
array_vars == <<strings, names, points, path_ops>>
pipe_vars == <<stage, format, sent, exact>>
vars == <<block_vars, array_vars, todo, reads, pipe_vars, wire, crashed>>

Empty == [b \in {} |-> 0]

(* storage_buffer_init, and the byte at 0 that is reserved. *)
FreshBuffer == [offset |-> 1, capacity |-> 16]

Init ==
    /\ nodes = <<<<>>>>
    /\ storage = FreshBuffer
    /\ blocks = Empty
    /\ strings = FreshBuffer
    /\ names = Empty
    /\ points = <<>>
    /\ path_ops = <<>>
    /\ todo = <<>>
    /\ reads = 0
    /\ given = Empty
    /\ stage = "source"
    /\ format \in Formats
    /\ sent = <<>>
    /\ exact = TRUE
    /\ wire = <<>>
    /\ crashed = FALSE

-----------------------------------------------------------------------------
(* Buffers *)

AlignUp(n, align) == ((n + align - 1) \div align) * align

(* storage_buffer_alloc: where the block is, and the buffer then. *)
BlockAt(sb, align) == AlignUp(sb.offset, align)

EndUnaligned(sb, size, align) == sb.offset + AlignUp(size, align)

EndAt(sb, size, align) == BlockAt(sb, align) + AlignUp(size, align)

Fits(sb, size, align) == EndAt(sb, size, align) <= MaxBuffer

Grown(sb, size, align) ==
    LET end == EndAt(sb, size, align)
    IN  [offset |-> end,
         capacity |-> IF end > sb.capacity THEN Pow2Ge[end] ELSE sb.capacity]

-----------------------------------------------------------------------------
(* Attributes *)

SlotOf(n, a) == {i \in DOMAIN nodes[n] : nodes[n][i].attr = a}

(* alloc_attr *)
AllocAttr(n, a, record, value) ==
    LET align == TypeAlign(AttrType(a))
        at    == BlockAt(storage, align)
        block == [attr |-> a, record |-> record]
    IN  /\ Fits(storage, TypeSize(AttrType(a)), align)
        /\ storage' = Grown(storage, TypeSize(AttrType(a)), align)
        /\ nodes' = [nodes EXCEPT ![n] = Append(@, [attr |-> a, at |-> at])]
        /\ blocks' = [b \in DOMAIN blocks \union {at} |-> IF b = at THEN block ELSE blocks[b]]
        /\ given' = [b \in DOMAIN given \union {at} |-> IF b = at THEN value ELSE given[b]]

SetAttr(n, a, record, value) ==
    \E i \in SlotOf(n, a) :
        /\ blocks' = [blocks EXCEPT ![nodes[n][i].at].record = record]
        /\ given' = [given EXCEPT ![nodes[n][i].at] = value]
        /\ UNCHANGED <<nodes, storage>>

(* attr_pointer, and the store of a record there. *)
Store(n, a, record, value) ==
    \/ SetAttr(n, a, record, value)
    \/ SlotOf(n, a) = {} /\ AllocAttr(n, a, record, value)

(* alloc_string; the copy ends with a zero. *)
AllocString(name) ==
    /\ Fits(strings, NameLen(name) + 1, 1)
    /\ names' = [s \in DOMAIN names \union {strings.offset} |->
                    IF s = strings.offset THEN name ELSE names[s]]
    /\ strings' = Grown(strings, NameLen(name) + 1, 1)

View(offset, count) == [offset |-> offset, count |-> count]

ArgsBefore(ops, i) == FlattenSeq([k \in 1..(i - 1) |-> ops[k].args])

OpRecordsAtOnce(ops) ==
    [i \in DOMAIN ops |->
        [code |-> ops[i].code, args |-> View(Len(points), Len(ops[i].args))]]

(* The operations of a path as they are stored.  The text parser gives an  *)
(* operation without arguments no place among the points; the binary       *)
(* reader gives it one.                                                    *)
OpRecords(ops) ==
    [i \in DOMAIN ops |->
        [code |-> ops[i].code,
         args |-> IF stage = "source" /\ ops[i].args = <<>> THEN View(0, 0)
                  ELSE View(Len(points) + Len(ArgsBefore(ops, i)), Len(ops[i].args))]]

StoreId(n, a, v) ==
    /\ AttrType(a) = "id"
    /\ AllocString(v)
    /\ Store(n, a, [name |-> strings.offset], v)
    /\ UNCHANGED <<points, path_ops>>

StoreColor(n, a, v) ==
    /\ AttrType(a) = "color"
    /\ \/ v.type = "url" /\ AllocString(v.name)
       \/ v.type # "url" /\ UNCHANGED <<strings, names>>
    /\ Store(n, a, [type |-> v.type, word |-> v.word, name |-> strings.offset], v)
    /\ UNCHANGED <<points, path_ops>>

StorePoints(n, a, v) ==
    /\ AttrType(a) = "points"
    /\ points' = points \o v
    /\ Store(n, a, View(Len(points), Len(v)), v)
    /\ UNCHANGED <<strings, names, path_ops>>

StorePathRebased(n, a, v) ==
    /\ AttrType(a) = "path"
    /\ points' = points \o ArgsBefore(v, Len(v) + 1)
    /\ path_ops' = path_ops \o OpRecords(v)
    /\ Store(n, a, View(0, Len(path_ops) + Len(v)), v)
    /\ UNCHANGED <<strings, names>>

StorePath(n, a, v) ==
    /\ AttrType(a) = "path"
    /\ points' = points \o ArgsBefore(v, Len(v) + 1)
    /\ path_ops' = path_ops \o OpRecords(v)
    /\ Store(n, a, View(Len(path_ops), Len(v)), v)
    /\ UNCHANGED <<strings, names>>

StorePlain(n, a, v) ==
    /\ AttrType(a) \notin {"id", "color", "points", "path"}
    /\ Store(n, a, v, v)
    /\ UNCHANGED array_vars

StoreValue(n, a, v) ==
    \/ StoreId(n, a, v)
    \/ StoreColor(n, a, v)
    \/ StorePoints(n, a, v)
    \/ StorePath(n, a, v)
    \/ StorePlain(n, a, v)

(* What is read back through a block. *)
Points(view) == SubSeq(points, view.offset + 1, view.offset + view.count)

Value(b) ==
    LET r    == blocks[b].record
        type == AttrType(blocks[b].attr)
    IN  CASE type = "id" -> names[r.name]
          [] type = "color" ->
                [type |-> r.type, word |-> r.word,
                 name |-> IF r.type = "url" THEN names[r.name] ELSE <<>>]
          [] type = "points" -> Points(r)
          [] type = "path" ->
                [k \in 1..r.count |->
                    Op(path_ops[r.offset + k].code, Points(path_ops[r.offset + k].args))]
          [] type \notin {"id", "color", "points", "path"} -> r

-----------------------------------------------------------------------------
(* Reading the source *)

TrimRight(text) ==
    SubSeq(text, 1, Max({i \in DOMAIN text : text[i].kind # " "} \union {0}))

Declaration(text) ==
    LET colon == Find(text, 1, {":"})
        name  == TrimRight(SubSeq(text, 1, colon - 1))
    IN  IF Len(name) = 1
        THEN <<<<name[1].kind, SubSeq(text, Skip(text, colon, {":", " "}), Len(text))>>>>
        ELSE <<>>

(* musvg_parse_style.  The name of a declaration without a colon takes in  *)
(* the semicolon that ends it, and is unknown; at the end of the text, or  *)
(* before white space, it is not, and its value is empty.                  *)
Declarations(text) ==
    LET declarations[i \in 1..(Len(text) + 2)] ==
            LET from == Skip(text, i, Space)
                to   == Find(text, from, {";"})
                item == TrimRight(SubSeq(text, from, to - 1))
                bare == /\ Find(item, 1, {":"}) > Len(item)
                        /\ to <= Len(text)
                        /\ Len(item) = to - from
            IN  IF i > Len(text) THEN <<>>
                ELSE (IF bare THEN <<>> ELSE Declaration(item)) \o declarations[to + 1]
    IN  declarations[1]

(* musvg_parse_attr *)
Parts(name, text) ==
    IF name = "style" THEN Declarations(text) ELSE <<<<name, text>>>>

(* A name is a token and has a length, be it of an id or of a paint        *)
(* server.  Numbers have nine digits.  There is a transform, without which *)
(* the value would not be initialised; and the numbers of its matrix are   *)
(* whole, as all are here.                                                 *)
IsName(name) == name = <<>> \/ (name = <<name[1]>> /\ name[1].number \in Nat \ {0})

TextKnown(name, text) ==
    /\ \A i \in DOMAIN text : text[i].number \in (IF IsNum(text[i]) THEN Whole ELSE Nat)
    /\ name \in AttrNames /\ AttrType(name) = "id" => IsName(text)
    /\ name \in AttrNames /\ AttrType(name) = "color" =>
          NameLen(ParseColor(text).name) \in Nat
    /\ name \in AttrNames /\ AttrType(name) = "transform" =>
          /\ TransformList(text) # <<>>
          /\ \A f \in Range(TransformList(text)) : MatrixOf(f) \in [1..6 -> Int]

ASSUME TextsAssumption ==
    \A t \in Texts :
        /\ t[2] \in Seq(Range(t[2]))
        /\ \A part \in Range(Parts(t[1], t[2])) : TextKnown(part[1], part[2])

StartAttr ==
    /\ stage = "source"
    /\ ~crashed
    /\ todo = <<>>
    /\ reads < MaxReads
    /\ \E t \in Texts : todo' = Parts(t[1], t[2])
    /\ reads' = reads + 1
    /\ UNCHANGED <<block_vars, array_vars, pipe_vars, wire, crashed>>

ParseFault(a, text) == AttrType(a) = "path" /\ ScanPath(text).fault

(* An attribute that is not in the table is passed over. *)
ReadText(n, a, text) ==
    \/ /\ a \notin AttrNames
       /\ UNCHANGED <<block_vars, array_vars, crashed>>
    \/ /\ a \in AttrNames
       /\ ~ParseFault(a, text)
       /\ StoreValue(n, a, ParseText(a, text))
       /\ UNCHANGED crashed
    \/ /\ a \in AttrNames
       /\ ParseFault(a, text)
       /\ crashed' = TRUE
       /\ UNCHANGED <<block_vars, array_vars>>

ReadAttr ==
    /\ ~crashed
    /\ todo # <<>>
    /\ todo' = Tail(todo)
    /\ ReadText(Len(nodes), Head(todo)[1], Head(todo)[2])
    /\ UNCHANGED <<reads, pipe_vars, wire>>

NextNode ==
    /\ stage = "source"
    /\ ~crashed
    /\ todo = <<>>
    /\ Len(nodes) < MaxNodes
    /\ nodes[Len(nodes)] # <<>>
    /\ nodes' = Append(nodes, <<>>)
    /\ UNCHANGED <<storage, blocks, given, array_vars, todo, reads, pipe_vars, wire, crashed>>

-----------------------------------------------------------------------------
(* Emitting, and reading the copy *)

Written(form, slot) ==
    <<slot.attr, IF form = "xml" THEN WriteText(slot.attr, Value(slot.at))
                                 ELSE WriteBinary(slot.attr, Value(slot.at))>>

File(form) == [n \in DOMAIN nodes |-> [i \in DOMAIN nodes[n] |-> Written(form, nodes[n][i])]]

(* What a format cannot hold: in text, a colour of more than 24 bits and a *)
(* path that is closed twice in a row; in the binary form, the name of an  *)
(* id that is too long for the reader, and points or a path for which it   *)
(* may have no points to allocate (AllocFault).                            *)
Kept(form, type, v) ==
    CASE form = "xml" /\ type = "color" -> v.word \subseteq 0..23
      [] form = "xml" /\ type = "path" ->
            \A i \in DOMAIN v : i > 1 => ~ (v[i].code = "Z" /\ v[i - 1].code = "Z")
      [] form = "binary" /\ type = "id" -> NameLen(v) < 128
      [] form = "binary" /\ type = "points" -> v # <<>>
      [] form = "binary" /\ type = "path" -> v # <<>> => v[1].args # <<>>
      [] OTHER -> TRUE

(* The text writer of a colour has 128 characters for it, and goes by the  *)
(* length that it would have.  What is written of a longer one is not      *)
(* defined, and it is not written here.                                    *)
Defined(form, type, v) ==
    form = "xml" /\ type = "color" /\ v.type = "url" => NameLen(v.name) <= 121

Emit ==
    /\ stage = "source"
    /\ ~crashed
    /\ todo = <<>>
    /\ \A b \in DOMAIN blocks : Defined(format, AttrType(blocks[b].attr), Value(b))
    /\ exact' = \A b \in DOMAIN blocks : Kept(format, AttrType(blocks[b].attr), Value(b))
    /\ sent' = File("xml")
    /\ wire' = File(format)
    /\ stage' = "copy"
    /\ nodes' = <<<<>>>>
    /\ storage' = FreshBuffer
    /\ blocks' = Empty
    /\ strings' = FreshBuffer
    /\ names' = Empty
    /\ points' = <<>>
    /\ path_ops' = <<>>
    /\ given' = Empty
    /\ UNCHANGED <<todo, reads, format, crashed>>

(* An allocation of no points, while there are none, is not survived: see  *)
(* MuVec.                                                                  *)
AllocFault(a, v) ==
    /\ points = <<>>
    /\ \/ AttrType(a) = "points" /\ v = <<>>
       \/ AttrType(a) = "path" /\ v # <<>> /\ v[1].args = <<>>

(* The byte for the attribute is taken modulo the size of the table.  A    *)
(* reader that takes too few fields, or too many, takes those of the next  *)
(* attribute for something else.                                           *)
ReadFields(n, a, fields) ==
    LET r  == ReadBinary(a, fields, 1)
        ok == ~r.fault /\ r.next = Len(fields) + 1 /\ ~AllocFault(a, r.value)
    IN  /\ a \in AttrNames
        /\ \/ ok /\ StoreValue(n, a, r.value) /\ UNCHANGED crashed
           \/ ~ok /\ crashed' = TRUE /\ UNCHANGED <<block_vars, array_vars>>

ReadCopy ==
    /\ stage = "copy"
    /\ ~crashed
    /\ wire # <<>>
    /\ Head(wire) # <<>>
    /\ wire' = [wire EXCEPT ![1] = Tail(@)]
    /\ LET item == Head(Head(wire))
       IN  \/ format = "xml" /\ ReadText(Len(nodes), item[1], item[2])
           \/ format = "binary" /\ ReadFields(Len(nodes), item[1], item[2])
    /\ UNCHANGED <<todo, reads, pipe_vars>>

ReadCopyNext ==
    /\ stage = "copy"
    /\ ~crashed
    /\ wire # <<>>
    /\ Head(wire) = <<>>
    /\ wire' = Tail(wire)
    /\ nodes' = IF Len(wire) > 1 THEN Append(nodes, <<>>) ELSE nodes
    /\ UNCHANGED <<storage, blocks, given, array_vars, todo, reads, pipe_vars, crashed>>

Next == StartAttr \/ ReadAttr \/ NextNode \/ Emit \/ ReadCopy \/ ReadCopyNext

Spec == Init /\ [][Next]_vars

-----------------------------------------------------------------------------
(* Properties *)

BlockSize(b) == TypeSize(AttrType(blocks[b].attr))
BlockAlign(b) == TypeAlign(AttrType(blocks[b].attr))

(* Every block is aligned for its type and within storage, none is at the  *)
(* offset that means "not found", and no two have a byte in common.        *)
BlocksApart ==
    /\ storage.offset <= storage.capacity
    /\ \A b \in DOMAIN blocks :
          b > 0 /\ b % BlockAlign(b) = 0 /\ b + BlockSize(b) <= storage.offset
    /\ \A b, c \in DOMAIN blocks : b < c => b + BlockSize(b) <= c

(* Every block holds the value it was given last, whatever was read, and   *)
(* added to the arrays it refers to, after that.                           *)
ContentKept == \A b \in DOMAIN blocks : Value(b) = given[b]

(* The views of the shared arrays lie within them, and no two blocks, nor  *)
(* operations, ever share an element: a value may be changed in place.     *)
ViewsOf(type) ==
    {[of |-> <<"block", b>>, view |-> blocks[b].record] :
        b \in {c \in DOMAIN blocks : AttrType(blocks[c].attr) = type}}

OpViews == ViewsOf("path")
PointViews ==
    ViewsOf("points")
    \union {[of |-> <<"operation", i>>, view |-> path_ops[i].args] : i \in DOMAIN path_ops}

Disjoint(v, w) ==
    v.count > 0 /\ w.count > 0 =>
       v.offset + v.count <= w.offset \/ w.offset + w.count <= v.offset

Apart(views, length) ==
    /\ \A v \in views : v.view.offset + v.view.count <= length
    /\ \A v, w \in views : v.of # w.of => Disjoint(v.view, w.view)

ViewsApart == Apart(OpViews, Len(path_ops)) /\ Apart(PointViews, Len(points))

(* A text of several transforms is converted to one matrix, their product: *)
(* what it does to a point is what they do, the last one first.            *)
Product(list) == FoldLeft(LAMBDA m, f : Premultiply(m, MatrixOf(f)), Identity, list)

ReadsTransform ==
    /\ stage = "source"
    /\ todo # <<>>
    /\ Head(todo)[1] = "transform"
    /\ todo' = Tail(todo)

TransformsComposed ==
    [][ReadsTransform =>
        \E b \in DOMAIN blocks' :
            /\ blocks'[b].attr = "transform"
            /\ blocks'[b].record.xform = Product(TransformList(Head(todo)[2]))]_vars

(* What a format can hold arrives: the second run reads all of it, and     *)
(* writes as text what the first one would have.                           *)
RoundTrip ==
    stage = "copy" /\ exact => ~crashed /\ (wire = <<>> => File("xml") = sent)
=============================================================================
