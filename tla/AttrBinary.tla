------------------------------ MODULE AttrBinary ------------------------------
(***************************************************************************)
(* The binary form of attribute values, and all that depends on the type   *)
(* of an attribute: musvg_attr_types and the tables of functions.          *)
(*                                                                         *)
(* A value is written as a sequence of fields, each a number, a word or a  *)
(* name, which are the tokens of AttrText.  A reader takes fields from a   *)
(* place on; it yields the value and the place after it, or a fault, when  *)
(* an assertion fails.                                                     *)
(***************************************************************************)
EXTENDS AttrText

(* Some of the attributes; one or two of each type. *)
AttrNames ==
    {"stroke-linecap", "display", "id", "width", "stroke-dashoffset", "fill", "stroke",
     "transform", "stroke-dasharray", "fill-opacity", "viewBox", "preserveAspectRatio",
     "d", "points"}

AttrType(attr) ==
    CASE attr \in {"stroke-linecap", "display"} -> "enum"
      [] attr = "id" -> "id"
      [] attr \in {"width", "stroke-dashoffset"} -> "length"
      [] attr \in {"fill", "stroke"} -> "color"
      [] attr = "transform" -> "transform"
      [] attr = "stroke-dasharray" -> "dasharray"
      [] attr = "fill-opacity" -> "float"
      [] attr = "viewBox" -> "viewbox"
      [] attr = "preserveAspectRatio" -> "aspectratio"
      [] attr = "d" -> "path"
      [] attr = "points" -> "points"

(* musvg_type_storage, on a machine with 8 bytes to a long. *)
TypeSize(type) ==
    CASE type = "enum" -> 1
      [] type = "aspectratio" -> 3
      [] type = "float" -> 4
      [] type \in {"id", "length", "color"} -> 8
      [] type \in {"path", "points", "viewbox"} -> 16
      [] type = "dasharray" -> 36
      [] type = "transform" -> 40

TypeAlign(type) ==
    CASE type \in {"enum", "aspectratio"} -> 1
      [] type \in {"length", "dasharray", "float", "viewbox", "transform"} -> 4
      [] type \in {"id", "color", "path", "points"} -> 8

-----------------------------------------------------------------------------
(* Text *)

ParseText(attr, text) ==
    CASE AttrType(attr) = "enum" -> ParseEnum(attr, text)
      [] AttrType(attr) = "id" -> text
      [] AttrType(attr) = "length" -> ParseLength(text)
      [] AttrType(attr) = "color" -> ParseColor(text)
      [] AttrType(attr) = "transform" -> ParseTransform(text)
      [] AttrType(attr) = "dasharray" -> ParseDasharray(text)
      [] AttrType(attr) = "float" -> ParseFloat(text)
      [] AttrType(attr) = "viewbox" -> ParseViewbox(text)
      [] AttrType(attr) = "aspectratio" -> ParseAspectratio(text)
      [] AttrType(attr) = "path" -> ParsePath(text)
      [] AttrType(attr) = "points" -> ParsePoints(text)

WriteText(attr, v) ==
    CASE AttrType(attr) = "enum" -> WriteEnum(attr, v)
      [] AttrType(attr) = "id" -> v
      [] AttrType(attr) = "length" -> WriteLength(v)
      [] AttrType(attr) = "color" -> WriteColor(v)
      [] AttrType(attr) = "transform" -> WriteTransform(v)
      [] AttrType(attr) = "dasharray" -> WriteDasharray(v)
      [] AttrType(attr) = "float" -> WriteFloat(v)
      [] AttrType(attr) = "viewbox" -> WriteViewbox(v)
      [] AttrType(attr) = "aspectratio" -> WriteAspectratio(v)
      [] AttrType(attr) = "path" -> WritePath(v)
      [] AttrType(attr) = "points" -> WritePoints(v)

-----------------------------------------------------------------------------
(* Binary writers *)

Numbers(v) == [i \in DOMAIN v |-> Num(v[i])]
Counted(v) == <<Num(Len(v))>> \o Numbers(v)

NameLen(name) == IF name = <<>> THEN 0 ELSE name[1].number
WriteName(name) == <<Num(NameLen(name))>> \o name

WriteBinary(attr, v) ==
    CASE AttrType(attr) = "enum" -> <<Num(v % EnumModulus(attr))>>
      [] AttrType(attr) = "id" -> WriteName(v)
      [] AttrType(attr) = "length" -> <<Num(v.value), Mark(v.units)>>
      [] AttrType(attr) = "color" ->
            <<Mark(v.type)>> \o (CASE v.type = "rgba" -> <<Hex(8, v.word)>>
                                   [] v.type = "url" -> WriteName(v.name)
                                   [] v.type = "none" -> <<>>)
      [] AttrType(attr) = "transform" ->
            <<Mark(v.type)>> \o (IF v.type = "matrix" THEN Numbers(v.xform) ELSE Counted(v.args))
      [] AttrType(attr) \in {"dasharray", "points"} -> Counted(v)
      [] AttrType(attr) = "float" -> <<Num(v)>>
      [] AttrType(attr) = "viewbox" -> Numbers(v)
      [] AttrType(attr) = "aspectratio" -> <<Mark(v.alignX), Mark(v.alignY), Mark(v.alignType)>>
      [] AttrType(attr) = "path" ->
            <<Num(Len(v))>> \o FlattenSeq([i \in DOMAIN v |-> <<Mark(v[i].code)>> \o Counted(v[i].args)])

-----------------------------------------------------------------------------
(* Binary readers *)

Read(value, next) == [value |-> value, next |-> next, fault |-> FALSE]
Fault == [value |-> <<>>, next |-> 0, fault |-> TRUE]

Fields(s, from, n) == [k \in 1..n |-> s[from + k - 1].number]

ReadCounted(s, i) == Read(Fields(s, i + 1, s[i].number), i + 1 + s[i].number)

(* A buffer of 128 characters, which are asserted to be enough. *)
ReadName(s, i) ==
    CASE s[i].number >= 128 -> Fault
      [] s[i].number = 0 -> Read(<<>>, i + 1)
      [] s[i].number \in 1..127 -> Read(<<s[i + 1]>>, i + 2)

ReadColor(s, i) ==
    LET name == ReadName(s, i + 1)
    IN  CASE s[i].kind = "rgba" -> Read(Rgba(s[i + 1].word), i + 2)
          [] s[i].kind = "url" ->
                IF name.fault THEN Fault ELSE Read(Url(name.value), name.next)
          [] s[i].kind = "none" -> Read(NoColor, i + 1)

ReadTransformCounted(s, i) ==
    LET args == ReadCounted(s, i + 1)
    IN  Read([type |-> s[i].kind, args |-> args.value, xform |-> args.value], args.next)

(* What is not read of a transform is what the storage held; it is not     *)
(* looked at, either.                                                      *)
ReadTransform(s, i) ==
    LET args == ReadCounted(s, i + 1)
    IN  IF s[i].kind = "matrix"
        THEN Read([type |-> "matrix", args |-> <<>>, xform |-> Fields(s, i + 1, 6)], i + 7)
        ELSE Read([type |-> s[i].kind, args |-> args.value, xform |-> <<>>], args.next)

ReadPath(s, i) ==
    LET path[j \in 0..s[i].number] ==
            IF j = 0 THEN Read(<<>>, i + 1)
            ELSE LET at   == path[j - 1].next
                     args == ReadCounted(s, at + 1)
                 IN  Read(Append(path[j - 1].value, Op(s[at].kind, args.value)), args.next)
    IN  path[s[i].number]

ReadBinary(attr, s, i) ==
    CASE AttrType(attr) = "enum" -> Read(s[i].number % EnumModulus(attr), i + 1)
      [] AttrType(attr) = "id" -> ReadName(s, i)
      [] AttrType(attr) = "length" ->
            Read([value |-> s[i].number, units |-> s[i + 1].kind], i + 2)
      [] AttrType(attr) = "color" -> ReadColor(s, i)
      [] AttrType(attr) = "transform" -> ReadTransform(s, i)
      [] AttrType(attr) \in {"dasharray", "points"} -> ReadCounted(s, i)
      [] AttrType(attr) = "float" -> Read(s[i].number, i + 1)
      [] AttrType(attr) = "viewbox" -> Read(Fields(s, i, 4), i + 4)
      [] AttrType(attr) = "aspectratio" ->
            Read([alignX |-> s[i].kind, alignY |-> s[i + 1].kind, alignType |-> s[i + 2].kind], i + 3)
      [] AttrType(attr) = "path" -> ReadPath(s, i)
=============================================================================
