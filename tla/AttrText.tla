------------------------------ MODULE AttrText ------------------------------
(***************************************************************************)
(* The values of attributes: what the parsers of src/musvg.c make of a     *)
(* text, what the writers make of a value, and the binary form of both.    *)
(*                                                                         *)
(* A text is a sequence of tokens: a number, a hexadecimal number, a mark, *)
(* or a word.  Numbers are whole; Float and Shown are their roundings.  A  *)
(* word that is a name has its length.  The records of the program that    *)
(* refer to its arrays hold here what is referred to: an id is its name, a *)
(* path the sequence of its operations.                                    *)
(***************************************************************************)
EXTENDS Words, SequencesExt

Token(kind, number, word) == [kind |-> kind, number |-> number, word |-> word]

Num(n) == Token("number", n, {})
Hex(digits, word) == Token("#", digits, word)
Name(name, length) == Token(name, length, {})
Mark(mark) == Token(mark, 0, {})

IsNum(t) == t.kind = "number"

Abs(n) == IF n < 0 THEN -n ELSE n

(* The numbers that are modelled have nine digits. *)
Whole == {n \in Int : Abs(n) < 1000000000}

(* Division that rounds to zero, as that of C. *)
Quot(n, d) == IF n < 0 THEN -((-n) \div d) ELSE n \div d

RoundTo(n, unit) ==
    LET up == ((Abs(n) + unit \div 2) \div unit) * unit IN IF n < 0 THEN -up ELSE up

(* A float has 24 bits, and "%.8g" shows eight digits of it; of a whole    *)
(* number below 10^9, "%.8f" shows all.                                    *)
Unit(n) == Min({u \in {1, 2, 4, 8, 16, 32, 64} : Abs(n) < 16777216 * u})
Float(n) == RoundTo(n, Unit(n))
Shown(n) == RoundTo(n, IF Abs(n) < 100000000 THEN 1 ELSE 10)

(* musvg_atof *)
Atof(t) == IF IsNum(t) THEN Float(t.number) ELSE 0

At(text, i) == IF i <= Len(text) THEN text[i] ELSE Mark("end")

(* The first place at or after i whose token is, or is not, of a kind. *)
Find(text, i, kinds) ==
    Min({j \in i..Len(text) : text[j].kind \in kinds} \union {Len(text) + 1})
Skip(text, i, kinds) ==
    Min({j \in i..Len(text) : text[j].kind \notin kinds} \union {Len(text) + 1})

Space == {" "}
Commas == {" ", ","}

(* The items of a list, as musvg_get_next_dash_item takes them: what is    *)
(* between white space and commas.                                         *)
Items(text) ==
    LET items[i \in 1..(Len(text) + 1)] ==
            LET from == Skip(text, i, Commas)
                to   == Find(text, from, Commas)
            IN  IF from > Len(text) THEN <<>>
                ELSE <<SubSeq(text, from, to - 1)>> \o items[to]
    IN  items[1]

Selected(text, places) ==
    FlattenSeq([i \in DOMAIN text |-> IF i \in places THEN <<text[i]>> ELSE <<>>])

(* And as musvg_get_next_path_item does: a number or a letter ends itself. *)
PathItems(text) == Selected(text, {i \in DOMAIN text : text[i].kind \notin Commas})

Listed(numbers, mark(_)) ==
    FlattenSeq([i \in DOMAIN numbers |->
        (IF i = 1 THEN <<>> ELSE <<mark(i)>>) \o <<Num(Shown(numbers[i]))>>])
Comma(i) == Mark(",")

-----------------------------------------------------------------------------
(* Enumerations *)

EnumNames(attr) ==
    CASE attr = "stroke-linecap" -> <<"butt", "round", "square">>
      [] attr = "display" -> <<"inline", "none">>

(* The first of its names is the default of each of these. *)
EnumDefault == 0

EnumModulus(attr) == Len(EnumNames(attr))

ParseEnum(attr, text) ==
    LET names == EnumNames(attr)
        found == {i \in DOMAIN names : text = <<Mark(names[i])>>}
    IN  IF found = {} THEN EnumDefault ELSE Min(found) - 1

WriteEnum(attr, v) == <<Mark(EnumNames(attr)[(v % EnumModulus(attr)) + 1])>>

-----------------------------------------------------------------------------
(* Lengths, floats and view boxes *)

Units == {"px", "pt", "pc", "mm", "cm", "in", "%", "em", "ex"}

ParseLength(text) ==
    LET units == IF IsNum(At(text, 1)) THEN At(text, 2) ELSE At(text, 1)
    IN  [value |-> Atof(At(text, 1)),
         units |-> IF units.kind \in Units THEN units.kind ELSE "user"]

WriteLength(v) ==
    <<Num(Shown(v.value))>> \o (IF v.units = "user" THEN <<>> ELSE <<Mark(v.units)>>)

ParseFloat(text) == Atof(At(text, 1))

WriteFloat(v) == <<Num(v)>>

(* Four numbers; what is not one is zero, and is not passed over. *)
ParseViewbox(text) ==
    LET past(i) == IF IsNum(At(text, i)) THEN i + 1 ELSE i
        place[k \in 1..4] ==
            IF k = 1 THEN 1 ELSE Skip(text, past(place[k - 1]), Commas \union {"%"})
    IN  [k \in 1..4 |-> Atof(At(text, place[k]))]

WriteViewbox(v) == LET space(i) == Mark(" ") IN Listed(v, space)

-----------------------------------------------------------------------------
(* Colours: none, a word of 32 bits, or the name of a paint server *)

NoColor == [type |-> "none", word |-> {}, name |-> <<>>]
Rgba(word) == [type |-> "rgba", word |-> word, name |-> <<>>]
Url(name) == [type |-> "url", word |-> {}, name |-> name]

Rgb(r, g, b) ==
    Rgba(Low(Shl(Signed(r), 16, 64) \union Shl(Signed(g), 8, 64) \union Signed(b), 32))

(* Some of the names of musvg_colors; a name that is not there is grey. *)
NamedColor(name) ==
    CASE name = "red" -> Rgb(255, 0, 0)
      [] name = "blue" -> Rgb(0, 0, 255)
      [] name = "black" -> Rgb(0, 0, 0)
      [] OTHER -> Rgb(128, 128, 128)

ParseColorHex(t) ==
    CASE t.number = 6 -> Rgba(t.word)
      [] t.number = 3 -> Rgba(UNION {{8 * (i \div 4) + (i % 4), 8 * (i \div 4) + (i % 4) + 4} : i \in t.word})
      [] OTHER -> Rgb(0, 0, 0)

(* sscanf: numbers with separators between them.  Those that are missing,  *)
(* or behind one that is, are -1.                                          *)
ParseColorRgb(text) ==
    LET marks == Commas \union {"%"}
        place[k \in 1..3] ==
            IF k = 1 THEN Skip(text, 2, Space) ELSE Skip(text, place[k - 1] + 1, marks)
        there[k \in 1..3] ==
            /\ IsNum(At(text, place[k]))
            /\ k > 1 => there[k - 1] /\ place[k] > place[k - 1] + 1
        c == [k \in 1..3 |-> IF there[k] THEN text[place[k]].number ELSE -1]
        percent == there[1] /\ Find(text, place[1], {"%"}) < place[2]
    IN  IF percent THEN Rgb(Quot(c[1] * 255, 100), Quot(c[2] * 255, 100), Quot(c[3] * 255, 100))
                   ELSE Rgb(c[1], c[2], c[3])

(* A buffer of 128 characters holds the name of a url. *)
ParseColorUrl(text) ==
    LET name == At(text, 2)
    IN  Url(IF name.number = 0 THEN <<>> ELSE <<Name(name.kind, Min({name.number, 127}))>>)

ParseColor(text) ==
    LET str  == SubSeq(text, Skip(text, 1, Space), Len(text))
        kind == At(str, 1).kind
    IN  CASE str = <<Mark("none")>> -> NoColor
          [] kind = "url(#" -> ParseColorUrl(str)
          [] kind = "#" -> ParseColorHex(str[1])
          [] kind = "rgb(" -> ParseColorRgb(str)
          [] OTHER -> NamedColor(kind)

(* "#%06x" *)
WriteColor(v) ==
    CASE v.type = "url" -> <<Mark("url(#")>> \o v.name \o <<Mark(")")>>
      [] v.type = "rgba" -> <<Hex(Max({6} \union {i \div 4 + 1 : i \in v.word}), v.word)>>
      [] v.type = "none" -> <<Mark("none")>>

-----------------------------------------------------------------------------
(* Aspect ratios, dashes, points *)

(* strstr, in the order of the alternatives. *)
Has(text, word) == \E i \in DOMAIN text : text[i] = Mark(word)

ParseAlign(text, mid, min, max) ==
    CASE text = <<Mark("none")>> -> "none"
      [] Has(text, mid) -> mid
      [] ~Has(text, mid) /\ Has(text, min) -> min
      [] ~Has(text, mid) /\ ~Has(text, min) /\ Has(text, max) -> max
      [] OTHER -> mid

ParseCrop(text) ==
    CASE text = <<Mark("none")>> -> "none"
      [] ~Has(text, "meet") /\ Has(text, "slice") -> "slice"
      [] OTHER -> "meet"

ParseAspectratio(text) ==
    [alignX |-> ParseAlign(text, "xMid", "xMin", "xMax"),
     alignY |-> ParseAlign(text, "yMid", "yMin", "yMax"),
     alignType |-> ParseCrop(text)]

WriteAspectratio(v) ==
    IF "none" \in {v.alignX, v.alignY, v.alignType} THEN <<Mark("none")>>
    ELSE <<Mark(v.alignX), Mark(v.alignY), Mark(" "), Mark(v.alignType)>>

MaxDashes == 8

ParseDasharray(text) ==
    LET items  == Items(text)
        dashes == [i \in 1..Min({Len(items), MaxDashes}) |-> Abs(Atof(items[i][1]))]
    IN  IF At(text, 1).kind = "none" \/ \A i \in DOMAIN dashes : dashes[i] = 0
        THEN <<>> ELSE dashes

WriteDasharray(v) == IF v = <<>> THEN <<Mark("none")>> ELSE Listed(v, Comma)

ParsePoints(text) ==
    LET items == PathItems(text) IN [i \in DOMAIN items |-> Atof(items[i])]

WritePoints(v) ==
    LET mark(i) == IF i % 2 = 0 THEN Mark(",") ELSE Mark(" ") IN Listed(v, mark)

-----------------------------------------------------------------------------
(* Paths *)

Letters == {"Z", "M", "m", "L", "l", "C", "c", "Q", "q", "A", "a",
            "H", "h", "V", "v", "S", "s", "T", "t"}

(* musvg_parse_opcode and musvg_path_opcode_cmd_char: a letter stands for  *)
(* its code here, and "none" for none.                                     *)
Opcode(letter) ==
    IF letter = "z" THEN "Z" ELSE IF letter \in Letters THEN letter ELSE "none"

ArgCount(code) ==
    CASE code \in {"none", "Z"} -> 0
      [] code \in {"H", "h", "V", "v"} -> 1
      [] code \in {"M", "m", "L", "l", "T", "t"} -> 2
      [] code \in {"Q", "q", "S", "s"} -> 4
      [] code \in {"C", "c"} -> 6
      [] code \in {"A", "a"} -> 7

Op(code, args) == [code |-> code, args |-> args]

PathCommand(st, letter) ==
    LET code == Opcode(letter)
    IN  [st EXCEPT !.code = code,
                   !.ops = IF code = "Z" THEN Append(@, Op(code, <<>>)) ELSE @]

(* The number of arguments so far is counted modulo the number that the    *)
(* command has, which the program does not survive when that is zero.      *)
PathNumber(st, value) ==
    LET args == Append(st.args, value)
    IN  CASE ArgCount(st.code) = 0 -> [st EXCEPT !.fault = TRUE]
          [] ArgCount(st.code) = Len(args) ->
                [st EXCEPT !.args = <<>>, !.ops = Append(@, Op(st.code, args))]
          [] OTHER -> [st EXCEPT !.args = args]

(* musvg_parse_path_ops.  A letter in the middle of a command's arguments  *)
(* is read as the number zero, and arguments left over at the end are      *)
(* dropped.  A command letter comes first.                                 *)
PathItem(st, t) ==
    IF st.fault THEN st
    ELSE IF st.args = <<>> /\ ~IsNum(t) THEN PathCommand(st, t.kind)
    ELSE PathNumber(st, Atof(t))

ScanPath(text) ==
    LET items == PathItems(text)
        scan[i \in 0..Len(items)] ==
            IF i = 0 THEN [code |-> "none", args |-> <<>>, ops |-> <<>>, fault |-> FALSE]
            ELSE PathItem(scan[i - 1], items[i])
    IN  scan[Len(items)]

ParsePath(text) == ScanPath(text).ops

(* A command that is repeated is written as a space. *)
WritePath(v) ==
    FlattenSeq([i \in DOMAIN v |->
        <<Mark(IF i > 1 /\ v[i].code = v[i - 1].code THEN " " ELSE v[i].code)>>
            \o Listed(v[i].args, Comma)])

-----------------------------------------------------------------------------
(* Transforms: the arguments that were read, and the matrix *)

Identity == <<1, 0, 0, 1, 0, 0>>
Zero == <<0, 0, 0, 0, 0, 0>>
Translation(x, y) == <<1, 0, 0, 1, x, y>>

(* xformMultiply: first t, then s. *)
Multiply(t, s) ==
    <<t[1] * s[1] + t[2] * s[3], t[1] * s[2] + t[2] * s[4],
      t[3] * s[1] + t[4] * s[3], t[3] * s[2] + t[4] * s[4],
      t[5] * s[1] + t[6] * s[3] + s[5], t[5] * s[2] + t[6] * s[4] + s[6]>>

Premultiply(t, s) == Multiply(s, t)

(* The angles here are those whose functions are whole. *)
Cos(a) == CASE a = 0 -> 1 [] a = 90 -> 0 [] a = 180 -> -1 [] a = 270 -> 0
Sin(a) == CASE a = 0 -> 0 [] a = 90 -> 1 [] a = 180 -> 0 [] a = 270 -> -1
Tan(a) == CASE a = 0 -> 0 [] a = 45 -> 1 [] a = 135 -> -1

MaxArgs ==
    [matrix |-> 6, translate |-> 2, scale |-> 2, rotate |-> 3, skewX |-> 1, skewY |-> 1]

(* The matrix of a function; arguments that are missing are zero. *)
Matrix(type, args) ==
    LET a == [k \in 1..3 |-> IF k <= Len(args) THEN args[k] ELSE 0]
        rotation == <<Cos(a[1]), Sin(a[1]), -Sin(a[1]), Cos(a[1]), 0, 0>>
    IN  CASE type = "matrix" -> IF Len(args) = 6 THEN args ELSE Zero
          [] type = "translate" -> Translation(a[1], a[2])
          [] type = "scale" -> <<a[1], 0, 0, IF Len(args) = 1 THEN a[1] ELSE a[2], 0, 0>>
          [] type = "skewX" -> <<1, 0, Tan(a[1]), 1, 0, 0>>
          [] type = "skewY" -> <<1, Tan(a[1]), 0, 1, 0, 0>>
          [] type = "rotate" ->
                Multiply(Multiply(Translation(-a[2], -a[3]), rotation), Translation(a[2], a[3]))

(* The functions of a text.  The arguments of one are the numbers in the   *)
(* parentheses that follow it, wherever; without parentheses it has none,  *)
(* and one with too many arguments is passed over.                         *)
ArgsOpen(text, i) == Find(text, i, {"("})
ArgsClose(text, i) == Find(text, ArgsOpen(text, i), {")"})

ArgTokens(text, i) ==
    IF ArgsClose(text, i) > Len(text) THEN <<>>
    ELSE Selected(text, {j \in ArgsOpen(text, i)..ArgsClose(text, i) : IsNum(text[j])})

Taken(text, i) ==
    text[i].kind \in DOMAIN MaxArgs /\ Len(ArgTokens(text, i)) <= MaxArgs[text[i].kind]

Function(text, i) ==
    [type |-> text[i].kind,
     args |-> [k \in DOMAIN ArgTokens(text, i) |-> Atof(ArgTokens(text, i)[k])]]

AfterFunction(text, i) ==
    IF ArgsClose(text, i) > Len(text) THEN i + 1 ELSE ArgsClose(text, i)

TransformList(text) ==
    LET list[i \in 1..(Len(text) + 1)] ==
            IF i > Len(text) THEN <<>>
            ELSE IF Taken(text, i) THEN <<Function(text, i)>> \o list[AfterFunction(text, i)]
            ELSE list[i + 1]
    IN  list[1]

MatrixOf(f) == Matrix(f.type, f.args)

(* musvg_parse_transform: one function is kept as it is; of several, each  *)
(* but the first multiplies a matrix that has been cleared.                *)
ParseTransform(text) ==
    LET list == TransformList(text)
    IN  IF Len(list) = 1
        THEN [type |-> list[1].type, args |-> list[1].args, xform |-> MatrixOf(list[1])]
        ELSE [type |-> "matrix", args |-> <<>>,
              xform |-> Premultiply(Zero, MatrixOf(list[Len(list)]))]

WriteTransform(v) ==
    <<Mark(v.type), Mark("(")>>
        \o Listed(IF v.type = "matrix" THEN v.xform ELSE v.args, Comma) \o <<Mark(")")>>
=============================================================================
