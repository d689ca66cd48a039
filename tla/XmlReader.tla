------------------------------ MODULE XmlReader ------------------------------
(***************************************************************************)
(* The XML reader of src/musvg.c: what calls of musvg_start_element,       *)
(* musvg_parse_attr and musvg_end_element a text gives rise to.            *)
(*                                                                         *)
(* A text is a sequence of tokens: the marks that the reader looks for,    *)
(* " " for any white space, and names and values, each of which stands for *)
(* the characters that are spelt out.                                      *)
(***************************************************************************)
EXTENDS Naturals, SequencesExt

CONSTANTS
    Elements,   \* musvg_element_names
    Attrs,      \* musvg_attribute_names
    MaxAttribs  \* MAX_ATTRIBS: room for the names and values of a tag

(* The first place at or after i with, and without, one of the marks; the  *)
(* place after the text if there is none.                                  *)
Find(text, i, marks) ==
    Min({j \in i..Len(text) : text[j] \in marks} \union {Len(text) + 1})
Skip(text, i, marks) ==
    Min({j \in i..Len(text) : text[j] \notin marks} \union {Len(text) + 1})

At(text, i) == IF i <= Len(text) THEN text[i] ELSE "end"

-----------------------------------------------------------------------------
(* musvg_parse_xml: what is between a "<" and the next ">" is a tag, what  *)
(* it holds notwithstanding (a further "<", or a quoted text), and the     *)
(* rest is content, which no callback looks at.  A tag that is not         *)
(* finished is nothing.                                                    *)
Tags(text) ==
    LET tags[i \in 1..(Len(text) + 1)] ==
            LET open  == Find(text, i, {"<"})
                close == Find(text, open + 1, {">"})
            IN  IF close > Len(text) THEN <<>>
                ELSE <<SubSeq(text, open + 1, close - 1)>> \o tags[close + 1]
    IN  tags[1]

-----------------------------------------------------------------------------
(* The attributes of a tag from a place on, each <<name, value>>; the last *)
(* may be <<name>>, without a value, or <<>>, the slash that closes the    *)
(* tag itself.                                                             *)
Attribs(tag, from) ==
    LET attribs[i \in 1..(Len(tag) + 2)] ==
            LET name  == Skip(tag, i, {" "})
                stop  == Find(tag, name, {" ", "="})
                quote == Find(tag, stop + 1, {"\""})
                close == Find(tag, quote + 1, {"\""})
            IN  CASE name > Len(tag) -> <<>>
                  [] At(tag, name) = "/" -> <<<<>>>>
                  [] name <= Len(tag) /\ At(tag, name) # "/" /\ quote > Len(tag) ->
                        <<<<SubSeq(tag, name, stop - 1)>>>>
                  [] OTHER ->
                        <<<<SubSeq(tag, name, stop - 1), SubSeq(tag, quote + 1, close - 1)>>>>
                            \o attribs[close + 1]
        all == attribs[from]
    IN  SubSeq(all, 1, Min({Len(all), MaxAttribs \div 2}))

(* musvg_parse_attr, given no value, hands the null pointer to the reader  *)
(* of the attribute, which stops the program.                              *)
AttrCall(a) ==
    IF a[1] \notin {<<n>> : n \in Attrs} THEN <<>>
    ELSE IF Len(a) = 2 THEN <<<<"attr", a[1][1], a[2][1]>>>> ELSE <<<<"fault">>>>

(* musvg_parse_element: the calls that a tag gives rise to, which ends     *)
(* itself if its list does.  The name ends at white space only, so the     *)
(* slash of a tag without attributes is part of it.  Names that are not in *)
(* the tables are passed over.                                             *)
Calls(tag) ==
    LET first  == Skip(tag, 1, {" "})
        ending == At(tag, first) = "/"
        start  == IF ending THEN first + 1 ELSE first
        stop   == Find(tag, start, {" "})
        name   == SubSeq(tag, start, stop - 1)
        list   == IF ending THEN <<>> ELSE Attribs(tag, Min({stop, Len(tag)}) + 1)
        itself == list # <<>> /\ Last(list) = <<>>
        attrs  == IF itself THEN Front(list) ELSE list
        opened == <<<<"element", name[1]>>>>
                  \o FlattenSeq([i \in DOMAIN attrs |-> AttrCall(attrs[i])])
                  \o <<<<"attr_none">>>>
        closed == IF ending \/ itself THEN <<<<"element_none">>>> ELSE <<>>
    IN  IF At(tag, start) \in {"end", "?", "!"} \/ name \notin {<<n>> : n \in Elements}
        THEN <<>>
        ELSE (IF ending THEN <<>> ELSE opened) \o closed

CallsOf(text) ==
    LET tags == Tags(text)
    IN  FlattenSeq([i \in DOMAIN tags |-> Calls(tags[i])])
=============================================================================
