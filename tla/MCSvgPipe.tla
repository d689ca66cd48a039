----------------------------- MODULE MCSvgPipe -----------------------------
(* Instances of SvgPipe for TLC. *)
EXTENDS SvgPipe

CONSTANTS long, short

(* `long' is a number with more digits than the text shows. *)
LongToShort == [v \in Values |-> IF v = long THEN short ELSE v]

(* A comment with an element in it, an instruction, content, and elements  *)
(* that are not in the tables, one of them with an attribute that is.      *)
Says(e, a, v) ==
    {<<"<", "!", " ", "<", e, ">", " ">>,
     <<"<", "?", "word", " ", "=", "\"", v, "\"", ">">>,
     <<"word", " ", ">", "/">>,
     <<"<", "word", ">", "<", "/", "word", ">">>,
     <<"<", " ", "word", " ", a, "=", " ", "\"", v, "\"", "/", ">">>,
     <<"<", "word", "/", ">">>}

Nothing == UNION {Says(e, a, long) : e \in Elements, a \in Attrs}

AnyToken == {<<"<">>, <<">">>, <<"\"">>, <<"word">>}
=============================================================================
