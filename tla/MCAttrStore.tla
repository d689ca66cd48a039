---------------------------- MODULE MCAttrStore ----------------------------
(* Instances of AttrStore for TLC. *)
EXTENDS AttrStore

MCPow2Ge == [n \in 0..MaxBuffer |-> 2^Min({k \in 0..12 : 2^k >= n})]

W(words) == [i \in DOMAIN words |-> Mark(words[i])]
Args(numbers) == FlattenSeq([i \in DOMAIN numbers |->
                    (IF i = 1 THEN <<>> ELSE <<Mark(",")>>) \o <<Num(numbers[i])>>])
Call(name, numbers) == W(<<name, "(">>) \o Args(numbers) \o W(<<")">>)

(* More digits than a float has, and more than the text shows. *)
Long == 123456789
Longer == 987654321

Enums ==
    {<<"stroke-linecap", W(<<"square">>)>>, <<"stroke-linecap", W(<<"rounded">>)>>,
     <<"display", <<>>>>}

Ids == {<<"id", <<Name("a", 1)>>>>, <<"id", <<Name("b", 130)>>>>, <<"id", <<>>>>}

Lengths ==
    {<<"width", <<Num(Long), Mark("mm")>>>>, <<"width", W(<<"px">>)>>,
     <<"stroke-dashoffset", <<Num(-5)>>>>, <<"fill-opacity", <<Num(Long)>>>>}

Colors ==
    {<<"fill", W(<<" ", "none">>)>>,
     <<"fill", <<Mark("url(#"), Name("a", 1), Mark(")")>>>>,
     <<"stroke", <<Mark("url(#"), Name("b", 130), Mark(")")>>>>,
     <<"fill", <<Hex(6, {0, 7, 23})>>>>, <<"fill", <<Hex(3, {1, 8})>>>>,
     <<"fill", <<Hex(8, {1, 31})>>>>,
     <<"fill", <<Mark("rgb(")>> \o Args(<<255, 16, 3>>) \o W(<<")">>)>>,
     <<"fill", <<Mark("rgb(")>> \o Args(<<255>>) \o W(<<")">>)>>,
     <<"stroke", <<Mark("rgb("), Num(50), Mark("%"), Mark(","), Num(100), Mark("%"),
                   Num(0), Mark("%")>>>>,
     <<"stroke", W(<<"red">>)>>, <<"stroke", W(<<"reddish">>)>>}

Transforms ==
    {<<"transform", Call("matrix", <<1, 2, 3, 4, 5, 6>>)>>,
     <<"transform", Call("matrix", <<1, 2>>)>>,
     <<"transform", Call("scale", <<2>>)>>, <<"transform", Call("scale", <<2, Long>>)>>,
     <<"transform", Call("skewX", <<45>>)>>, <<"transform", Call("skewY", <<135>>)>>,
     <<"transform", Call("rotate", <<90, 2, 3>>)>>, <<"transform", Call("rotate", <<>>)>>,
     <<"transform", Call("translate", <<1, 2, 3>>) \o Call("translate", <<4>>)>>,
     <<"transform", W(<<"scale", " ">>) \o Call("translate", <<1, 2>>)>>}

Several ==
    {<<"transform", Call("scale", <<2>>)>>,
     <<"transform", Call("translate", <<1, 2>>) \o W(<<" ">>) \o Call("rotate", <<90>>)>>}

Lists ==
    {<<"stroke-dasharray", <<Num(5), Mark("px"), Mark(",")>> \o Args(<<-3, Longer>>)>>,
     <<"stroke-dasharray", Args(<<1, 2, 3, 4, 5, 6, 7, 8, 9>>)>>,
     <<"stroke-dasharray", Args(<<0, 0>>)>>, <<"stroke-dasharray", W(<<"none">>)>>,
     <<"viewBox", <<Num(0), Mark(" "), Num(0), Mark("%"), Num(Long), Mark(","), Num(7)>>>>,
     <<"viewBox", W(<<"x">>)>>, <<"viewBox", Args(<<1, 2, 3>>)>>,
     <<"preserveAspectRatio", W(<<"none">>)>>,
     <<"preserveAspectRatio", W(<<"xMax", "YMax", " ", "slice">>)>>,
     <<"preserveAspectRatio", W(<<"xMin", "yMax">>)>>}

Shapes ==
    {<<"points", Args(<<1, 2>>) \o W(<<" ">>) \o Args(<<3, Longer, 5>>)>>,
     <<"points", <<Num(1), Mark("x"), Num(2)>>>>, <<"points", <<>>>>,
     <<"d", W(<<"M">>) \o Args(<<1, 2, 3, 4>>) \o W(<<"z">>)>>,
     <<"d", W(<<"M">>) \o Args(<<1, 2>>) \o W(<<"h">>) \o Args(<<Long, 4>>)
              \o W(<<"Z", "Z">>)>>,
     <<"d", W(<<"m">>) \o Args(<<1>>) \o W(<<"L">>) \o Args(<<2, 3>>)>>,
     <<"d", W(<<"M">>) \o Args(<<1, 2>>) \o W(<<"C">>) \o Args(<<1, 2, 3, 4, 5, 6, 7>>)>>,
     <<"d", W(<<"M">>) \o Args(<<1, 2>>) \o W(<<"Z">>) \o Args(<<3, 4>>)>>,
     <<"d", W(<<"Z">>)>>}

Styles ==
    {<<"style", W(<<" ", "fill", " ", ":", " ", "red", " ", ";", "stroke", ";">>)>>,
     <<"style", W(<<"word", ":", "red", ";", ";", "stroke">>)>>,
     <<"style", W(<<"stroke-linecap", ":", "round", ";", "fill", ":", "none", ";", " ">>)>>,
     <<"word", <<Num(1)>>>>}

Single ==
    UNION {Enums, Ids, Lengths, Colors, Transforms, Lists, Shapes, Styles}
=============================================================================
