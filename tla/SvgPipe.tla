------------------------------- MODULE SvgPipe -------------------------------
(***************************************************************************)
(* Writing a document and reading it again, as test/run_tests.sh does with *)
(* two runs of app/musvgtool.c: the first parses a source and emits it,    *)
(* the second, with a parser of its own, reads what the first has emitted. *)
(*                                                                         *)
(* The parser is the one of SvgTree; `stage' says whose it is.  A file in  *)
(* transit is the sequence of its symbols: the binary grammar's, or the    *)
(* tokens of XML, which XmlReader turns into symbols like the binary ones. *)
(***************************************************************************)
EXTENDS SvgTree, SequencesExt

CONSTANTS
    Formats,   \* formats of the file in transit: a subset of FormatNames
    Rounded,   \* what is read back of a value that was written as text
    BareTags,  \* the formats in which documents may have elements with
               \* neither attribute nor child
    Stdin,     \* the formats in which the second run reads its standard
               \* input, not a named file
    Noise,     \* XML text that says nothing: comments, instructions,
               \* content, and tags that are not in the tables
    Garbage,   \* what may be read behind the end of XML text
    MaxAttribs \* MAX_ATTRIBS, as in XmlReader

FormatNames == {"binary", "xml"}

(* Text rounds a number to the digits it shows, once.                      *)
ASSUME RoundedAssumption ==
    /\ Rounded \in [Values -> Values]
    /\ \A v \in Values : Rounded[Rounded[v]] = Rounded[v]
ASSUME FormatsAssumption ==
    Formats \subseteq FormatNames /\ BareTags \subseteq Formats /\ Stdin \subseteq Formats

INSTANCE XmlReader

(* Names and values are not marks of XML, and a tag has room for all its   *)
(* attributes and for the slash.                                           *)
Marks == {"<", ">", " ", "=", "\"", "/", "?", "!", "end"}

ASSUME NamesAssumption ==
    /\ (Elements \union Attrs \union Values) \intersect Marks = {}
    /\ IsFiniteSet(Attrs) /\ MaxAttribs \in Nat
    /\ Cardinality(Attrs) < MaxAttribs \div 2

(* Noise gives rise to no call, and leaves no tag unfinished.  What is     *)
(* read behind the text may begin one, or end it, but is none.             *)
IsWhole(text) ==
    \A i \in DOMAIN text :
        text[i] = "<" => \E j \in DOMAIN text : j > i /\ text[j] = ">"

ASSUME NoiseAssumption ==
    /\ \A noise \in Noise : IsWhole(noise)
    /\ \A text \in Noise \union Garbage :
          text \in Seq(Range(text)) /\ CallsOf(text) = <<>>

VARIABLES
    format, \* the format of the file in transit
    stage,  \* "source": the first run reads; "copy": the second
    sent,   \* the file that the first run has written
    wire    \* the symbols that the second has yet to read

pipe == <<format, stage, sent, wire>>

PipeInit ==
    /\ Init
    /\ format \in Formats
    /\ stage = "source"
    /\ sent = <<>>
    /\ wire = <<>>

-----------------------------------------------------------------------------
(* Emitters *)

Written(v) == IF format = "xml" THEN Rounded[v] ELSE v

WrittenAttrs(n) ==
    [i \in DOMAIN AttrList(n) |-> <<AttrList(n)[i][1], Written(AttrList(n)[i][2])>>]

AttrSymbols(attrs) ==
    [i \in DOMAIN attrs |-> <<"attr", attrs[i][1], attrs[i][2]>>]

BinaryBeginOpen(n) ==
    <<<<"element", nodes[n].type>>>> \o AttrSymbols(WrittenAttrs(n))

BinaryBegin(n) ==
    <<<<"element", nodes[n].type>>>> \o AttrSymbols(WrittenAttrs(n)) \o <<<<"attr_none">>>>

BinaryEnd(n) == <<<<"element_none">>>>

(* An element without children is written as one tag that closes itself. *)
Leaf(n) == nodes[n].down = 0

XmlAttrs(attrs) ==
    FlattenSeq([i \in DOMAIN attrs |->
        <<" ", attrs[i][1], "=", "\"", attrs[i][2], "\"">>])

XmlBeginUnclosed(n) ==
    <<"<", nodes[n].type>> \o XmlAttrs(WrittenAttrs(n)) \o <<">", " ">>

XmlBegin(n) ==
    <<"<", nodes[n].type>> \o XmlAttrs(WrittenAttrs(n))
        \o (IF Leaf(n) THEN <<"/">> ELSE <<>>) \o <<">", " ">>

XmlEnd(n) == IF Leaf(n) THEN <<>> ELSE <<"<", "/", nodes[n].type, ">", " ">>

Begin(n) == IF format = "binary" THEN BinaryBegin(n) ELSE XmlBegin(n)

End(n) == IF format = "binary" THEN BinaryEnd(n) ELSE XmlEnd(n)

(* The file that is written when the graph is visited. *)
File ==
    FlattenSeq([i \in DOMAIN Visit |->
        IF Visit[i][1] = "start" THEN Begin(Visit[i][2]) ELSE End(Visit[i][2])])

-----------------------------------------------------------------------------
(* Readers *)

Symbols(file) == IF format = "binary" THEN file ELSE CallsOf(file)

(* Noise in front of a tag, or at the end. *)
Noisy(text) ==
    {text} \union UNION
    {{SubSeq(text, 1, k - 1) \o noise \o SubSeq(text, k, Len(text)) :
        k \in {i \in DOMAIN text : text[i] = "<"} \union {Len(text) + 1}} : noise \in Noise}

(* musvg_parse_svg_xml reads a copy of the text, with room for one byte    *)
(* more, but writes the zero that is to end it behind the original, where  *)
(* there is no room.  The byte read there is whatever it was (and if that  *)
(* is not zero, the next one is taken to be).                              *)
Copied(text) == {text \o extra : extra \in {<<>>} \union Garbage}

(* musvg_read_fd adds a zero byte to what it reads, which ends XML text    *)
(* and is an element_none in a binary file; and it drops a block of one    *)
(* byte: the zero then takes the place of the file's last byte, which is   *)
(* white space or an element_none too.                                     *)
Received(file) ==
    IF format = "xml"
    THEN IF format \in Stdin THEN Noisy(file)
         ELSE UNION {Copied(text) : text \in Noisy(file)}
    ELSE IF format \in Stdin THEN {file, file \o BinaryEnd(0)} ELSE {file}

ReadSymbol(symbol) ==
    \/ symbol[1] = "element" /\ StartElement(symbol[2])
    \/ symbol[1] = "element_none" /\ EndElement
    \/ symbol[1] = "attr" /\ ReadAttr(symbol[2], symbol[3])
    \/ symbol[1] = "attr_none" /\ EndAttrs

-----------------------------------------------------------------------------
ReadSource ==
    /\ stage = "source"
    /\ Next
    /\ UNCHANGED pipe

(* musvgtool: the first run emits and ends, the second creates its parser. *)
Emit ==
    /\ stage = "source"
    /\ ~aborted
    /\ ~reading
    /\ node_count > 0
    /\ format \in BareTags \/ \A n \in NodeIds : ~ (Leaf(n) /\ nodes[n].attr = 0)
    /\ sent' = File
    /\ \E file \in Received(File) : wire' = Symbols(file)
    /\ stage' = "copy"
    /\ node_count' = 0
    /\ nodes' = [n \in {} |-> 0]
    /\ slot_count' = 1
    /\ slots' = [s \in {} |-> 0]
    /\ node_stack' = [d \in Levels |-> 0]
    /\ node_depth' = 0
    /\ open' = 0
    /\ UNCHANGED <<format, reading, aborted>>

ReadCopy ==
    /\ stage = "copy"
    /\ wire # <<>>
    /\ ReadSymbol(Head(wire))
    /\ wire' = Tail(wire)
    /\ UNCHANGED <<format, stage, sent>>

PipeNext == ReadSource \/ Emit \/ ReadCopy

PipeSpec == PipeInit /\ [][PipeNext]_<<vars, pipe>>

-----------------------------------------------------------------------------
(* Properties *)

(* A file that has been read again is written again without a difference,  *)
(* which is what test/run_tests.sh tests of each of its documents.         *)
RoundTrip ==
    stage = "copy" /\ wire = <<>> => node_count > 0 /\ File = sent

(* A file that is cut off behind any of its symbols yields the document up *)
(* to there.  The calls that a piece of XML text gives rise to are the     *)
(* first of those of the whole; and a reader undoes the emitter symbol by  *)
(* symbol: what has been read of a binary file, with the elements closed   *)
(* that are still open, is what would be written of the graph built so     *)
(* far.  A cut inside a symbol is another matter: half a name is another   *)
(* name, and half a binary value ends the program (src/musvg.c:1996).      *)
CutAnywhere ==
    /\ stage = "copy" /\ format = "xml" /\ node_count = 0 =>
        \A k \in 0..Len(sent) :
            IsPrefix(CallsOf(SubSeq(sent, 1, k)), CallsOf(sent))
    /\ stage = "copy" /\ format = "binary" /\ node_count > 0 =>
        LET read == SubSeq(sent, 1, Len(sent) - Len(wire))
            rest == IF reading THEN <<<<"attr_none">>>> ELSE <<>>
        IN  File = read \o rest \o [d \in 1..node_depth |-> <<"element_none">>]

(* Nothing that an emitter writes ends the reader, and the reader is not   *)
(* stopped before the end of the file.                                     *)
CopyReadable ==
    stage = "copy" => /\ ~aborted
                      /\ wire # <<>> => ENABLED ReadCopy
=============================================================================
