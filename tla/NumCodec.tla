------------------------------ MODULE NumCodec ------------------------------
(* The encodings of numbers of mubuf.cc, bit by bit.  A function that      *)
(* writes is the chunks it hands to the buffer, each of which the buffer   *)
(* takes or refuses as a whole, and whether it then reports success.  A    *)
(* function that reads is what it makes of the octets it is given and the  *)
(* octets it leaves.  The source has every function twice, storing its     *)
(* result or returning it ("Byval"); the twins are the same here.          *)
EXTENDS Words, SequencesExt

Chunks(c) == [ok |-> TRUE, chunks |-> c]
Octets(s) == [ok |-> TRUE, chunks |-> [i \in DOMAIN s |-> <<s[i]>>]]
Rejected == [ok |-> FALSE, chunks |-> <<>>]
Then(w, x) == [ok |-> w.ok /\ x.ok,
               chunks |-> w.chunks \o (IF w.ok THEN x.chunks ELSE <<>>)]

Value(v, rest) == [ok |-> TRUE, value |-> v, rest |-> rest]
Failed(rest) == [ok |-> FALSE, value |-> {}, rest |-> rest]

ReadBytesSome(s, n) == LET m == Min({n, Len(s)})
                       IN  Value(SubSeq(s, 1, m), SubSeq(s, m + 1, Len(s)))

(* mu_buf_read_bytes takes all the octets or none. *)
ReadBytes(s, n) ==
    IF Len(s) < n THEN Failed(s) ELSE Value(SubSeq(s, 1, n), SubSeq(s, n + 1, Len(s)))

-----------------------------------------------------------------------------
(* Integers in as many octets as they need *)

U64Length(x) == IF x = {} THEN 1 ELSE 8 - Clz(x, 64) \div 8

(* One bit more than the number needs, for its sign. *)
S64Length(x) ==
    IF x = {} THEN 1
    ELSE 8 - (Clz(IF 63 \in x THEN Complement(x, 64) ELSE x, 64) - 1) \div 8

BerU64Write(len, x) ==
    IF len \notin 1..8 THEN Rejected ELSE Chunks(<<BigEndian(x, len)>>)

BerU64Read(s, len) ==
    LET r == ReadBytes(s, len)
    IN  IF len > 8 \/ ~r.ok THEN Failed(s) ELSE Value(FromBigEndian(r.value), r.rest)

BerS64Read(s, len) ==
    LET r == BerU64Read(s, len)
    IN  IF r.ok THEN Value(SignExtend(r.value, len), r.rest) ELSE r

LeU64Write(len, x) ==
    IF len \notin 1..8 THEN Rejected ELSE Chunks(<<LittleEndian(x, len)>>)

LeU64Read(s, len) ==
    LET r == ReadBytes(s, len)
    IN  IF len > 8 \/ ~r.ok THEN Failed(s) ELSE Value(FromLittleEndian(r.value), r.rest)

LeS64Read(s, len) ==
    LET r == LeU64Read(s, len)
    IN  IF r.ok THEN Value(SignExtend(r.value, len), r.rest) ELSE r

-----------------------------------------------------------------------------
(* Groups of seven bits: LEB128, and the tags of ASN.1 *)

GroupsOf(x) == IF x = {} THEN 1 ELSE 8 - (Clz(x, 64) - 1) \div 7 + 1

Fits56(x) == x \subseteq 0..55

Group(x, k) == Low(Shr(x, 7 * k), 7)

(* The octets up to the first without a continuation bit, at most eight. *)
GroupsIn(s) == {k \in 1..Len(s) : 7 \notin s[k] \/ k = 8}

(* mu_leb_u64_write asks for the room of all its octets first. *)
LebWrite(x) ==
    LET len == GroupsOf(x)
    IN  IF ~Fits56(x) THEN Rejected
        ELSE Chunks(<<[k \in 1..len |-> Group(x, k - 1) \union (IF k < len THEN {7} ELSE {})]>>)
LebWriteByval(x) == LebWrite(x)

LebRead(s) ==
    LET n == Min(GroupsIn(s))
    IN  IF GroupsIn(s) = {} THEN Failed(<<>>)
        ELSE Value(UNION {Shl(s[k] \ {7}, 7 * (k - 1), 64) : k \in 1..n},
                   SubSeq(s, n + 1, Len(s)))
LebReadByval(s) == LebRead(s)

TagWrite(x) ==
    LET len == GroupsOf(x)
    IN  IF ~Fits56(x) THEN Rejected
        ELSE Octets([k \in 1..len |-> Group(x, len - k) \union (IF k < len THEN {7} ELSE {})])

TagRead(s) ==
    LET n == Min(GroupsIn(s))
    IN  IF GroupsIn(s) = {} THEN Failed(<<>>)
        ELSE Value(UNION {Shl(s[k] \ {7}, 7 * (n - k), 64) : k \in 1..n},
                   SubSeq(s, n + 1, Len(s)))

-----------------------------------------------------------------------------
(* VLU: the length in unary, in the low bits of the first octet *)

VluWrite(x) ==
    LET len == GroupsOf(x)
    IN  IF ~Fits56(x) THEN Rejected
        ELSE LeU64Write(len, Shl(x, len, 64) \union 0..(len - 2))
VluWriteByval(x) == VluWrite(x)

VluRead(s) ==
    LET len == Ctz(Complement(Head(s), 8), 64) + 1
        more == LeU64Read(Tail(s), len - 1)
    IN  IF s = <<>> THEN Failed(s)
        ELSE IF len > 8 THEN Failed(Tail(s))
        ELSE IF len = 1 THEN Value(Shr(Head(s), 1), Tail(s))
        ELSE IF ~more.ok THEN more
        ELSE Value(Shr(Head(s), len) \union Shl(more.value, 8 - len, 64), more.rest)
VluReadByval(s) == VluRead(s)

-----------------------------------------------------------------------------
(* ASN.1: identifiers, lengths and tagged numbers *)

(* Of the two bits of a class only the upper one is written and read. *)
IdentWrite(id) ==
    LET long == ~(id.identifier \subseteq 0..4) \/ id.identifier = 0..4
        first == (IF 1 \in id.class THEN {7} ELSE {})
                    \union (IF id.constructed THEN {5} ELSE {})
                    \union (IF long THEN 0..4 ELSE id.identifier)
    IN  IF long THEN Then(Octets(<<first>>), TagWrite(id.identifier))
                ELSE Octets(<<first>>)

IdentRead(s) ==
    LET low == Low(Head(s), 5)
        tag == TagRead(Tail(s))
        ident(x) == [identifier |-> x, constructed |-> 5 \in Head(s),
                     class |-> IF 7 \in Head(s) THEN {1} ELSE {}]
    IN  IF s = <<>> THEN Failed(s)
        ELSE IF low # 0..4 THEN Value(ident(low), Tail(s))
        ELSE IF ~tag.ok THEN tag
        ELSE IF tag.value \subseteq 0..4 /\ tag.value # 0..4 THEN Failed(tag.rest)
        ELSE Value(ident(tag.value), tag.rest)

LengthWrite(x) ==
    LET len == 8 - Clz(x, 64) \div 8
    IN  IF x \subseteq 0..6 THEN Octets(<<x>>)
        ELSE Octets(<<Bits(len) \union {7}>> \o BigEndian(x, len))

(* The octets of a length are read one at a time. *)
LengthRead(s) ==
    LET len == Number(Head(s) \ {7})
        more == ReadBytes(Tail(s), len)
    IN  IF s = <<>> THEN Failed(s)
        ELSE IF 7 \notin Head(s) THEN Value(Head(s), Tail(s))
        ELSE IF len \notin 1..8 THEN Failed(Tail(s))
        ELSE IF ~more.ok THEN Failed(<<>>)
        ELSE Value(FromBigEndian(more.value), more.rest)

Universal(tag) == [identifier |-> Bits(tag), constructed |-> FALSE, class |-> {}]

(* Identifier, length and contents; the identifier is not looked at again. *)
DerWrite(tag, len, contents) ==
    Then(Then(IdentWrite(Universal(tag)), LengthWrite(Bits(len))), contents)

DerU64Write(tag, x) == DerWrite(tag, U64Length(x), BerU64Write(U64Length(x), x))
DerU64WriteByval(tag, x) == DerU64Write(tag, x)
DerS64Write(tag, x) == DerWrite(tag, S64Length(x), BerU64Write(S64Length(x), x))
DerS64WriteByval(tag, x) == DerS64Write(tag, x)

(* The rest of a tagged number and the length that precedes it. *)
DerHeader(s) ==
    LET ident == IdentRead(s)
    IN  IF ident.ok THEN LengthRead(ident.rest) ELSE ident

DerU64Read(s) ==
    LET h == DerHeader(s) IN IF h.ok THEN BerU64Read(h.rest, Number(h.value)) ELSE h
DerU64ReadByval(s) == DerU64Read(s)

DerS64Read(s) ==
    LET h == DerHeader(s) IN IF h.ok THEN BerS64Read(h.rest, Number(h.value)) ELSE h
DerS64ReadByval(s) == DerS64Read(s)
=============================================================================
