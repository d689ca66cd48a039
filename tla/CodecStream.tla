---------------------------- MODULE CodecStream ----------------------------
(* Numbers of all kinds written one after the other to a buffer of a fixed *)
(* size and read back in the same order, as the binary formats do.  The    *)
(* buffer has no marks between the numbers: where one ends and the next    *)
(* begins is known only from the octets themselves.  A write that does not *)
(* fit is refused by the buffer, perhaps when part of the number is there. *)
EXTENDS FloatCodec

CONSTANTS
    Samples,    (* Samples[n][kind]: the values that may be written as the n-th *)
    Rooms,      (* sizes of the buffer, in octets *)
    Tags        (* tags of the ASN.1 numbers *)

Kinds == {"leb", "vlu", "ident", "length", "derU64", "derS64", "derReal",
          "ieee32", "ieee64", "vf32", "vf64",
          "ieee32vec", "ieee64vec", "vf32vec", "vf64vec"}

(* What may be written as a number of a kind.                              *)
Word == SUBSET (0..63)
Word32 == SUBSET (0..31)
Ident == [identifier : Word, constructed : BOOLEAN, class : SUBSET (0..1)]

Domain(kind) ==
    CASE kind = "ident" -> Ident
      [] kind \in {"ieee32", "vf32"} -> Word32
      [] kind \in {"ieee32vec", "vf32vec"} -> Seq(Word32)
      [] kind \in {"ieee64vec", "vf64vec"} -> Seq(Word)
      [] OTHER -> Word

ASSUME SamplesAssumption ==
    /\ Samples \in Seq(Range(Samples))
    /\ \A n \in DOMAIN Samples :
          DOMAIN Samples[n] = Kinds /\ \A k \in Kinds : Samples[n][k] \subseteq Domain(k)
    /\ Rooms \subseteq Nat
    /\ Tags \subseteq 0..9

(* Small numbers are few bits, and an exponent needs two octets at most:   *)
(* facts without constants, about the values of powers of two.             *)
FloatExponents == -1200..1200

ASSUME NumbersAssumption ==
    /\ Bits(0) = {} /\ \A n \in 0..20 : Bits(n) \subseteq 0..4 /\ Number(Bits(n)) = n
    /\ \A n \in 0..15 : Bits(n) \subseteq 0..3
    /\ \A n \in 0..3 : Bits(n) \subseteq 0..1
    /\ \A n \in FloatExponents : S64Length(Signed(n)) \in 1..2
    /\ Bias(F32) = 127 /\ Bias(F64) = 1023
    /\ \A f \in {F32, F64} :
          \A x \in SUBSET (0..(f.exp - 1)) : Number(x) \in 0..(2 * Bias(f) + 1)

(* A number is the number of its bits, as far as exponents go.             *)
ASSUME ExponentsAssumption ==
    /\ Bits(1) = {0} /\ Bits(2) = {1} /\ 0..(2^F64.exp - 1) = 0..2047
    /\ \A n \in FloatExponents : SignedNumber(Signed(n)) = n
    /\ \A f \in {F32, F64} :
          /\ Number(ExponentMask(f)) = 2 * Bias(f) + 1
          /\ \A x \in SUBSET (0..(f.exp - 1)) : Bits(Number(x)) = x

VARIABLES
    stream,     (* the octets written and not yet read *)
    room,       (* the octets the buffer still has room for *)
    sent,       (* the numbers written and not yet read, and if wholly so *)
    written,    (* how many writes there have been *)
    last        (* the last number read: what it was and what was made of it *)

vars == <<stream, room, sent, written, last>>

Nothing == [kind |-> "none", value |-> {}, whole |-> TRUE, ok |-> TRUE, got |-> {}]

Init ==
    /\ stream = <<>>
    /\ room \in Rooms
    /\ sent = <<>>
    /\ written = 0
    /\ last = Nothing

-----------------------------------------------------------------------------
(* The values of a kind that may be written now.  A writer stops after its *)
(* first error.                                                            *)
Offered(kind) ==
    IF written < Len(Samples) /\ \A i \in DOMAIN sent : sent[i].whole
    THEN Samples[written + 1][kind] ELSE {}

(* The number of leading chunks for which there is room. *)
Accepted(chunks) ==
    Max({n \in 0..Len(chunks) : Len(FlattenSeq(SubSeq(chunks, 1, n))) <= room})

Put(kind, v, w) ==
    LET n == Accepted(w.chunks)
        octets == FlattenSeq(SubSeq(w.chunks, 1, n))
    IN  /\ stream' = stream \o octets
        /\ room' = room - Len(octets)
        /\ sent' = Append(sent, [kind |-> kind, value |-> v,
                                 whole |-> w.ok /\ n = Len(w.chunks)])
        /\ written' = written + 1
        /\ UNCHANGED last

(* A reader stops after its first error. *)
Expecting(kind) == sent # <<>> /\ last.ok /\ Head(sent).kind = kind

Get(r) ==
    /\ stream' = r.rest
    /\ sent' = Tail(sent)
    /\ last' = [kind |-> Head(sent).kind, value |-> Head(sent).value,
                whole |-> Head(sent).whole, ok |-> r.ok, got |-> r.value]
    /\ UNCHANGED <<room, written>>

Count == Len(Head(sent).value)

-----------------------------------------------------------------------------
(* One action for each kind of number and direction *)

PutLeb == \E v \in Offered("leb") : \E w \in {LebWrite(v), LebWriteByval(v)} : Put("leb", v, w)
GetLeb == Expecting("leb") /\ \E r \in {LebRead(stream), LebReadByval(stream)} : Get(r)

PutVlu == \E v \in Offered("vlu") : \E w \in {VluWrite(v), VluWriteByval(v)} : Put("vlu", v, w)
GetVlu == Expecting("vlu") /\ \E r \in {VluRead(stream), VluReadByval(stream)} : Get(r)

PutIdent == \E v \in Offered("ident") : Put("ident", v, IdentWrite(v))
GetIdent == Expecting("ident") /\ Get(IdentRead(stream))

PutLength == \E v \in Offered("length") : Put("length", v, LengthWrite(v))
GetLength == Expecting("length") /\ Get(LengthRead(stream))

PutDerU64 ==
    \E v \in Offered("derU64"), t \in Tags :
        \E w \in {DerU64Write(t, v), DerU64WriteByval(t, v)} : Put("derU64", v, w)
GetDerU64 ==
    Expecting("derU64") /\ \E r \in {DerU64Read(stream), DerU64ReadByval(stream)} : Get(r)

PutDerS64 ==
    \E v \in Offered("derS64"), t \in Tags :
        \E w \in {DerS64Write(t, v), DerS64WriteByval(t, v)} : Put("derS64", v, w)
GetDerS64 ==
    Expecting("derS64") /\ \E r \in {DerS64Read(stream), DerS64ReadByval(stream)} : Get(r)

PutDerReal ==
    \E v \in Offered("derReal"), t \in Tags :
        \E w \in {DerRealWrite(t, v), DerRealWriteByval(t, v)} : Put("derReal", v, w)
GetDerReal ==
    Expecting("derReal") /\ \E r \in {DerRealRead(stream), DerRealReadByval(stream)} : Get(r)

PutIeee32 ==
    \E v \in Offered("ieee32") : \E w \in {Ieee32Write(v), Ieee32WriteByval(v)} : Put("ieee32", v, w)
GetIeee32 ==
    Expecting("ieee32") /\ \E r \in {Ieee32Read(stream), Ieee32ReadByval(stream)} : Get(r)

PutIeee64 ==
    \E v \in Offered("ieee64") : \E w \in {Ieee64Write(v), Ieee64WriteByval(v)} : Put("ieee64", v, w)
GetIeee64 ==
    Expecting("ieee64") /\ \E r \in {Ieee64Read(stream), Ieee64ReadByval(stream)} : Get(r)

PutVf32 == \E v \in Offered("vf32") : \E w \in {Vf32Write(v), Vf32WriteByval(v)} : Put("vf32", v, w)
GetVf32 == Expecting("vf32") /\ \E r \in {Vf32Read(stream), Vf32ReadByval(stream)} : Get(r)

PutVf64 == \E v \in Offered("vf64") : \E w \in {Vf64Write(v), Vf64WriteByval(v)} : Put("vf64", v, w)
GetVf64 == Expecting("vf64") /\ \E r \in {Vf64Read(stream), Vf64ReadByval(stream)} : Get(r)

PutIeee32Vec == \E v \in Offered("ieee32vec") : Put("ieee32vec", v, Ieee32VecWrite(v))
GetIeee32Vec == Expecting("ieee32vec") /\ Get(Ieee32VecRead(stream, Count))

PutIeee64Vec == \E v \in Offered("ieee64vec") : Put("ieee64vec", v, Ieee64VecWrite(v))
GetIeee64Vec == Expecting("ieee64vec") /\ Get(Ieee64VecRead(stream, Count))

PutVf32Vec == \E v \in Offered("vf32vec") : Put("vf32vec", v, Vf32VecWrite(v))
GetVf32Vec == Expecting("vf32vec") /\ Get(Vf32VecRead(stream, Count))

PutVf64Vec == \E v \in Offered("vf64vec") : Put("vf64vec", v, Vf64VecWrite(v))
GetVf64Vec == Expecting("vf64vec") /\ Get(Vf64VecRead(stream, Count))

Writing ==
    \/ PutLeb \/ PutVlu \/ PutIdent \/ PutLength
    \/ PutDerU64 \/ PutDerS64 \/ PutDerReal
    \/ PutIeee32 \/ PutIeee64 \/ PutVf32 \/ PutVf64
    \/ PutIeee32Vec \/ PutIeee64Vec \/ PutVf32Vec \/ PutVf64Vec

Reading ==
    \/ GetLeb \/ GetVlu \/ GetIdent \/ GetLength
    \/ GetDerU64 \/ GetDerS64 \/ GetDerReal
    \/ GetIeee32 \/ GetIeee64 \/ GetVf32 \/ GetVf64
    \/ GetIeee32Vec \/ GetIeee64Vec \/ GetVf32Vec \/ GetVf64Vec

Next == Writing \/ Reading

Spec == Init /\ [][Next]_vars

-----------------------------------------------------------------------------
(* Properties *)

QuietIn(f, v) ==
    IF IsNan(f, v) THEN Pack(f, {f.mant - 1}, ExponentMask(f), Sign(f, v)) ELSE v

(* What a reader is to make of a value: the same value, but for the digits *)
(* of a NaN, the sign of a NaN written as a real, and the lower bit of the *)
(* class of an identifier, which the encodings do not keep.                *)
Kept(kind, v) ==
    CASE kind = "vf32" -> QuietIn(F32, v)
      [] kind = "vf64" -> QuietIn(F64, v)
      [] kind = "vf32vec" -> [i \in DOMAIN v |-> QuietIn(F32, v[i])]
      [] kind = "vf64vec" -> [i \in DOMAIN v |-> QuietIn(F64, v[i])]
      [] kind = "derReal" -> IF IsNan(F64, v) THEN QuietNan(F64) ELSE v
      [] kind = "ident" -> [v EXCEPT !.class = @ \ {0}]
      [] OTHER -> v

(* The encoding of denormal doubles as ASN.1 reals loses their exponent. *)
Exact(kind, v) == ~(kind = "derReal" /\ IsDenorm(F64, v))

(* A number whose write was acknowledged is read back, and is the number   *)
(* that was written, whatever was written before and after it.             *)
RoundTrip ==
    last.whole => /\ last.ok
                  /\ Exact(last.kind, last.value) /\ last.kind # "none" =>
                        last.got = Kept(last.kind, last.value)

(* A number of which the buffer refused a part is never read as a number.  *)
TornRefused == ~last.whole => ~last.ok

(* Every reader takes exactly the octets that the writer of its number     *)
(* left, so that when all has been read nothing is left over.              *)
Aligned == sent = <<>> /\ last.ok => stream = <<>>
=============================================================================
