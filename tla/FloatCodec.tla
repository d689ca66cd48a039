----------------------------- MODULE FloatCodec -----------------------------
(* The encodings of floating point numbers of mubuf.cc: IEEE 754, the      *)
(* compressed form vf128 and the reals of ASN.1.  A number is the set of   *)
(* its one bits; the two formats differ in the sizes of their fields.      *)
EXTENDS NumCodec

F32 == [width |-> 32, exp |-> 8, mant |-> 23]
F64 == [width |-> 64, exp |-> 11, mant |-> 52]

Bias(f) == 2^(f.exp - 1) - 1
Mantissa(f, v) == Low(v, f.mant)
Exponent(f, v) == Number(Low(Shr(v, f.mant), f.exp))
Sign(f, v) == f.width - 1 \in v

Pack(f, mant, exp, sign) ==
    Low(mant, f.mant) \union Shl(Low(exp, f.exp), f.mant, f.width)
        \union (IF sign THEN {f.width - 1} ELSE {})

ExponentMask(f) == 0..(f.exp - 1)
IsZero(f, v) == v \subseteq {f.width - 1}
IsInf(f, v) == Low(Shr(v, f.mant), f.exp) = ExponentMask(f) /\ Mantissa(f, v) = {}
IsNan(f, v) == Low(Shr(v, f.mant), f.exp) = ExponentMask(f) /\ Mantissa(f, v) # {}
IsDenorm(f, v) == Exponent(f, v) = 0 /\ Mantissa(f, v) # {}

Infinity(f) == Pack(f, {}, ExponentMask(f), FALSE)
QuietNan(f) == Pack(f, {f.mant - 1}, ExponentMask(f), FALSE)

-----------------------------------------------------------------------------
(* IEEE 754, little-endian *)

IeeeWrite(f, v) == Chunks(<<LittleEndian(v, f.width \div 8)>>)
IeeeRead(f, s) ==
    LET r == ReadBytes(s, f.width \div 8)
    IN  IF r.ok THEN Value(FromLittleEndian(r.value), r.rest) ELSE r

Ieee32Write(v) == IeeeWrite(F32, v)
Ieee32WriteByval(v) == IeeeWrite(F32, v)
Ieee32Read(s) == IeeeRead(F32, s)
Ieee32ReadByval(s) == IeeeRead(F32, s)
Ieee64Write(v) == IeeeWrite(F64, v)
Ieee64WriteByval(v) == IeeeWrite(F64, v)
Ieee64Read(s) == IeeeRead(F64, s)
Ieee64ReadByval(s) == IeeeRead(F64, s)

(* Vectors are moved by one call, which answers the number of octets; the  *)
(* functions for doubles compare it with the size of as many floats and    *)
(* so report an error after any call but one that moves nothing.           *)
IeeeVecWrite(f, vs) ==
    [ok |-> vs = <<>> \/ f = F32,
     chunks |-> <<FlattenSeq([i \in DOMAIN vs |-> LittleEndian(vs[i], f.width \div 8)])>>]
IeeeVecRead(f, s, n) ==
    LET size == f.width \div 8
        r == ReadBytes(s, n * size)
        item(i) == SubSeq(r.value, (i - 1) * size + 1, i * size)
    IN  IF ~r.ok THEN r
        ELSE IF f # F32 /\ n > 0 THEN Failed(r.rest)
        ELSE Value([i \in 1..n |-> FromLittleEndian(item(i))], r.rest)

Ieee32VecWrite(vs) == IeeeVecWrite(F32, vs)
Ieee32VecRead(s, n) == IeeeVecRead(F32, s, n)
Ieee64VecWrite(vs) == IeeeVecWrite(F64, vs)
Ieee64VecRead(s, n) == IeeeVecRead(F64, s, n)

-----------------------------------------------------------------------------
(* vf128, writing.  The fraction is the mantissa at the left of the word.  *)

VfSexp(f, v) == Exponent(f, v) - Bias(f)
VfFrac(f, v) == Shl(Mantissa(f, v), f.exp + 1, f.width)

TopNibble(f) == (f.width - 4)..(f.width - 1)

(* A prefix with the sign and the lengths, then exponent and mantissa. *)
OutOfLine(sign, expLen, sexp, manLen, man) ==
    Chunks(<< <<{7} \union sign \union Shl(Bits(expLen), 4, 8) \union Bits(manLen)>>,
              LittleEndian(Signed(sexp), expLen),
              LittleEndian(man, manLen) >>)

(* The mantissa with its leading one, at the right of the word. *)
VfMan(f, frac) == Shr(frac, Ctz(frac, f.width)) \union {f.width - Ctz(frac, f.width)}

VfFractionShifted(f, sign, sexp, frac) ==
    LET man == Shl(VfMan(f, frac), -sexp, f.width)
    IN  OutOfLine(sign, 0, 0, U64Length(man), man)

(* A fraction below one may have its exponent in unary below its mantissa, *)
(* if that is not longer.                                                  *)
VfFraction(f, sign, sexp, frac) ==
    LET man == VfMan(f, frac)
        unary == Shl(man, -sexp - 1, f.width)
        expLen == S64Length(Signed(sexp))
    IN  IF U64Length(man) + expLen < U64Length(unary)
        THEN OutOfLine(sign, expLen, sexp, U64Length(man), man)
        ELSE OutOfLine(sign, 0, 0, U64Length(unary), unary)

VfOutOfLine(f, sign, sexp, frac) ==
    LET sub == Shr(frac, Ctz(frac, f.width))
        subExp == sexp - Clz(frac, f.width) - 1
        man == VfMan(f, frac)
    IN  IF sexp = -Bias(f)
        THEN OutOfLine(sign, S64Length(Signed(subExp)), subExp, U64Length(sub), sub)
        ELSE IF frac = {}
        THEN OutOfLine(sign, S64Length(Signed(sexp)), sexp, 0, {})
        ELSE IF sexp \in -8..-1
        THEN VfFraction(f, sign, sexp, frac)
        ELSE OutOfLine(sign, S64Length(Signed(sexp)), sexp, U64Length(man), man)

(* Infinities and NaNs, zeros, and numbers of few digits are one octet. *)
VfWrite(f, v) ==
    LET sign == IF Sign(f, v) THEN {6} ELSE {}
        sexp == VfSexp(f, v)
        frac == VfFrac(f, v)
        inline(x) == Chunks(<< <<sign \union x>> >>)
    IN  CASE sexp = Bias(f) + 1 -> inline({4, 5} \union (IF frac = {} THEN {} ELSE {3}))
          [] sexp = -Bias(f) /\ frac = {} -> inline({})
          [] sexp \in 0..1 /\ frac \subseteq TopNibble(f) ->
                inline(Shl(Bits(sexp + 1), 4, 8) \union Shr(frac, f.width - 4))
          [] sexp \in -4..-1 /\ Shr(frac, -sexp) \subseteq TopNibble(f) ->
                inline(Shr({4} \union Shr(frac, f.width - 4), -sexp))
          [] OTHER -> VfOutOfLine(f, sign, sexp, frac)

Vf32Write(v) == VfWrite(F32, v)
Vf32WriteByval(v) == VfWrite(F32, v)
Vf64Write(v) == VfWrite(F64, v)
Vf64WriteByval(v) == VfWrite(F64, v)

-----------------------------------------------------------------------------
(* vf128, reading *)

(* A mantissa that begins with the leading one, which is dropped. *)
Normal(f, man) == Shr(Shl(man, Clz(man, f.width) + 1, f.width), f.exp + 1)

VfInline(f, sign, expBits, man) ==
    LET left == Shl(man, f.mant - 4, f.width)
    IN  CASE expBits = {} /\ man = {} -> Pack(f, {}, {}, sign)
          [] expBits = {} /\ man # {} ->
                Pack(f, Normal(f, man), Bits(Bias(f) + f.width - 5 - Clz(man, f.width)), sign)
          [] expBits = {0, 1} -> Pack(f, left, ExponentMask(f), sign)
          [] OTHER -> Pack(f, left, Bits(Bias(f) + Number(expBits) - 1), sign)

VfAssemble(f, sign, expLen, sexp, man) ==
    LET lz == Clz(man, f.width)
        normalExp == IF expLen = 0 THEN -Ctz(man, f.width) - 1 ELSE sexp
    IN  IF sexp <= -Bias(f)
        THEN Pack(f, Shl(man, Bias(f) + sexp + lz - f.exp, f.width), {}, sign)
        ELSE Pack(f, Normal(f, man), Bits(Bias(f) + normalExp), sign)

(* The digits of a mantissa that is too long for the word are cut off. *)
Truncated(f, x) == Shr(x, Max({0, (64 - f.width) - Clz(x, 64)}))

VfRead(f, s) ==
    LET sign == 6 \in Head(s)
        expBits == Low(Shr(Head(s), 4), 2)
        man == Low(Head(s), 4)
        e == IF expBits = {} THEN Value({}, Tail(s)) ELSE LeS64Read(Tail(s), Number(expBits))
        m == IF man = {} THEN Value({}, e.rest) ELSE LeU64Read(e.rest, Number(man))
    IN  IF s = <<>> THEN Failed(s)
        ELSE IF 7 \notin Head(s) THEN Value(VfInline(f, sign, expBits, man), Tail(s))
        ELSE IF ~e.ok THEN e
        ELSE IF ~m.ok THEN m
        ELSE Value(VfAssemble(f, sign, Number(expBits), SignedNumber(e.value),
                              Truncated(f, m.value)), m.rest)

Vf32Read(s) == VfRead(F32, s)
Vf32ReadByval(s) == VfRead(F32, s)
Vf64Read(s) == VfRead(F64, s)
Vf64ReadByval(s) == VfRead(F64, s)

(* Vectors are written and read number by number. *)
VfVecWrite(f, vs) ==
    [ok |-> \A i \in DOMAIN vs : VfWrite(f, vs[i]).ok,
     chunks |-> FlattenSeq([i \in DOMAIN vs |-> VfWrite(f, vs[i]).chunks])]

VfVecStep(f, r) ==
    LET x == VfRead(f, r.rest)
    IN  IF ~r.ok THEN r
        ELSE IF ~x.ok THEN x
        ELSE Value(Append(r.value, x.value), x.rest)
VfVecRead(f, s, n) ==
    LET read[i \in 0..n] == IF i = 0 THEN Value(<<>>, s) ELSE VfVecStep(f, read[i - 1])
    IN  read[n]

Vf32VecWrite(vs) == VfVecWrite(F32, vs)
Vf32VecRead(s, n) == VfVecRead(F32, s, n)
Vf64VecWrite(vs) == VfVecWrite(F64, vs)
Vf64VecRead(s, n) == VfVecRead(F64, s, n)

-----------------------------------------------------------------------------
(* The reals of ASN.1: an odd fraction and the exponent of its last bit.   *)
(* The exponent of a denormal number is left at zero.                      *)

RealData(v) ==
    LET exp == Exponent(F64, v)
        all == Mantissa(F64, v) \union (IF exp > 0 THEN {F64.mant} ELSE {})
        tz == Ctz(all, 64)
    IN  [frac |-> Shr(all, tz),
         sexp |-> IF exp > 0 THEN exp + Clz(all, 64) + tz - 63 - Bias(F64) ELSE 0]

RealExpLength(v) == S64Length(Signed(RealData(v).sexp))
RealFracLength(v) == U64Length(RealData(v).frac)

RealLengthShort(v) ==
    IF IsZero(F64, v) THEN 3
    ELSE IF IsInf(F64, v) \/ IsNan(F64, v) THEN 1
    ELSE 2 + RealFracLength(v)

RealLength(v) ==
    IF IsZero(F64, v) THEN (IF Sign(F64, v) THEN 1 ELSE 3)
    ELSE IF IsInf(F64, v) \/ IsNan(F64, v) THEN 1
    ELSE 1 + RealExpLength(v) + RealFracLength(v)
RealLengthByval(v) == RealLength(v)

PlusInfinity == {6}
MinusInfinity == {6, 0}
MinusZero == {6, 1}
NotANumber == {6, 1, 0}

RealWrite(v) ==
    LET sign == Sign(F64, v)
        expLen == RealExpLength(v)
    IN  CASE IsZero(F64, v) /\ sign -> Octets(<<MinusZero>>)
          [] IsInf(F64, v) -> Octets(<<IF sign THEN MinusInfinity ELSE PlusInfinity>>)
          [] IsNan(F64, v) -> Octets(<<NotANumber>>)
          [] OTHER ->
                IF expLen \notin 1..2 THEN Rejected
                ELSE Then(Octets(<<{7} \union (IF sign THEN {6} ELSE {}) \union Bits(expLen - 1)>>),
                          Then(BerU64Write(expLen, Signed(RealData(v).sexp)),
                               BerU64Write(RealFracLength(v), RealData(v).frac)))
RealWriteByval(v) == RealWrite(v)

RealAssemble(sign, frac, sexp) ==
    LET exp == Bias(F64) + 63 + sexp - Clz(frac, 64)
    IN  IF frac = {0} /\ sexp = 0 THEN Pack(F64, {}, Bits(Bias(F64)), sign)
        ELSE IF frac = {} /\ sexp = 0 THEN Pack(F64, {}, {}, sign)
        ELSE Pack(F64, Shr(Shl(frac, Clz(frac, 64) + 1, 64), 64 - F64.mant), Bits(exp), sign)

(* The exponent of a normal fraction must fit its field. *)
RealInRange(frac, sexp) ==
    \/ frac \in {{0}, {}} /\ sexp = 0
    \/ Bias(F64) + 63 + sexp - Clz(frac, 64) \in 0..(2^F64.exp - 1)

RealRead(s, len) ==
    LET b == Head(s)
        expLen == Number(Low(b, 2)) + 1
        e == BerS64Read(Tail(s), expLen)
        m == BerU64Read(e.rest, len - expLen - 1)
        sexp == SignedNumber(e.value)
    IN  IF s = <<>> THEN Failed(s)
        ELSE IF b = PlusInfinity THEN Value(Infinity(F64), Tail(s))
        ELSE IF b = MinusInfinity THEN Value(Infinity(F64) \union {63}, Tail(s))
        ELSE IF b = MinusZero THEN Value({63}, Tail(s))
        ELSE IF b = NotANumber THEN Value(QuietNan(F64), Tail(s))
        ELSE IF 7 \notin b \/ expLen > 2 THEN Failed(Tail(s))
        ELSE IF ~e.ok THEN e
        ELSE IF len - expLen - 1 < 0 \/ ~m.ok THEN Failed(e.rest)
        ELSE IF ~RealInRange(m.value, sexp) THEN Failed(m.rest)
        ELSE Value(RealAssemble(6 \in b, m.value, sexp), m.rest)
RealReadByval(s, len) == RealRead(s, len)

DerRealWrite(tag, v) == DerWrite(tag, RealLength(v), RealWrite(v))
DerRealWriteByval(tag, v) == DerRealWrite(tag, v)
DerRealRead(s) ==
    LET h == DerHeader(s) IN IF h.ok THEN RealRead(h.rest, Number(h.value)) ELSE h
DerRealReadByval(s) == DerRealRead(s)
=============================================================================
