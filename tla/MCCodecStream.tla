--------------------------- MODULE MCCodecStream ---------------------------
(* Numbers at the boundaries of the encodings. *)
EXTENDS CodecStream

(* Words of 64 bits: powers of two, the numbers one below, their           *)
(* complements, and numbers of two bits.                                   *)
Powers == {{k} : k \in 0..63}
Masks == {0..k : k \in -1..63}
WordSamples ==
    Powers \union Masks \union {Complement(x, 64) : x \in Powers \union Masks}
        \union {{0, k} : k \in 1..63}

(* Identifiers of one octet and longer ones, around the boundary of 31. *)
IdentSamples ==
    [identifier : {Bits(n) : n \in {0, 2, 30, 31, 32, 127, 128}} \union {{13}, {14}, 0..55, {55}},
     constructed : BOOLEAN,
     class : SUBSET {0, 1}]

(* Mantissas: none, one digit, four digits, around the lengths at which an *)
(* encoding becomes longer, and all digits.                                *)
Mantissas(f) ==
    {{}} \union {{k} : k \in 0..(f.mant - 1)} \union {k..(f.mant - 1) : k \in 0..(f.mant - 1)}

(* Exponents: denormal, the smallest, around those that are treated apart, *)
(* the largest, and infinite.                                              *)
Exponents(f) ==
    {0, 1, 2, Bias(f) - 128, Bias(f) - 127, Bias(f) + 53, Bias(f) + 127, Bias(f) + 128,
     2 * Bias(f), 2 * Bias(f) + 1}
        \union {Bias(f) + e : e \in -10..3}

Floats(f) ==
    {Pack(f, m, Bits(e), s) : m \in Mantissas(f), e \in Exponents(f) \intersect 0..(2 * Bias(f) + 1),
                              s \in {FALSE}}
        \union {Pack(f, m, Bits(e), TRUE) : m \in {{}, {f.mant - 1}, {0}},
                                            e \in {0, Bias(f) - 1, Bias(f), 2 * Bias(f) + 1}}

(* A third, and a NaN that is not quiet. *)
Third(f) == Pack(f, {k \in 0..(f.mant - 1) : k % 2 = 0}, Bits(Bias(f) - 2), FALSE)
Pairs(f) == {<<Third(f), QuietNan(f) \union {0}>>, <<{}, {f.width - 1}>>, <<>>}

First ==
    [k \in Kinds |->
        CASE k \in {"leb", "vlu", "length", "derU64", "derS64"} -> WordSamples
          [] k = "ident" -> IdentSamples
          [] k \in {"ieee32", "vf32"} -> Floats(F32)
          [] k \in {"ieee64", "vf64", "derReal"} -> Floats(F64)
          [] k \in {"ieee32vec", "vf32vec"} -> Pairs(F32)
          [] k \in {"ieee64vec", "vf64vec"} -> Pairs(F64)]

(* What follows a number: little, but of every kind that delimits itself   *)
(* in another way.                                                         *)
Second ==
    [k \in Kinds |->
        CASE k \in {"leb", "vlu"} -> {{8}}
          [] k = "derU64" -> {{7}}
          [] k = "vf32" -> {Third(F32)}
          [] k = "ieee64" -> {Third(F64)}
          [] OTHER -> {}]

FirstAndSecond == <<First, Second>>
=============================================================================
