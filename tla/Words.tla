------------------------------- MODULE Words -------------------------------
(* Machine words as the sets of their one bits, so that words of 64 bits   *)
(* can be shifted, masked and measured without numbers too large for TLC.  *)
EXTENDS Integers, Sequences, FiniteSetsExt

Shl(x, n, w) == {i + n : i \in x} \intersect 0..(w - 1)
Shr(x, n) == {i - n : i \in {j \in x : j >= n}}
Low(x, n) == x \intersect 0..(n - 1)
Complement(x, w) == 0..(w - 1) \ x

(* clz and ctz: a word of no bits has as many zeros as bits. *)
Clz(x, w) == IF x = {} THEN w ELSE w - 1 - Max(x)
Ctz(x, w) == IF x = {} THEN w ELSE Min(x)

(* The word of a small number and the number of a small word. *)
Bits(n) == {i \in 0..15 : (n \div 2^i) % 2 = 1}
Number(x) == MapThenSumSet(LAMBDA i : 2^i, x)

(* Two's complement, in 64 bits. *)
Signed(n) == IF n >= 0 THEN Bits(n) ELSE Complement(Bits(-n - 1), 64)
SignedNumber(x) ==
    IF 63 \in x THEN -1 - Number(Complement(x, 64)) ELSE Number(x)

(* _sign_extend_s64, of a word that was read from len octets. *)
SignExtend(x, len) == IF 8 * len - 1 \in x THEN x \union (8 * len)..63 ELSE x

(* The octets of the low end of a word, and the word of some octets. *)
Octet(x, k) == Low(Shr(x, 8 * k), 8)
LittleEndian(x, len) == [k \in 1..len |-> Octet(x, k - 1)]
BigEndian(x, len) == [k \in 1..len |-> Octet(x, len - k)]
FromLittleEndian(s) == UNION {Shl(s[k], 8 * (k - 1), 64) : k \in DOMAIN s}
FromBigEndian(s) == UNION {Shl(s[k], 8 * (Len(s) - k), 64) : k \in DOMAIN s}
=============================================================================
