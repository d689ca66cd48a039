---------------------------- MODULE MuBufProofs ----------------------------
(***************************************************************************)
(* That a buffer of any kind, of any size and with any file, is a queue,   *)
(* refuses only what cannot be done and leaves nothing behind: theorems    *)
(* about MuBuf.                                                            *)
(***************************************************************************)
EXTENDS MuBuf, Integers, SequenceTheorems, TLAPS

(* The next power of two of a size is not below the size.                  *)
Growing == \A n \in Nat \ {0} : Grows(n)

(* A buffer whose markers are in order and within its data. *)
Sound(b) ==
    /\ b = [data |-> b.data, read_marker |-> b.read_marker,
            write_marker |-> b.write_marker, buffer_size |-> b.buffer_size]
    /\ b.buffer_size \in Nat
    /\ b.write_marker \in Nat
    /\ b.read_marker \in Nat
    /\ b.read_marker <= b.write_marker
    /\ b.write_marker <= b.buffer_size
    /\ b.data \in [0..(b.buffer_size - 1) -> Nat]

(* What stands for the i'th byte that entered. *)
Byte(i) == IF i \in cut THEN 0 ELSE i

(* The bytes that have left are the first that entered, the window holds   *)
(* the others, each in its place, and a reader has no more than its file.  *)
InOrder(b, n, o) ==
    /\ Sound(b)
    /\ n \in Nat
    /\ o \in Seq(Nat)
    /\ Len(o) + Readable(b) = n
    /\ \A i \in 1..Len(o) : o[i] = Byte(i)
    /\ \A i \in b.read_marker..(b.write_marker - 1) :
          b.data[i] = Byte(Len(o) + i - b.read_marker + 1)
    /\ kind = "reader" => n <= FileSize
    /\ cut \subseteq 1..n

QueueInv == InOrder(buf, in, out) /\ kind \in KindNames

(* A state that a call goes through. *)
Ordered(s) ==
    /\ s = [buf |-> s.buf, in |-> s.in, out |-> s.out, ok |-> s.ok]
    /\ InOrder(s.buf, s.in, s.out)
    /\ s.ok \in BOOLEAN

-----------------------------------------------------------------------------
(* An interval from 1 has the length of its last element.                  *)
LEMMA IntervalEqual == ASSUME NEW a \in Nat, NEW b \in Nat, 1..a = 1..b PROVE a = b
<1>1. CASE a < b
  <2>1. b \in 1..b /\ b \notin 1..a
    BY <1>1
  <2>2. QED
    BY <2>1
<1>2. CASE b < a
  <2>1. a \in 1..a /\ a \notin 1..b
    BY <1>2
  <2>2. QED
    BY <2>1
<1>3. QED
  BY <1>1, <1>2

(* The window is a sequence.                                               *)
LEMMA WindowIsSeq ==
    ASSUME NEW b, Sound(b)
    PROVE  /\ Window(b) \in Seq(Nat)
           /\ Len(Window(b)) = Readable(b)
           /\ Readable(b) \in Nat
           /\ \A i \in 1..Readable(b) : Window(b)[i] = b.data[b.read_marker + i - 1]
<1>1. Readable(b) \in Nat
  BY DEF Sound, Readable
<1>2. \A i \in 1..Readable(b) : b.data[b.read_marker + i - 1] \in Nat
  <2> SUFFICES ASSUME NEW i \in 1..Readable(b) PROVE b.data[b.read_marker + i - 1] \in Nat
    OBVIOUS
  <2>1. b.read_marker + i - 1 \in 0..(b.buffer_size - 1)
    BY DEF Sound, Readable
  <2>2. QED
    BY <2>1 DEF Sound
<1> DEFINE w == Window(b)
<1>3. w \in [1..Readable(b) -> Nat] /\ \A i \in 1..Readable(b) : w[i] = b.data[b.read_marker + i - 1]
  BY <1>2 DEF Window
<1>4. w \in Seq(Nat)
  BY <1>1, <1>3, SeqDef
<1> HIDE DEF w
<1>5. Len(w) \in Nat /\ DOMAIN w = 1..Len(w)
  BY <1>4, LenProperties
<1>6. Len(w) = Readable(b)
  BY <1>1, <1>3, <1>5, IntervalEqual
<1>7. QED
  BY <1>1, <1>3, <1>4, <1>6 DEF w

(* Two sequences of naturals, one after the other. *)
LEMMA Joined ==
    ASSUME NEW o \in Seq(Nat), NEW w \in Seq(Nat), NEW n, n = Len(o) + Len(w)
    PROVE  /\ o \o w \in Seq(Nat) /\ Len(o \o w) = n /\ Len(o) \in Nat /\ n \in Nat
           /\ DOMAIN (o \o w) = 1..n
           /\ \A i \in 1..Len(o) : (o \o w)[i] = o[i]
           /\ \A i \in 1..n : i > Len(o) => (o \o w)[i] = w[i - Len(o)]
<1>1. Len(o) \in Nat /\ Len(w) \in Nat
  BY LenProperties
<1>2. /\ o \o w \in Seq(Nat) /\ Len(o \o w) = Len(o) + Len(w)
      /\ \A i \in 1..(Len(o) + Len(w)) :
            (o \o w)[i] = IF i <= Len(o) THEN o[i] ELSE w[i - Len(o)]
  BY ConcatProperties
<1>3. DOMAIN (o \o w) = 1..n
  BY <1>2, LenProperties
<1>4. ASSUME NEW i \in 1..Len(o) PROVE (o \o w)[i] = o[i]
  <2>1. i \in 1..(Len(o) + Len(w)) /\ i <= Len(o)
    BY <1>1
  <2>2. QED
    BY <1>2, <2>1
<1>5. ASSUME NEW i \in 1..n, i > Len(o) PROVE (o \o w)[i] = w[i - Len(o)]
  BY <1>1, <1>2, <1>5
<1>6. QED
  BY <1>1, <1>2, <1>3, <1>4, <1>5

(* The invariant says what the property does.                              *)
LEMMA QueueFollows == QueueInv => Queue
<1> SUFFICES ASSUME QueueInv PROVE Queue
  OBVIOUS
<1>1. /\ Sound(buf) /\ in \in Nat /\ out \in Seq(Nat) /\ Len(out) + Readable(buf) = in
      /\ \A i \in 1..Len(out) : out[i] = Byte(i)
      /\ \A i \in buf.read_marker..(buf.write_marker - 1) :
            buf.data[i] = Byte(Len(out) + i - buf.read_marker + 1)
  BY DEF QueueInv, InOrder
<1> DEFINE w == Window(buf)
           s == out \o w
<1>2. /\ w \in Seq(Nat) /\ Len(w) = Readable(buf) /\ Readable(buf) \in Nat
      /\ \A i \in 1..Readable(buf) : w[i] = buf.data[buf.read_marker + i - 1]
  BY <1>1, WindowIsSeq
<1> HIDE DEF w
<1>3. /\ s \in Seq(Nat) /\ Len(s) = in /\ Len(out) \in Nat
      /\ DOMAIN s = 1..in
      /\ \A i \in 1..Len(out) : s[i] = out[i]
      /\ \A i \in 1..in : i > Len(out) => s[i] = w[i - Len(out)]
  <2>1. in = Len(out) + Len(w)
    BY <1>1, <1>2
  <2>2. QED
    BY <1>1, <1>2, <2>1, Joined
<1> HIDE DEF s
<1>4. ASSUME NEW i \in 1..in PROVE s[i] = Byte(i)
  <2>1. CASE i <= Len(out)
    <3>1. i \in 1..Len(out)
      BY <1>3, <2>1
    <3>2. QED
      BY <1>1, <1>3, <3>1
  <2>2. CASE i > Len(out)
    <3> DEFINE j == i - Len(out)
    <3>1. j \in 1..Readable(buf) /\ s[i] = w[j]
      BY <1>1, <1>2, <1>3, <2>2
    <3>2. buf.read_marker + j - 1 \in buf.read_marker..(buf.write_marker - 1)
      BY <1>1, <3>1 DEF Sound, Readable
    <3>3. w[j] = Byte(Len(out) + (buf.read_marker + j - 1) - buf.read_marker + 1)
      BY <1>1, <1>2, <3>1, <3>2
    <3>4. Len(out) + (buf.read_marker + j - 1) - buf.read_marker + 1 = i
      BY <1>1, <1>3, <3>1 DEF Sound
    <3>5. QED
      BY <3>1, <3>3, <3>4
  <2>3. i <= Len(out) \/ i > Len(out)
    BY <1>3
  <2>4. QED
    BY <2>1, <2>2, <2>3
<1>5. s = [i \in 1..in |-> Byte(i)]
  <2>1. s = [i \in DOMAIN s |-> s[i]]
    BY <1>3, SeqDef
  <2>2. QED
    BY <1>3, <1>4, <2>1
<1>6. QED
  BY <1>5 DEF Queue, Byte, s, w

-----------------------------------------------------------------------------
(* A state with another verdict. *)
LEMMA Verdict ==
    ASSUME NEW s, NEW v, s = [buf |-> s.buf, in |-> s.in, out |-> s.out, ok |-> s.ok]
    PROVE  [s EXCEPT !.ok = v] = [buf |-> s.buf, in |-> s.in, out |-> s.out, ok |-> v]
<1> DEFINE r == [buf |-> s.buf, in |-> s.in, out |-> s.out, ok |-> s.ok]
<1>1. [r EXCEPT !.ok = v] = [buf |-> s.buf, in |-> s.in, out |-> s.out, ok |-> v]
  OBVIOUS
<1>2. s = r
  OBVIOUS
<1> HIDE DEF r
<1>3. QED
  BY <1>1, <1>2, Zenon

(* What was refused is what it was.                                        *)
LEMMA RefuseOrdered ==
    ASSUME NEW s, Ordered(s)
    PROVE  /\ Ordered(Refuse(s)) /\ Refuse(s).ok = FALSE
           /\ Refuse(s).buf = s.buf /\ Refuse(s).in = s.in /\ Refuse(s).out = s.out
<1>1. s = [buf |-> s.buf, in |-> s.in, out |-> s.out, ok |-> s.ok]
  BY DEF Ordered
<1>2. Refuse(s) = [buf |-> s.buf, in |-> s.in, out |-> s.out, ok |-> FALSE]
  BY <1>1, Verdict DEF Refuse
<1>3. QED
  BY <1>2 DEF Ordered

(* A call may be refused by a check. *)
LEMMA RequireOrdered ==
    ASSUME NEW s, Ordered(s), NEW p \in BOOLEAN
    PROVE  /\ Ordered(Require(s, p))
           /\ Require(s, p).ok => p /\ Require(s, p) = s
<1>1. CASE p
  BY <1>1 DEF Require
<1>2. CASE ~p
  BY <1>2, RefuseOrdered DEF Require
<1>3. QED
  BY <1>1, <1>2

(* Moving the window to the beginning of the data keeps it.                *)
LEMMA CompactInOrder ==
    ASSUME NEW b, NEW n, NEW o, InOrder(b, n, o)
    PROVE  /\ InOrder(Compact(b), n, o)
           /\ Readable(Compact(b)) = Readable(b)
           /\ Compact(b).buffer_size = b.buffer_size
           /\ Writable(Compact(b)) = b.buffer_size - Readable(b)
<1> DEFINE d == [i \in DOMAIN b.data |->
                    IF i < Readable(b) THEN b.data[b.read_marker + i] ELSE b.data[i]]
           c == Compact(b)
<1>1. /\ Sound(b) /\ Readable(b) \in Nat /\ DOMAIN b.data = 0..(b.buffer_size - 1)
      /\ \A i \in b.read_marker..(b.write_marker - 1) :
            b.data[i] = Byte(Len(o) + i - b.read_marker + 1)
      /\ o \in Seq(Nat) /\ Len(o) \in Nat
      /\ Readable(b) <= b.buffer_size
  BY LenProperties DEF InOrder, Sound, Readable
<1>2. /\ c = [data |-> d, read_marker |-> 0, write_marker |-> Readable(b),
              buffer_size |-> b.buffer_size]
      /\ c.data = d /\ c.read_marker = 0 /\ c.write_marker = Readable(b)
      /\ c.buffer_size = b.buffer_size
  BY DEF Compact
<1> HIDE DEF c
<1>3. ASSUME NEW i \in 0..(b.buffer_size - 1) PROVE d[i] \in Nat
  <2>1. CASE i < Readable(b)
    <3>1. b.read_marker + i \in 0..(b.buffer_size - 1)
      BY <1>1, <2>1 DEF Sound, Readable
    <3>2. b.data[b.read_marker + i] \in Nat
      BY <1>1, <3>1 DEF Sound
    <3>3. QED
      BY <1>1, <2>1, <3>2
  <2>2. CASE ~(i < Readable(b))
    <3>1. b.data[i] \in Nat
      BY <1>1 DEF Sound
    <3>2. QED
      BY <1>1, <2>2, <3>1
  <2>3. QED
    BY <2>1, <2>2
<1>4. d \in [0..(b.buffer_size - 1) -> Nat]
  BY <1>1, <1>3
<1>5. ASSUME NEW i \in 0..(Readable(b) - 1) PROVE d[i] = Byte(Len(o) + i + 1)
  <2>1. i \in DOMAIN b.data /\ i < Readable(b)
    BY <1>1 DEF Sound
  <2>2. b.read_marker + i \in b.read_marker..(b.write_marker - 1)
    BY <1>1 DEF Sound, Readable
  <2>3. b.data[b.read_marker + i] = Byte(Len(o) + (b.read_marker + i) - b.read_marker + 1)
    BY <1>1, <2>2
  <2>4. d[i] = b.data[b.read_marker + i]
    BY <2>1
  <2> HIDE DEF d
  <2>5. Len(o) + (b.read_marker + i) - b.read_marker + 1 = Len(o) + i + 1
    BY <1>1 DEF Sound
  <2>6. QED
    BY <2>3, <2>4, <2>5
<1> HIDE DEF d
<1>6. Sound(c)
  BY <1>1, <1>2, <1>4 DEF Sound
<1>7. Readable(c) = Readable(b) /\ Writable(c) = b.buffer_size - Readable(b)
  BY <1>1, <1>2 DEF Readable, Writable, Sound
<1>8. ASSUME NEW i \in c.read_marker..(c.write_marker - 1)
      PROVE  c.data[i] = Byte(Len(o) + i - c.read_marker + 1)
  <2>1. i \in 0..(Readable(b) - 1) /\ Len(o) + i - c.read_marker + 1 = Len(o) + i + 1
    BY <1>1, <1>2
  <2>2. QED
    BY <1>2, <1>5, <2>1
<1>9. QED
  BY <1>2, <1>6, <1>7, <1>8 DEF InOrder, c

(* A state with another buffer. *)
LEMMA Rebuffered ==
    ASSUME NEW s, NEW b, s = [buf |-> s.buf, in |-> s.in, out |-> s.out, ok |-> s.ok]
    PROVE  [s EXCEPT !.buf = b] = [buf |-> b, in |-> s.in, out |-> s.out, ok |-> s.ok]
<1> DEFINE r == [buf |-> s.buf, in |-> s.in, out |-> s.out, ok |-> s.ok]
<1>1. [r EXCEPT !.buf = b] = [buf |-> b, in |-> s.in, out |-> s.out, ok |-> s.ok]
  OBVIOUS
<1>2. s = r
  OBVIOUS
<1> HIDE DEF r
<1>3. QED
  BY <1>1, <1>2, Zenon

(* So the call that moves it is in order, too. *)
LEMMA CompactOrdered ==
    ASSUME NEW s, Ordered(s)
    PROVE  LET t == [s EXCEPT !.buf = Compact(@)]
           IN  /\ Ordered(t) /\ t.ok = s.ok /\ t.buf = Compact(s.buf) /\ t.in = s.in
               /\ Readable(t.buf) = Readable(s.buf)
               /\ t.buf.buffer_size = s.buf.buffer_size
               /\ Writable(t.buf) = s.buf.buffer_size - Readable(s.buf)
<1> DEFINE t == [s EXCEPT !.buf = Compact(@)]
<1>1. /\ InOrder(s.buf, s.in, s.out) /\ s.ok \in BOOLEAN
      /\ s = [buf |-> s.buf, in |-> s.in, out |-> s.out, ok |-> s.ok]
  BY DEF Ordered
<1>2. t = [buf |-> Compact(s.buf), in |-> s.in, out |-> s.out, ok |-> s.ok]
  BY <1>1, Rebuffered
<1> HIDE DEF t
<1>3. QED
  BY <1>1, <1>2, CompactInOrder DEF Ordered, t

-----------------------------------------------------------------------------
(* A window that shrinks from its beginning, loses bytes that leave.       *)
LEMMA LeaveOrdered ==
    ASSUME NEW s, Ordered(s), NEW n \in Nat, n <= Readable(s.buf)
    PROVE  /\ Ordered(Leave(s, n)) /\ Leave(s, n).ok = s.ok
           /\ Readable(Leave(s, n).buf) = Readable(s.buf) - n
           /\ Leave(s, n).buf.buffer_size = s.buf.buffer_size
<1> DEFINE b == s.buf
           w == Window(b)
           front == SubSeq(w, 1, n)
           o == s.out \o front
           c == [b EXCEPT !.read_marker = @ + n]
<1>1. /\ Sound(b) /\ s.in \in Nat /\ s.out \in Seq(Nat) /\ Len(s.out) + Readable(b) = s.in
      /\ \A i \in 1..Len(s.out) : s.out[i] = Byte(i)
      /\ \A i \in b.read_marker..(b.write_marker - 1) :
            b.data[i] = Byte(Len(s.out) + i - b.read_marker + 1)
      /\ kind = "reader" => s.in <= FileSize
      /\ Len(s.out) \in Nat /\ s.ok \in BOOLEAN /\ cut \subseteq 1..s.in
  BY LenProperties DEF Ordered, InOrder
<1>2. /\ w \in Seq(Nat) /\ Len(w) = Readable(b) /\ Readable(b) \in Nat
      /\ \A i \in 1..Readable(b) : w[i] = b.data[b.read_marker + i - 1]
  BY <1>1, WindowIsSeq
<1> HIDE DEF w, c
<1>3. /\ front \in Seq(Nat) /\ Len(front) = n
      /\ \A i \in 1..n : front[i] = w[i]
  <2>1. \A i \in 1..n : w[i] \in Nat
    BY <1>2, ElementOfSeq
  <2>2. QED
    BY <1>2, <2>1, SubSeqProperties
<1> HIDE DEF front
<1>4. /\ o \in Seq(Nat) /\ Len(o) = Len(s.out) + n
      /\ \A i \in 1..Len(s.out) : o[i] = s.out[i]
      /\ \A i \in 1..(Len(s.out) + n) : i > Len(s.out) => o[i] = front[i - Len(s.out)]
  <2> DEFINE m == Len(s.out) + n
  <2>1. m = Len(s.out) + Len(front)
    BY <1>3
  <2> HIDE DEF m
  <2>2. /\ o \in Seq(Nat) /\ Len(o) = m
        /\ \A i \in 1..Len(s.out) : o[i] = s.out[i]
        /\ \A i \in 1..m : i > Len(s.out) => o[i] = front[i - Len(s.out)]
    BY <1>1, <1>3, <2>1, Joined
  <2>3. QED
    BY <2>2 DEF m
<1> HIDE DEF o
<1>5. ASSUME NEW i \in 1..Len(o) PROVE o[i] = Byte(i)
  <2>1. CASE i <= Len(s.out)
    <3>1. i \in 1..Len(s.out)
      BY <1>1, <2>1
    <3>2. QED
      BY <1>1, <1>4, <3>1
  <2>2. CASE i > Len(s.out)
    <3> DEFINE j == i - Len(s.out)
    <3>1. j \in 1..n /\ i = Len(s.out) + j /\ o[i] = front[j]
      BY <1>1, <1>4, <2>2
    <3> HIDE DEF j
    <3>2. j \in 1..Readable(b) /\ front[j] = b.data[b.read_marker + j - 1]
      BY <1>2, <1>3, <3>1
    <3>3. b.read_marker + j - 1 \in b.read_marker..(b.write_marker - 1)
      BY <1>1, <3>2, SMTT(30) DEF Sound, Readable
    <3>4. front[j] = Byte(Len(s.out) + (b.read_marker + j - 1) - b.read_marker + 1)
      BY <1>1, <3>2, <3>3
    <3>5. Len(s.out) + (b.read_marker + j - 1) - b.read_marker + 1 = i
      BY <1>1, <3>1, <3>2 DEF Sound
    <3>6. QED
      BY <3>1, <3>4, <3>5
  <2>3. QED
    BY <1>1, <1>4, <2>1, <2>2
<1>6. /\ c = [data |-> b.data, read_marker |-> b.read_marker + n,
              write_marker |-> b.write_marker, buffer_size |-> b.buffer_size]
      /\ c.data = b.data /\ c.read_marker = b.read_marker + n
      /\ c.write_marker = b.write_marker /\ c.buffer_size = b.buffer_size
  <2> USE DEF c
  <2> DEFINE d == [data |-> b.data, read_marker |-> b.read_marker,
                   write_marker |-> b.write_marker, buffer_size |-> b.buffer_size]
             e == [data |-> b.data, read_marker |-> b.read_marker + n,
                   write_marker |-> b.write_marker, buffer_size |-> b.buffer_size]
  <2>1. [d EXCEPT !.read_marker = d.read_marker + n] = e
    OBVIOUS
  <2>2. b = d
    BY <1>1 DEF Sound
  <2> HIDE DEF d
  <2>3. c = e
    BY <2>1, <2>2, Zenon
  <2> HIDE DEF c
  <2>4. QED
    BY <2>3
<1>7. Sound(c) /\ Readable(c) = Readable(b) - n
  BY <1>1, <1>6 DEF Sound, Readable
<1>8. Len(o) + Readable(c) = s.in
  BY <1>1, <1>2, <1>4, <1>7
<1>9. ASSUME NEW i \in c.read_marker..(c.write_marker - 1)
      PROVE  c.data[i] = Byte(Len(o) + i - c.read_marker + 1)
  <2>1. i \in b.read_marker..(b.write_marker - 1)
    BY <1>1, <1>6 DEF Sound
  <2>2. b.data[i] = Byte(Len(s.out) + i - b.read_marker + 1)
    BY <1>1, <2>1
  <2>3. Len(s.out) + i - b.read_marker + 1 = Len(o) + i - c.read_marker + 1
    BY <1>1, <1>4, <1>6, <2>1 DEF Sound
  <2>4. QED
    BY <1>6, <2>2, <2>3
<1>10. InOrder(c, s.in, o)
  BY <1>1, <1>4, <1>5, <1>7, <1>8, <1>9 DEF InOrder
<1>11. Leave(s, n) = [buf |-> c, in |-> s.in, out |-> o, ok |-> s.ok]
  BY DEF Leave, c, o, front, w
<1>12. QED
  BY <1>1, <1>6, <1>7, <1>10, <1>11 DEF Ordered

(* Bytes that enter do so behind the window.                               *)
LEMMA EnterOrdered ==
    ASSUME NEW s, Ordered(s), NEW n \in Nat, n <= Writable(s.buf),
           kind = "reader" => s.in + n <= FileSize
    PROVE  /\ Ordered(Enter(s, n)) /\ Enter(s, n).ok = s.ok
           /\ Enter(s, n).buf.write_marker = s.buf.write_marker + n
           /\ Enter(s, n).buf.buffer_size = s.buf.buffer_size
           /\ Readable(Enter(s, n).buf) = Readable(s.buf) + n
           /\ Enter(s, n).in = s.in + n
<1> DEFINE b == s.buf
           d == [i \in DOMAIN b.data |->
                    IF i \in b.write_marker..(b.write_marker + n - 1)
                    THEN s.in + i - b.write_marker + 1 ELSE b.data[i]]
           c == [data |-> d, read_marker |-> b.read_marker,
                 write_marker |-> b.write_marker + n, buffer_size |-> b.buffer_size]
<1>1. /\ Sound(b) /\ s.in \in Nat /\ s.out \in Seq(Nat) /\ Len(s.out) + Readable(b) = s.in
      /\ \A i \in 1..Len(s.out) : s.out[i] = Byte(i)
      /\ \A i \in b.read_marker..(b.write_marker - 1) :
            b.data[i] = Byte(Len(s.out) + i - b.read_marker + 1)
      /\ Len(s.out) \in Nat /\ s.ok \in BOOLEAN /\ cut \subseteq 1..s.in
      /\ DOMAIN b.data = 0..(b.buffer_size - 1)
  BY LenProperties DEF Ordered, InOrder, Sound
<1>2. b.write_marker + n <= b.buffer_size
  BY <1>1 DEF Sound, Writable
<1>3. ASSUME NEW i \in 0..(b.buffer_size - 1) PROVE d[i] \in Nat
  <2>1. CASE i \in b.write_marker..(b.write_marker + n - 1)
    <3>1. d[i] = s.in + i - b.write_marker + 1
      BY <1>1, <2>1
    <3> HIDE DEF d
    <3>2. QED
      BY <1>1, <2>1, <3>1 DEF Sound
  <2>2. CASE i \notin b.write_marker..(b.write_marker + n - 1)
    <3>1. d[i] = b.data[i]
      BY <1>1, <2>2
    <3> HIDE DEF d
    <3>2. QED
      BY <1>1, <3>1 DEF Sound
  <2>3. QED
    BY <2>1, <2>2
<1>4. d \in [0..(b.buffer_size - 1) -> Nat]
  BY <1>1, <1>3
<1>5. ASSUME NEW i \in b.read_marker..(b.write_marker + n - 1)
      PROVE  d[i] = Byte(Len(s.out) + i - b.read_marker + 1)
  <2>1. i \in DOMAIN b.data
    BY <1>1, <1>2 DEF Sound
  <2>2. CASE i < b.write_marker
    <3>1. d[i] = b.data[i] /\ i \in b.read_marker..(b.write_marker - 1)
      BY <1>1, <2>1, <2>2 DEF Sound
    <3> HIDE DEF d
    <3>2. QED
      BY <1>1, <3>1
  <2>3. CASE i >= b.write_marker
    <3>1. d[i] = s.in + i - b.write_marker + 1
      BY <1>1, <2>1, <2>3 DEF Sound
    <3> HIDE DEF d
    <3>2. /\ b.write_marker \in Nat /\ b.read_marker \in Nat
          /\ s.in = Len(s.out) + (b.write_marker - b.read_marker)
      BY <1>1 DEF Sound, Readable
    <3>3. s.in + i - b.write_marker + 1 = Len(s.out) + i - b.read_marker + 1
      <4>1. PICK m, r, w, k : m = s.in /\ r = b.read_marker /\ w = b.write_marker /\ k = Len(s.out)
        OBVIOUS
      <4>2. m \in Int /\ r \in Int /\ w \in Int /\ k \in Int /\ i \in Int /\ m = k + (w - r)
        BY <1>1, <3>2, <4>1
      <4>3. m + i - w + 1 = k + i - r + 1
        BY <4>2
      <4>4. QED
        BY <4>1, <4>3
    <3>4. s.in + i - b.write_marker + 1 \notin 1..s.in
      BY <1>1, <2>3, <3>2
    <3>5. QED
      BY <1>1, <3>1, <3>3, <3>4 DEF Byte
  <2>4. QED
    BY <1>1, <2>2, <2>3 DEF Sound
<1> HIDE DEF d
<1>6. /\ c.data = d /\ c.read_marker = b.read_marker
      /\ c.write_marker = b.write_marker + n /\ c.buffer_size = b.buffer_size
  OBVIOUS
<1>7. Sound(c)
  BY <1>1, <1>2, <1>4 DEF Sound
<1>8. Readable(c) = Readable(b) + n
  BY <1>1, <1>6 DEF Readable, Sound
<1>9. Len(s.out) + Readable(c) = s.in + n
  BY <1>1, <1>8 DEF Readable, Sound
<1>10. InOrder(c, s.in + n, s.out)
  <2> HIDE DEF c
  <2>1. ASSUME NEW i \in c.read_marker..(c.write_marker - 1)
        PROVE  c.data[i] = Byte(Len(s.out) + i - c.read_marker + 1)
    <3>1. i \in b.read_marker..(b.write_marker + n - 1)
      BY <1>1, <1>6 DEF Sound
    <3>2. QED
      BY <1>5, <1>6, <3>1
  <2>2. cut \subseteq 1..(s.in + n) /\ s.in + n \in Nat
    BY <1>1
  <2>3. QED
    BY <1>1, <1>7, <1>9, <2>1, <2>2 DEF InOrder
<1>11. Enter(s, n) = [buf |-> c, in |-> s.in + n, out |-> s.out, ok |-> s.ok]
  BY DEF Enter, d
<1>12. QED
  BY <1>1, <1>6, <1>8, <1>10, <1>11 DEF Ordered

(* More data behind the window. *)
LEMMA GrownOrdered ==
    ASSUME NEW s, Ordered(s), NEW n \in Nat, n >= s.buf.buffer_size
    PROVE  LET t == [s EXCEPT !.buf = Grown(@, n)]
           IN  Ordered(t) /\ Writable(t.buf) = n - s.buf.write_marker
<1> DEFINE b == s.buf
           d == [i \in 0..(n - 1) |-> IF i < b.buffer_size THEN b.data[i] ELSE 0]
           c == [data |-> d, read_marker |-> b.read_marker,
                 write_marker |-> b.write_marker, buffer_size |-> n]
           t == [s EXCEPT !.buf = Grown(b, n)]
<1>1. /\ Sound(b) /\ s.in \in Nat /\ s.out \in Seq(Nat) /\ Len(s.out) + Readable(b) = s.in
      /\ \A i \in 1..Len(s.out) : s.out[i] = Byte(i)
      /\ \A i \in b.read_marker..(b.write_marker - 1) :
            b.data[i] = Byte(Len(s.out) + i - b.read_marker + 1)
      /\ Len(s.out) \in Nat /\ s.ok \in BOOLEAN
      /\ kind = "reader" => s.in <= FileSize
      /\ cut \subseteq 1..s.in
      /\ DOMAIN b.data = 0..(b.buffer_size - 1)
  BY LenProperties DEF Ordered, InOrder, Sound
<1>2. ASSUME NEW i \in 0..(n - 1) PROVE d[i] \in Nat
  <2>1. CASE i < b.buffer_size
    <3>1. d[i] = b.data[i] /\ i \in 0..(b.buffer_size - 1)
      BY <1>1, <2>1 DEF Sound
    <3> HIDE DEF d
    <3>2. QED
      BY <1>1, <3>1 DEF Sound
  <2>2. CASE ~(i < b.buffer_size)
    BY <2>2
  <2>3. QED
    BY <2>1, <2>2
<1>3. d \in [0..(n - 1) -> Nat]
  BY <1>2
<1>4. ASSUME NEW i \in b.read_marker..(b.write_marker - 1)
      PROVE  d[i] = Byte(Len(s.out) + i - b.read_marker + 1)
  <2>1. i \in 0..(n - 1) /\ i < b.buffer_size
    BY <1>1 DEF Sound
  <2>2. d[i] = b.data[i]
    BY <2>1
  <2> HIDE DEF d
  <2>3. QED
    BY <1>1, <2>2
<1> HIDE DEF d
<1>5. /\ c.data = d /\ c.read_marker = b.read_marker
      /\ c.write_marker = b.write_marker /\ c.buffer_size = n
  OBVIOUS
<1>6. Sound(c) /\ Readable(c) = Readable(b) /\ Writable(c) = n - b.write_marker
  BY <1>1, <1>3 DEF Sound, Readable, Writable
<1>7. Grown(b, n) = c
  BY DEF Grown, d
<1> HIDE DEF c
<1>8. InOrder(c, s.in, s.out)
  BY <1>1, <1>4, <1>5, <1>6 DEF InOrder
<1>9. t = [buf |-> c, in |-> s.in, out |-> s.out, ok |-> s.ok]
  BY <1>7, Rebuffered DEF Ordered
<1> HIDE DEF t
<1>10. QED
  BY <1>1, <1>6, <1>8, <1>9 DEF Ordered, t

-----------------------------------------------------------------------------
(* A system call moves no more than it could.                              *)
LEMMA TransfersFit == ASSUME NEW m \in Nat, NEW n \in Transfers(m) PROVE n \in Nat /\ n <= m
  BY DEF Transfers

(* A reader takes from its file what there is and what there is room for.  *)
LEMMA ReaderSyncOrdered ==
    ASSUME NEW s, Ordered(s), kind = "reader", NEW t \in ReaderSync(s)
    PROVE  Ordered(t)
<1>1. CASE t \in Faults(s)
  BY <1>1, RefuseOrdered DEF Faults
<1>2. CASE \E n \in Transfers(SmallerOf(Writable(s.buf), FileSize - s.in)) : t = Enter(s, n)
  <2> DEFINE m == SmallerOf(Writable(s.buf), FileSize - s.in)
  <2>1. Writable(s.buf) \in Nat /\ FileSize - s.in \in Nat
    BY SizesAssumption DEF Ordered, InOrder, Sound, Writable
  <2>2. m \in Nat /\ m <= Writable(s.buf) /\ m <= FileSize - s.in
    BY <2>1 DEF SmallerOf
  <2>3. PICK n \in Transfers(m) : t = Enter(s, n)
    BY <1>2
  <2> HIDE DEF m
  <2>4. n \in Nat /\ n <= m
    BY <2>2, <2>3, TransfersFit
  <2>5. n <= Writable(s.buf) /\ s.in + n <= FileSize
    BY <2>1, <2>2, <2>4, SizesAssumption DEF Ordered, InOrder
  <2>6. QED
    BY <2>3, <2>4, <2>5, EnterOrdered
<1>3. QED
  BY <1>1, <1>2 DEF ReaderSync

(* A writer sends what it has.                                             *)
LEMMA WriterSyncOrdered ==
    ASSUME NEW s, Ordered(s), NEW t \in WriterSync(s) PROVE Ordered(t)
<1>1. CASE t \in Faults(s)
  BY <1>1, RefuseOrdered DEF Faults
<1>2. CASE \E n \in Transfers(Readable(s.buf)) : t = Leave(s, n)
  <2>1. Readable(s.buf) \in Nat
    BY DEF Ordered, InOrder, Sound, Readable
  <2>2. PICK n \in Transfers(Readable(s.buf)) : t = Leave(s, n)
    BY <1>2
  <2>3. n \in Nat /\ n <= Readable(s.buf)
    BY <2>1, <2>2, TransfersFit
  <2>4. QED
    BY <2>2, <2>3, LeaveOrdered
<1>3. QED
  BY <1>1, <1>2 DEF WriterSync

-----------------------------------------------------------------------------
(* A check that lets a call read has the bytes.                            *)
LEMMA ReadCheckOrdered ==
    ASSUME NEW s, Ordered(s), NEW len \in Nat, kind \in KindNames, NEW t \in ReadCheck(s, len)
    PROVE  Ordered(t) /\ (t.ok => len <= Readable(t.buf))
<1>1. CASE kind \in {"fixed", "memory", "resizable"}
  <2>1. t = Require(s, Readable(s.buf) >= len)
    BY <1>1 DEF ReadCheck
  <2>2. (Readable(s.buf) >= len) \in BOOLEAN
    OBVIOUS
  <2>3. Ordered(t) /\ (t.ok => Readable(s.buf) >= len /\ t = s)
    BY <2>1, <2>2, RequireOrdered
  <2>4. Readable(s.buf) \in Nat
    BY DEF Ordered, InOrder, Sound, Readable
  <2>5. QED
    BY <2>3, <2>4
<1>2. CASE kind = "reader"
  <2>1. Readable(s.buf) \in Nat
    BY DEF Ordered, InOrder, Sound, Readable
  <2>2. t \in ReaderCheck(s, len)
    BY <1>2 DEF ReadCheck
  <2>3. CASE Readable(s.buf) >= len
    BY <2>1, <2>2, <2>3 DEF ReaderCheck
  <2>4. CASE ~(Readable(s.buf) >= len)
    <3> DEFINE c == [s EXCEPT !.buf = Compact(@)]
    <3>1. PICK r \in ReaderSync(c) : t = Require(r, r.ok /\ Readable(r.buf) >= len)
      BY <2>2, <2>4 DEF ReaderCheck
    <3>2. Ordered(c)
      BY CompactOrdered
    <3> HIDE DEF c
    <3>3. Ordered(r)
      BY <1>2, <3>1, <3>2, ReaderSyncOrdered
    <3>4. Readable(r.buf) \in Nat /\ r.ok \in BOOLEAN
      <4>1. Sound(r.buf) /\ r.ok \in BOOLEAN
        BY <3>3 DEF Ordered, InOrder
      <4>2. QED
        BY <4>1 DEF Sound, Readable
    <3>5. (r.ok /\ Readable(r.buf) >= len) \in BOOLEAN
      OBVIOUS
    <3>6. Ordered(t) /\ (t.ok => (r.ok /\ Readable(r.buf) >= len) /\ t = r)
      BY <3>1, <3>3, <3>5, RequireOrdered
    <3>7. QED
      BY <3>4, <3>6
  <2>5. QED
    BY <2>3, <2>4
<1>3. CASE kind = "writer"
  <2>1. t = Refuse(s)
    BY <1>3 DEF ReadCheck
  <2>2. QED
    BY <2>1, RefuseOrdered
<1>4. QED
  BY <1>1, <1>2, <1>3 DEF KindNames

(* A check that lets a call write has the room.                            *)
LEMMA WriteCheckOrdered ==
    ASSUME NEW s, Ordered(s), NEW len \in Nat, kind \in KindNames, Growing,
           NEW t \in WriteCheck(s, len)
    PROVE  Ordered(t) /\ (t.ok => len <= Writable(t.buf) /\ kind # "reader")
<1>1. /\ Writable(s.buf) \in Nat /\ s.buf.write_marker \in Nat /\ s.buf.buffer_size \in Nat
      /\ Writable(s.buf) = s.buf.buffer_size - s.buf.write_marker
  BY DEF Ordered, InOrder, Sound, Writable
<1>2. CASE kind \in {"fixed", "memory"}
  <2>1. t = Require(s, Writable(s.buf) >= len)
    BY <1>2 DEF WriteCheck
  <2>2. (Writable(s.buf) >= len) \in BOOLEAN
    OBVIOUS
  <2>3. Ordered(t) /\ (t.ok => Writable(s.buf) >= len /\ t = s)
    BY <2>1, <2>2, RequireOrdered
  <2>4. QED
    BY <1>1, <1>2, <2>3
<1>3. CASE kind = "resizable"
  <2>1. t \in ResizableCheck(s, len)
    BY <1>3 DEF WriteCheck
  <2>2. CASE Writable(s.buf) >= len
    BY <1>1, <1>3, <2>1, <2>2 DEF ResizableCheck
  <2>3. CASE ~(Writable(s.buf) >= len)
    <3> DEFINE p == PowerOfTwo(s.buf.write_marker + len)
               u == [s EXCEPT !.buf = Grown(@, p)]
    <3>1. t = u
      BY <2>1, <2>3 DEF ResizableCheck
    <3>2. s.buf.write_marker + len \in Nat \ {0}
      BY <1>1, <2>3
    <3>3. p \in Nat /\ p >= s.buf.write_marker + len
      BY <3>2 DEF Growing, Grows
    <3> HIDE DEF p
    <3>4. p >= s.buf.buffer_size
      BY <1>1, <2>3, <3>3
    <3>5. Ordered(u) /\ Writable(u.buf) = p - s.buf.write_marker
      BY <3>3, <3>4, GrownOrdered
    <3> HIDE DEF u
    <3>6. QED
      BY <1>1, <1>3, <3>1, <3>3, <3>5
  <2>4. QED
    BY <2>2, <2>3
<1>4. CASE kind = "reader"
  <2>1. t = Refuse(s)
    BY <1>4 DEF WriteCheck
  <2>2. QED
    BY <2>1, RefuseOrdered
<1>5. CASE kind = "writer"
  <2>1. t \in WriterCheck(s, len)
    BY <1>5 DEF WriteCheck
  <2>2. CASE Writable(s.buf) >= len
    BY <1>1, <1>5, <2>1, <2>2 DEF WriterCheck
  <2>3. CASE ~(Writable(s.buf) >= len)
    <3>1. PICK r \in WriterSync(s) :
             t = IF r.ok THEN Require([r EXCEPT !.buf = Compact(@)],
                                      Writable(Compact(r.buf)) >= len)
                         ELSE r
      BY <2>1, <2>3 DEF WriterCheck
    <3>2. Ordered(r)
      BY <3>1, WriterSyncOrdered
    <3> DEFINE c == [r EXCEPT !.buf = Compact(@)]
    <3>3. Ordered(c) /\ c.buf = Compact(r.buf)
      BY <3>2, CompactOrdered
    <3> HIDE DEF c
    <3>4. Writable(c.buf) \in Nat
      BY <3>3 DEF Ordered, InOrder, Sound, Writable
    <3>5. CASE r.ok
      <4>1. t = Require(c, Writable(c.buf) >= len)
        BY <3>1, <3>3, <3>5 DEF c
      <4>2. (Writable(c.buf) >= len) \in BOOLEAN
        OBVIOUS
      <4>3. Ordered(t) /\ (t.ok => Writable(c.buf) >= len /\ t = c)
        BY <3>3, <4>1, <4>2, RequireOrdered
      <4>4. QED
        BY <1>5, <3>4, <4>3
    <3>6. CASE ~r.ok
      BY <3>1, <3>2, <3>6
    <3>7. QED
      BY <3>5, <3>6
  <2>4. QED
    BY <2>2, <2>3
<1>6. QED
  BY <1>2, <1>3, <1>4, <1>5 DEF KindNames

-----------------------------------------------------------------------------
(* The calls *)

(* A call begins with the buffer as it is ...                              *)
LEMMA NowOrdered == QueueInv => Ordered(Now)
  BY DEF QueueInv, Now, Ordered

(* ... and ends with the buffer as it then is.                             *)
LEMMA Returned ==
    ASSUME NEW s, Ordered(s), kind \in KindNames,
           buf' = s.buf, in' = s.in, out' = s.out, kind' = kind, cut' = cut
    PROVE  QueueInv'
  BY DEF Ordered, QueueInv, InOrder, Sound, Readable, Byte

(* A text has entered with the NUL behind it or, if it just fills the       *)
(* buffer, in the place of its last byte.                                  *)
LEMMA FormatReturned ==
    ASSUME NEW s, Ordered(s), s.ok, kind \in KindNames, kind # "reader",
           NEW n \in Nat, n <= Writable(s.buf), 0 < Writable(s.buf),
           buf' = FormatInto(s, n).buf, in' = FormatInto(s, n).in,
           out' = FormatInto(s, n).out, kind' = kind, cut' = cut \union CutBy(s, n)
    PROVE  QueueInv'
<1> DEFINE t == Enter(s, n)
           b == t.buf
           end == SmallerOf(b.write_marker, b.buffer_size - 1)
           d == [b.data EXCEPT ![end] = 0]
           c == [b EXCEPT !.data = d]
           full == b.write_marker = b.buffer_size
<1>1. /\ Ordered(t) /\ t.in = s.in + n /\ Readable(b) = Readable(s.buf) + n
      /\ b.write_marker = s.buf.write_marker + n /\ b.buffer_size = s.buf.buffer_size
  BY EnterOrdered
<1>2. /\ b.write_marker \in Nat /\ b.buffer_size \in Nat /\ b.read_marker \in Nat
      /\ 0 < b.buffer_size /\ b.write_marker <= b.buffer_size
      /\ full <=> n = Writable(s.buf)
      /\ full => Readable(b) > 0
      /\ Readable(b) = b.write_marker - b.read_marker /\ Readable(b) \in Nat
  <2>1. /\ s.buf.write_marker \in Nat /\ s.buf.buffer_size \in Nat
        /\ Readable(s.buf) \in Nat
        /\ Writable(s.buf) = s.buf.buffer_size - s.buf.write_marker
    BY DEF Ordered, InOrder, Sound, Readable, Writable
  <2>2. /\ b.write_marker \in Nat /\ b.buffer_size \in Nat /\ b.read_marker \in Nat
        /\ Readable(b) = b.write_marker - b.read_marker /\ Readable(b) \in Nat
    <3>1. Sound(b)
      BY <1>1 DEF Ordered, InOrder
    <3> HIDE DEF b
    <3>2. QED
      BY <3>1 DEF Sound, Readable
  <2> HIDE DEF b
  <2>3. QED
    BY <1>1, <2>1, <2>2
<1>3. /\ full => end = b.write_marker - 1
      /\ ~full => end = b.write_marker
      /\ end \in 0..(b.buffer_size - 1)
  BY <1>2 DEF SmallerOf
<1>4. CutBy(s, n) = IF full THEN {t.in} ELSE {}
  BY <1>1, <1>2 DEF CutBy
<1> HIDE DEF end, t, full
<1>5. /\ Sound(b) /\ t.in \in Nat /\ t.out \in Seq(Nat) /\ Len(t.out) + Readable(b) = t.in
      /\ \A i \in 1..Len(t.out) : t.out[i] = Byte(i)
      /\ \A i \in b.read_marker..(b.write_marker - 1) :
            b.data[i] = Byte(Len(t.out) + i - b.read_marker + 1)
      /\ cut \subseteq 1..t.in /\ Len(t.out) \in Nat
      /\ t = [buf |-> t.buf, in |-> t.in, out |-> t.out, ok |-> t.ok]
  BY <1>1, LenProperties DEF Ordered, InOrder
<1>6. b.data \in [0..(b.buffer_size - 1) -> Nat]
  BY <1>5 DEF Sound
<1>7. /\ d \in [0..(b.buffer_size - 1) -> Nat] /\ d[end] = 0
      /\ \A i \in 0..(b.buffer_size - 1) : i # end => d[i] = b.data[i]
  BY <1>3, <1>6
<1> HIDE DEF d
<1>8. c = [data |-> d, read_marker |-> b.read_marker, write_marker |-> b.write_marker,
           buffer_size |-> b.buffer_size]
  <2> DEFINE e == [data |-> b.data, read_marker |-> b.read_marker,
                   write_marker |-> b.write_marker, buffer_size |-> b.buffer_size]
  <2>1. [e EXCEPT !.data = d] = [data |-> d, read_marker |-> b.read_marker,
                   write_marker |-> b.write_marker, buffer_size |-> b.buffer_size]
    OBVIOUS
  <2>2. b = e
    BY <1>5 DEF Sound
  <2> HIDE DEF e
  <2>3. QED
    BY <2>1, <2>2, Zenon
<1> HIDE DEF c
<1>9. /\ c.data = d /\ c.read_marker = b.read_marker
      /\ c.write_marker = b.write_marker /\ c.buffer_size = b.buffer_size
  BY <1>8
<1>10. Sound(c) /\ Readable(c) = Readable(b)
  BY <1>5, <1>7, <1>8, <1>9 DEF Sound, Readable
<1>11. ASSUME NEW i \in c.read_marker..(c.write_marker - 1)
       PROVE  c.data[i] = Byte(Len(t.out) + i - c.read_marker + 1)'
  <2> DEFINE k == Len(t.out) + i - b.read_marker + 1
  <2>1. /\ i \in b.read_marker..(b.write_marker - 1) /\ i \in 0..(b.buffer_size - 1)
        /\ b.data[i] = Byte(k)
    <3>1. i \in b.read_marker..(b.write_marker - 1)
      BY <1>9
    <3>2. b.data[i] = Byte(k)
      BY <1>5, <3>1
    <3>3. /\ b.read_marker \in Nat /\ b.write_marker \in Nat /\ b.buffer_size \in Nat
          /\ b.write_marker <= b.buffer_size
      BY <1>5 DEF Sound
    <3>4. QED
      BY <3>1, <3>2, <3>3
  <2>2. k = t.in <=> i = b.write_marker - 1
    <3>1. PICK m, r, w, l : m = t.in /\ r = b.read_marker /\ w = b.write_marker /\ l = Len(t.out)
      OBVIOUS
    <3>2. m \in Int /\ r \in Int /\ w \in Int /\ l \in Int /\ i \in Int /\ m = l + (w - r)
      BY <1>2, <1>5, <2>1, <3>1
    <3>3. l + i - r + 1 = m <=> i = w - 1
      BY <3>2
    <3>4. QED
      BY <3>1, <3>3
  <2>3. CASE full /\ i = b.write_marker - 1
    BY <1>3, <1>4, <1>7, <1>9, <2>1, <2>2, <2>3 DEF Byte
  <2>4. CASE ~(full /\ i = b.write_marker - 1)
    <3>1. i # end /\ k \notin CutBy(s, n)
      BY <1>2, <1>3, <1>4, <2>1, <2>2, <2>4
    <3>2. c.data[i] = Byte(k)
      BY <1>7, <1>9, <2>1, <3>1
    <3>3. QED
      BY <1>9, <3>1, <3>2 DEF Byte
  <2>5. QED
    BY <2>3, <2>4
<1>12. ASSUME NEW i \in 1..Len(t.out) PROVE t.out[i] = Byte(i)'
  <2>1. i \notin CutBy(s, n)
    BY <1>2, <1>4, <1>5
  <2>2. QED
    BY <1>5, <2>1 DEF Byte
<1>13. cut' \subseteq 1..t.in
  BY <1>2, <1>4, <1>5
<1>14. buf' = c /\ in' = t.in /\ out' = t.out
  <2>1. FormatInto(s, n) = [t EXCEPT !.buf = c]
    BY DEF FormatInto, c, d, end, t
  <2>2. [t EXCEPT !.buf = c] = [buf |-> c, in |-> t.in, out |-> t.out, ok |-> t.ok]
    BY <1>5, Rebuffered
  <2>3. QED
    BY <2>1, <2>2
<1>15. QED
  BY <1>5, <1>10, <1>11, <1>12, <1>13, <1>14 DEF QueueInv, InOrder, Sound, Readable

LEMMA QueueInit == Init => QueueInv
<1> SUFFICES ASSUME Init PROVE QueueInv
  OBVIOUS
<1> DEFINE d == [i \in 0..(Size - 1) |-> IF i < in THEN i + 1 ELSE 0]
<1>1. /\ Size \in Nat /\ FileSize \in Nat /\ in \in {0, Size} /\ out = <<>> /\ cut = {}
      /\ kind \in KindNames /\ (kind = "reader" => in = 0)
  BY SizesAssumption, KindsAssumption DEF Init
<1>2. buf = [data |-> d, read_marker |-> 0, write_marker |-> in, buffer_size |-> Size]
  BY DEF Init, NewBuf
<1>3. d \in [0..(Size - 1) -> Nat] /\ \A i \in 0..(in - 1) : d[i] = i + 1
  BY <1>1
<1> HIDE DEF d
<1>4. /\ buf.data = d /\ buf.read_marker = 0 /\ buf.write_marker = in
      /\ buf.buffer_size = Size
  BY <1>2
<1>5. Sound(buf) /\ Readable(buf) = in
  BY <1>1, <1>2, <1>3, <1>4 DEF Sound, Readable
<1>6. out \in Seq(Nat) /\ Len(out) = 0
  BY <1>1, EmptySeq
<1>7. QED
  BY <1>1, <1>3, <1>4, <1>5, <1>6 DEF QueueInv, InOrder, Byte

LEMMA ReadKeeps == ASSUME QueueInv, NEW len \in Nat, Read(len) PROVE QueueInv'
<1>1. kind \in KindNames /\ Ordered(Now)
  BY NowOrdered DEF QueueInv
<1>2. PICK s \in ReadCheck(Now, len) : Return("read", len, IF s.ok THEN Leave(s, len) ELSE s)
  BY DEF Read
<1>3. Ordered(s) /\ (s.ok => len <= Readable(s.buf))
  BY <1>1, <1>2, ReadCheckOrdered
<1> DEFINE t == IF s.ok THEN Leave(s, len) ELSE s
<1>4. Ordered(t)
  BY <1>3, LeaveOrdered
<1>5. buf' = t.buf /\ in' = t.in /\ out' = t.out /\ kind' = kind /\ cut' = cut
  BY <1>2 DEF Return, Read
<1> HIDE DEF t
<1>6. QED
  BY <1>1, <1>4, <1>5, Returned

LEMMA WriteKeeps == ASSUME QueueInv, Growing, NEW len \in Nat, Write(len) PROVE QueueInv'
<1>1. kind \in KindNames /\ Ordered(Now)
  BY NowOrdered DEF QueueInv
<1>2. PICK s \in WriteCheck(Now, len) : Return("write", len, IF s.ok THEN Enter(s, len) ELSE s)
  BY DEF Write
<1>3. Ordered(s) /\ (s.ok => len <= Writable(s.buf) /\ kind # "reader")
  BY <1>1, <1>2, WriteCheckOrdered
<1> DEFINE t == IF s.ok THEN Enter(s, len) ELSE s
<1>4. Ordered(t)
  BY <1>3, EnterOrdered
<1>5. buf' = t.buf /\ in' = t.in /\ out' = t.out /\ kind' = kind /\ cut' = cut
  BY <1>2 DEF Return, Write
<1> HIDE DEF t
<1>6. QED
  BY <1>1, <1>4, <1>5, Returned

(* The room that is there when the text is formatted in the end is that of *)
(* one of the two checks.                                                  *)
LEMMA FormatRoom ==
    ASSUME Growing, kind \in KindNames, Ordered(Now), NEW flen \in Nat \ {0}, NEW len \in Nat,
           NEW s \in WriteCheck(Now, 2 * flen),
           NEW t \in IF s.ok /\ len > Writable(s.buf) THEN WriteCheck(s, len) ELSE {s}
    PROVE  /\ Ordered(t)
           /\ t.ok => len <= Writable(t.buf) /\ 0 < Writable(t.buf) /\ kind # "reader"
<1>1. Ordered(s) /\ (s.ok => 2 * flen <= Writable(s.buf) /\ kind # "reader")
  <2>1. 2 * flen \in Nat
    OBVIOUS
  <2>2. QED
    BY <2>1, WriteCheckOrdered
<1>2. Writable(s.buf) \in Int
  BY <1>1 DEF Ordered, InOrder, Sound, Writable
<1>3. CASE s.ok /\ len > Writable(s.buf)
  <2>1. Ordered(t) /\ (t.ok => len <= Writable(t.buf) /\ kind # "reader")
    BY <1>1, <1>3, WriteCheckOrdered
  <2>2. Writable(t.buf) \in Int
    BY <2>1 DEF Ordered, InOrder, Sound, Writable
  <2>3. QED
    BY <1>1, <1>2, <1>3, <2>1, <2>2
<1>4. CASE ~(s.ok /\ len > Writable(s.buf))
  BY <1>1, <1>2, <1>4
<1>5. QED
  BY <1>3, <1>4

LEMMA WriteFormatKeeps ==
    ASSUME QueueInv, Growing, NEW f \in Formats, WriteFormat(f[1], f[2]) PROVE QueueInv'
<1> DEFINE flen == f[1]
           len == f[2]
<1>1. kind \in KindNames /\ Ordered(Now)
  BY NowOrdered DEF QueueInv
<1>2. flen \in Nat \ {0} /\ len \in Nat
  BY LensAssumption
<1>3. PICK s \in WriteCheck(Now, 2 * flen) :
         \E t \in IF s.ok /\ len > Writable(s.buf) THEN WriteCheck(s, len) ELSE {s} :
            /\ Return("format", len, IF t.ok THEN FormatInto(t, len) ELSE t)
            /\ cut' = cut \union CutBy(t, len)
  BY DEF WriteFormat
<1>4. PICK t \in IF s.ok /\ len > Writable(s.buf) THEN WriteCheck(s, len) ELSE {s} :
            /\ Return("format", len, IF t.ok THEN FormatInto(t, len) ELSE t)
            /\ cut' = cut \union CutBy(t, len)
  BY <1>3
<1> HIDE DEF flen, len
<1>5. /\ Ordered(t)
      /\ t.ok => len <= Writable(t.buf) /\ 0 < Writable(t.buf) /\ kind # "reader"
  BY <1>1, <1>2, <1>3, <1>4, FormatRoom
<1>6. CASE t.ok
  <2>1. /\ buf' = FormatInto(t, len).buf /\ in' = FormatInto(t, len).in
        /\ out' = FormatInto(t, len).out /\ kind' = kind
    BY <1>4, <1>6 DEF Return
  <2>2. QED
    BY <1>1, <1>2, <1>4, <1>5, <1>6, <2>1, FormatReturned
<1>7. CASE ~t.ok
  <2>1. buf' = t.buf /\ in' = t.in /\ out' = t.out /\ kind' = kind
    BY <1>4, <1>7 DEF Return
  <2>2. cut' = cut
    BY <1>4, <1>7 DEF CutBy
  <2>3. QED
    BY <1>1, <1>5, <2>1, <2>2, Returned
<1>8. QED
  BY <1>6, <1>7

LEMMA ResetKeeps == ASSUME QueueInv, Reset PROVE QueueInv'
<1> DEFINE c == [data |-> buf.data, read_marker |-> 0, write_marker |-> 0,
                 buffer_size |-> buf.buffer_size]
<1>1. Sound(buf) /\ kind \in KindNames
  BY DEF QueueInv, InOrder
<1>2. buf' = c /\ in' = 0 /\ out' = <<>> /\ kind' = kind /\ cut' = {}
  BY DEF Reset
<1>3. /\ c.data = buf.data /\ c.read_marker = 0 /\ c.write_marker = 0
      /\ c.buffer_size = buf.buffer_size
  OBVIOUS
<1>4. Sound(c) /\ Readable(c) = 0
  BY <1>1 DEF Sound, Readable
<1>5. <<>> \in Seq(Nat) /\ Len(<<>>) = 0
  BY EmptySeq
<1> HIDE DEF c
<1>6. QED
  BY <1>1, <1>2, <1>3, <1>4, <1>5, SizesAssumption
     DEF QueueInv, InOrder, Sound, Readable, Byte

LEMMA DestroyKeeps == ASSUME QueueInv, Destroy PROVE QueueInv'
<1>1. kind \in KindNames /\ Ordered(Now)
  BY NowOrdered DEF QueueInv
<1>2. PICK s \in CASE kind = "writer" /\ Readable(buf) > 0 -> WriterSync(Now)
                   [] kind = "reader" /\ Readable(buf) > 0 -> ReaderSync(Now)
                   [] OTHER -> {Now} :
         buf' = s.buf /\ in' = s.in /\ out' = s.out
  BY DEF Destroy
<1>3. Ordered(s)
  <2>1. CASE kind = "writer" /\ Readable(buf) > 0
    BY <1>1, <1>2, <2>1, WriterSyncOrdered
  <2>2. CASE kind = "reader" /\ Readable(buf) > 0
    BY <1>1, <1>2, <2>2, ReaderSyncOrdered
  <2>3. CASE /\ ~(kind = "writer" /\ Readable(buf) > 0)
             /\ ~(kind = "reader" /\ Readable(buf) > 0)
    <3>1. s = Now
      BY <1>2, <2>3
    <3>2. QED
      BY <1>1, <3>1
  <2>4. QED
    BY <2>1, <2>2, <2>3
<1>4. kind' = kind /\ cut' = cut
  BY DEF Destroy
<1>5. QED
  BY <1>1, <1>2, <1>3, <1>4, Returned

(* A buffer is a queue: what has left it and what it holds are the bytes   *)
(* that entered, in order and each once, however mu_buf_*_check_capacity   *)
(* moved its data, made more of it, or refused, and whatever part of it    *)
(* read(2) and write(2) took.  Of a text that mu_buf_write_format has      *)
(* formatted, however long and after whichever of its checks, a byte is    *)
(* lost only if the text just filled the buffer, and then the last one.    *)
THEOREM QueueAlways == ASSUME Growing PROVE Spec => []Queue
<1>1. Init => QueueInv
  BY QueueInit
<1>2. QueueInv /\ [Next]_vars => QueueInv'
  <2> SUFFICES ASSUME QueueInv, [Next]_vars PROVE QueueInv'
    OBVIOUS
  <2>1. ASSUME NEW len \in Lens, Read(len) PROVE QueueInv'
    BY <2>1, LensAssumption, ReadKeeps
  <2>2. ASSUME NEW len \in Lens, Write(len) PROVE QueueInv'
    BY <2>2, LensAssumption, WriteKeeps
  <2>3. ASSUME NEW f \in Formats, WriteFormat(f[1], f[2]) PROVE QueueInv'
    BY <2>3, WriteFormatKeeps
  <2>4. CASE Reset
    BY <2>4, ResetKeeps
  <2>5. CASE Destroy
    BY <2>5, DestroyKeeps
  <2>6. CASE UNCHANGED vars
    BY <2>6 DEF vars, QueueInv, InOrder, Sound, Readable, Byte
  <2>7. QED
    BY <2>1, <2>2, <2>3, <2>4, <2>5, <2>6 DEF Next
<1>3. QueueInv => Queue
  BY QueueFollows
<1>4. QED
  BY <1>1, <1>2, <1>3, PTL DEF Spec
(* A text shorter than the room asked for at first does not fill it.       *)
LEMMA ShortTextWhole ==
    ASSUME QueueInv, Growing, NEW f \in Formats, f[2] < 2 * f[1], WriteFormat(f[1], f[2])
    PROVE  cut' = cut
<1> DEFINE flen == f[1]
           len == f[2]
<1>1. kind \in KindNames /\ Ordered(Now)
  BY NowOrdered DEF QueueInv
<1>2. flen \in Nat /\ len \in Nat /\ len < 2 * flen /\ 2 * flen \in Nat
  BY LensAssumption
<1>3. PICK s \in WriteCheck(Now, 2 * flen) :
         \E t \in IF s.ok /\ len > Writable(s.buf) THEN WriteCheck(s, len) ELSE {s} :
            cut' = cut \union CutBy(t, len)
  BY DEF WriteFormat
<1> HIDE DEF flen, len
<1>4. Ordered(s) /\ (s.ok => 2 * flen <= Writable(s.buf))
  BY <1>1, <1>2, <1>3, WriteCheckOrdered
<1>5. Writable(s.buf) \in Int
  BY <1>4 DEF Ordered, InOrder, Sound, Writable
<1>6. s.ok => len < Writable(s.buf)
  BY <1>2, <1>4, <1>5
<1>7. ~(s.ok /\ len > Writable(s.buf)) /\ CutBy(s, len) = {}
  BY <1>2, <1>5, <1>6 DEF CutBy
<1>8. QED
  BY <1>3, <1>7

(* So a buffer is a queue without exception if every formatted text is     *)
(* shorter than twice its format, the room that mu_buf_write_format makes  *)
(* first.  The formats of musvg.c have longer texts.                       *)
THEOREM ShortTextsWhole ==
    ASSUME Growing, \A f \in Formats : f[2] < 2 * f[1]
    PROVE  Spec => [](out \o Window(buf) = [i \in 1..in |-> i])
<1> DEFINE Inv == QueueInv /\ cut = {}
<1>1. Init => Inv
  BY QueueInit DEF Init
<1>2. Inv /\ [Next]_vars => Inv'
  <2> SUFFICES ASSUME Inv, [Next]_vars PROVE Inv'
    OBVIOUS
  <2>1. ASSUME NEW len \in Lens, Read(len) PROVE Inv'
    <3>1. cut' = cut
      BY <2>1 DEF Read
    <3>2. QED
      BY <2>1, <3>1, LensAssumption, ReadKeeps
  <2>2. ASSUME NEW len \in Lens, Write(len) PROVE Inv'
    <3>1. cut' = cut
      BY <2>2 DEF Write
    <3>2. QED
      BY <2>2, <3>1, LensAssumption, WriteKeeps
  <2>3. ASSUME NEW f \in Formats, WriteFormat(f[1], f[2]) PROVE Inv'
    BY <2>3, WriteFormatKeeps, ShortTextWhole
  <2>4. CASE Reset
    <3>1. cut' = {}
      BY <2>4 DEF Reset
    <3>2. QED
      BY <2>4, <3>1, ResetKeeps
  <2>5. CASE Destroy
    <3>1. cut' = cut
      BY <2>5 DEF Destroy
    <3>2. QED
      BY <2>5, <3>1, DestroyKeeps
  <2>6. CASE UNCHANGED vars
    BY <2>6 DEF vars, QueueInv, InOrder, Sound, Readable, Byte
  <2>7. QED
    BY <2>1, <2>2, <2>3, <2>4, <2>5, <2>6 DEF Next
<1>3. Inv => out \o Window(buf) = [i \in 1..in |-> i]
  BY QueueFollows DEF Queue
<1>4. QED
  BY <1>1, <1>2, <1>3, PTL DEF Spec
-----------------------------------------------------------------------------
(* What is refused *)

(* From a regular file, a reader gets all that it can take.                *)
LEMMA ReaderSyncRegular ==
    ASSUME NEW s, Ordered(s), file = "regular", NEW t \in ReaderSync(s)
    PROVE  t = Enter(s, SmallerOf(Writable(s.buf), FileSize - s.in))
<1>1. file # "failing"
  OBVIOUS
<1>2. QED
  BY <1>1 DEF ReaderSync, Faults, Transfers

LEMMA WriterSyncRegular ==
    ASSUME NEW s, Ordered(s), file = "regular", NEW t \in WriterSync(s)
    PROVE  Ordered(t) /\ t.ok = s.ok /\ Readable(t.buf) = 0 /\ t.buf.buffer_size = s.buf.buffer_size
<1>1. file # "failing"
  OBVIOUS
<1>2. t = Leave(s, Readable(s.buf))
  BY <1>1 DEF WriterSync, Faults, Transfers
<1>3. Readable(s.buf) \in Nat
  BY DEF Ordered, InOrder, Sound, Readable
<1>4. QED
  BY <1>2, <1>3, LeaveOrdered

(* A write check that refuses, with a file that takes what it is given.    *)
LEMMA WriteCheckRefused ==
    ASSUME NEW s, Ordered(s), s.ok, NEW len \in Nat, file = "regular",
           NEW t \in WriteCheck(s, len), ~t.ok
    PROVE  /\ kind \in {"fixed", "memory"} => Writable(t.buf) < len
           /\ kind = "writer" => len > t.buf.buffer_size
           /\ kind # "resizable"
<1>1. /\ Writable(s.buf) \in Nat /\ s.buf.buffer_size \in Nat
      /\ s = [buf |-> s.buf, in |-> s.in, out |-> s.out, ok |-> s.ok]
  BY DEF Ordered, InOrder, Sound, Writable
<1>2. ASSUME kind \in {"fixed", "memory"} PROVE Writable(t.buf) < len
  <2>1. t = Require(s, Writable(s.buf) >= len)
    BY <1>2 DEF WriteCheck
  <2>2. ~(Writable(s.buf) >= len) /\ t = Refuse(s)
    BY <2>1 DEF Require
  <2>3. t.buf = s.buf
    BY <2>2, RefuseOrdered, Zenon
  <2>4. QED
    BY <1>1, <2>2, <2>3
<1>3. ASSUME kind = "writer" PROVE len > t.buf.buffer_size
  <2>1. ~(Writable(s.buf) >= len)
    BY <1>3 DEF WriteCheck, WriterCheck
  <2>2. PICK r \in WriterSync(s) :
           t = IF r.ok THEN Require([r EXCEPT !.buf = Compact(@)],
                                    Writable(Compact(r.buf)) >= len)
                       ELSE r
    BY <1>3, <2>1 DEF WriteCheck, WriterCheck
  <2>3. Ordered(r) /\ r.ok /\ Readable(r.buf) = 0 /\ r.buf.buffer_size = s.buf.buffer_size
    BY WriterSyncRegular
  <2> DEFINE c == [r EXCEPT !.buf = Compact(@)]
  <2>4. /\ Ordered(c) /\ c.ok = r.ok /\ c.buf = Compact(r.buf)
        /\ c.buf.buffer_size = s.buf.buffer_size
        /\ Writable(c.buf) = s.buf.buffer_size
    <3>1. /\ Ordered(c) /\ c.ok = r.ok /\ c.buf = Compact(r.buf)
          /\ c.buf.buffer_size = r.buf.buffer_size
          /\ Writable(c.buf) = r.buf.buffer_size - Readable(r.buf)
      BY <2>3, CompactOrdered
    <3> HIDE DEF c
    <3>2. QED
      BY <1>1, <2>3, <3>1
  <2>5. t = Require(c, Writable(c.buf) >= len)
    BY <2>2, <2>3, <2>4
  <2> HIDE DEF c
  <2>6. ~(Writable(c.buf) >= len) /\ t = Refuse(c)
    BY <2>3, <2>4, <2>5 DEF Require
  <2>7. t.buf = c.buf
    BY <2>4, <2>6, RefuseOrdered, Zenon
  <2>8. QED
    BY <1>1, <2>4, <2>6, <2>7
<1>4. ASSUME kind = "resizable" PROVE FALSE
  <2>1. t \in ResizableCheck(s, len)
    BY <1>4 DEF WriteCheck
  <2>2. \E b : t = [s EXCEPT !.buf = b]
    <3>1. CASE Writable(s.buf) >= len
      <4>1. t = s /\ [s EXCEPT !.buf = s.buf] = s
        BY <1>1, <2>1, <3>1, Rebuffered DEF ResizableCheck
      <4>2. QED
        BY <4>1
    <3>2. CASE ~(Writable(s.buf) >= len)
      BY <2>1, <3>2 DEF ResizableCheck
    <3>3. QED
      BY <3>1, <3>2
  <2>3. PICK b : t = [s EXCEPT !.buf = b]
    BY <2>2
  <2>4. t = [buf |-> b, in |-> s.in, out |-> s.out, ok |-> s.ok]
    BY <1>1, <2>3, Rebuffered
  <2>5. QED
    BY <2>4
<1>5. QED
  BY <1>2, <1>3, <1>4

(* A read check that refuses.                                              *)
LEMMA ReadCheckRefused ==
    ASSUME NEW s, Ordered(s), s.ok, NEW len \in Nat, kind \in KindNames, file \in FileNames,
           NEW t \in ReadCheck(s, len), ~t.ok
    PROVE  \/ kind = "writer" \/ file = "failing"
           \/ file = "pipe" /\ len > 1
           \/ len > t.buf.buffer_size
           \/ len > Readable(t.buf) + (IF kind = "reader" THEN FileSize - t.in ELSE 0)
<1>1. /\ Readable(s.buf) \in Nat /\ s.buf.buffer_size \in Nat /\ s.in \in Nat
      /\ FileSize \in Nat
  BY SizesAssumption DEF Ordered, InOrder, Sound, Readable
<1>2. CASE kind \in {"fixed", "memory", "resizable"}
  <2>1. t = Require(s, Readable(s.buf) >= len)
    BY <1>2 DEF ReadCheck
  <2>2. ~(Readable(s.buf) >= len) /\ t = Refuse(s)
    BY <2>1 DEF Require
  <2>3. t.buf = s.buf
    BY <2>2, RefuseOrdered, Zenon
  <2>4. QED
    BY <1>1, <1>2, <2>2, <2>3
<1>3. CASE kind = "reader" /\ file \in {"regular", "pipe"}
  <2>1. ~(Readable(s.buf) >= len)
    BY <1>3 DEF ReadCheck, ReaderCheck
  <2> DEFINE c == [s EXCEPT !.buf = Compact(@)]
             m == SmallerOf(Writable(c.buf), FileSize - c.in)
  <2>2. PICK r \in ReaderSync(c) : t = Require(r, r.ok /\ Readable(r.buf) >= len)
    BY <1>3, <2>1 DEF ReadCheck, ReaderCheck
  <2>3. /\ Ordered(c) /\ c.ok /\ c.in = s.in
        /\ Readable(c.buf) = Readable(s.buf) /\ c.buf.buffer_size = s.buf.buffer_size
        /\ Writable(c.buf) = s.buf.buffer_size - Readable(s.buf)
    BY CompactOrdered
  <2> HIDE DEF c
  <2>4. /\ Writable(c.buf) \in Nat /\ FileSize - c.in \in Nat
        /\ m \in Nat /\ m <= Writable(c.buf) /\ m <= FileSize - c.in
        /\ m = Writable(c.buf) \/ m = FileSize - c.in
    <3>1. Writable(c.buf) \in Nat /\ FileSize - c.in \in Nat
      BY <1>1, <1>3, <2>3 DEF Ordered, InOrder, Sound, Writable
    <3>2. QED
      BY <3>1 DEF SmallerOf
  <2>5. PICK n \in Transfers(m) : r = Enter(c, n)
    BY <1>3, <2>2 DEF ReaderSync, Faults
  <2>6. n \in Nat /\ n <= m /\ (file = "regular" => n = m) /\ (m > 0 => n > 0)
    <3> HIDE DEF m
    <3>1. n \in Nat /\ n <= m
      BY <2>4, <2>5, TransfersFit
    <3>2. QED
      BY <2>4, <2>5, <3>1 DEF Transfers
  <2> HIDE DEF m
  <2>7. /\ r.ok /\ Ordered(r) /\ Readable(r.buf) = Readable(s.buf) + n
        /\ r.buf.buffer_size = s.buf.buffer_size /\ r.in = s.in + n
    <3>1. n <= Writable(c.buf) /\ c.in + n <= FileSize
      BY <1>1, <2>3, <2>4, <2>6
    <3>2. QED
      BY <2>3, <2>5, <2>6, <3>1, EnterOrdered
  <2>8. ~(Readable(r.buf) >= len) /\ t = Refuse(r)
    BY <2>2, <2>7 DEF Require
  <2>9. /\ t.in = s.in + n /\ Readable(t.buf) = Readable(s.buf) + n
        /\ t.buf.buffer_size = s.buf.buffer_size /\ Readable(s.buf) + n < len
    <3>1. t.in = r.in /\ t.buf = r.buf
      BY <2>7, <2>8, RefuseOrdered, Zenon
    <3>2. QED
      BY <1>1, <2>6, <2>7, <2>8, <3>1
  <2>10. CASE file = "regular"
    BY <1>1, <1>3, <2>3, <2>4, <2>6, <2>9, <2>10
  <2>11. CASE file = "pipe" /\ len <= 1
    BY <1>1, <1>3, <2>3, <2>4, <2>6, <2>9, <2>11
  <2>12. QED
    BY <1>3, <2>10, <2>11
<1>4. QED
  BY <1>2, <1>3 DEF KindNames, FileNames

LEMMA FactsNow ==
    ASSUME QueueInv
    PROVE  Ordered(Now) /\ Now.ok /\ Now.buf = buf /\ Now.in = in /\ kind \in KindNames
  BY NowOrdered DEF QueueInv, Now

LEMMA WriteRefusals ==
    ASSUME QueueInv, NEW len \in Nat, Write(len) PROVE Refusals'
<1>1. PICK s \in WriteCheck(Now, len) : Return("write", len, IF s.ok THEN Enter(s, len) ELSE s)
  BY DEF Write
<1>2. last'.call = "write" /\ last'.len = len /\ kind' = kind /\ file' = file
  BY <1>1 DEF Return
<1>3. RefusedIfEnded'
  BY <1>2 DEF RefusedIfEnded
<1>4. ASSUME ~last'.ok, file' = "regular"
      PROVE  CASE kind' \in {"fixed", "memory"} -> Writable(buf)' < last'.len
               [] kind' = "writer" -> last'.len > buf'.buffer_size
               [] kind' = "resizable" -> FALSE
               [] kind' = "reader" -> TRUE
  <2>1. ~s.ok /\ buf' = s.buf
    <3>1. CASE s.ok
      <4>1. last'.ok = Enter(s, len).ok
        BY <1>1, <3>1 DEF Return
      <4>2. Enter(s, len).ok = s.ok
        BY DEF Enter
      <4>3. QED
        BY <1>4, <3>1, <4>1, <4>2
    <3>2. CASE ~s.ok
      BY <1>1, <3>2 DEF Return
    <3>3. QED
      BY <3>1, <3>2
  <2>2. /\ kind \in {"fixed", "memory"} => Writable(s.buf) < len
        /\ kind = "writer" => len > s.buf.buffer_size
        /\ kind # "resizable"
    BY <1>1, <1>2, <1>4, <2>1, FactsNow, WriteCheckRefused
  <2>3. Writable(buf)' = Writable(s.buf)
    BY <2>1 DEF Writable
  <2>4. kind \in KindNames
    BY FactsNow
  <2>5. CASE kind \in {"fixed", "memory"}
    BY <1>2, <2>2, <2>3, <2>5
  <2>6. CASE kind = "writer"
    BY <1>2, <2>1, <2>2, <2>6
  <2>7. CASE kind = "reader"
    BY <1>2, <2>7
  <2>8. QED
    BY <2>2, <2>4, <2>5, <2>6, <2>7 DEF KindNames
<1>5. RefusedIfFull'
  BY <1>4 DEF RefusedIfFull
<1>6. QED
  BY <1>3, <1>5 DEF Refusals

LEMMA ReadRefusals ==
    ASSUME QueueInv, file \in FileNames, NEW len \in Nat, Read(len) PROVE Refusals'
<1>1. PICK s \in ReadCheck(Now, len) : Return("read", len, IF s.ok THEN Leave(s, len) ELSE s)
  BY DEF Read
<1>2. last'.call = "read" /\ last'.len = len /\ kind' = kind /\ file' = file
  BY <1>1 DEF Return
<1>3. RefusedIfFull'
  BY <1>2 DEF RefusedIfFull
<1>4. ASSUME ~last'.ok
      PROVE  \/ kind' = "writer" \/ file' = "failing"
             \/ file' = "pipe" /\ last'.len > 1
             \/ last'.len > buf'.buffer_size
             \/ last'.len > Readable(buf)' + (IF kind' = "reader" THEN FileSize - in' ELSE 0)
  <2>1. ~s.ok /\ buf' = s.buf /\ in' = s.in
    <3>1. CASE s.ok
      <4>1. last'.ok = Leave(s, len).ok
        BY <1>1, <3>1 DEF Return
      <4>2. Leave(s, len).ok = s.ok
        BY DEF Leave
      <4>3. QED
        BY <1>4, <3>1, <4>1, <4>2
    <3>2. CASE ~s.ok
      BY <1>1, <3>2 DEF Return
    <3>3. QED
      BY <3>1, <3>2
  <2>2. \/ kind = "writer" \/ file = "failing"
        \/ file = "pipe" /\ len > 1
        \/ len > s.buf.buffer_size
        \/ len > Readable(s.buf) + (IF kind = "reader" THEN FileSize - s.in ELSE 0)
    BY <1>1, <2>1, FactsNow, ReadCheckRefused
  <2>3. Readable(buf)' = Readable(s.buf)
    BY <2>1 DEF Readable
  <2>4. QED
    BY <1>2, <2>1, <2>2, <2>3
<1>5. RefusedIfEnded'
  BY <1>4 DEF RefusedIfEnded
<1>6. QED
  BY <1>3, <1>5 DEF Refusals

(* A call of another name refuses nothing that the property is about.      *)
LEMMA OtherRefusals ==
    ASSUME last'.call \notin {"read", "write"} PROVE Refusals'
  BY DEF Refusals, RefusedIfFull, RefusedIfEnded

LEMMA DestroyDelivers == ASSUME QueueInv, Destroy PROVE Delivered'
<1>1. Ordered(Now) /\ Now.buf = buf /\ QueueInv'
  BY FactsNow, DestroyKeeps
<1>2. kind' = kind /\ file' = file
  BY DEF Destroy
<1>3. ASSUME kind = "writer", file = "regular" PROVE Readable(buf') = 0
  <2>1. CASE Readable(buf) > 0
    <3>1. PICK s \in WriterSync(Now) : buf' = s.buf
      BY <1>3, <2>1 DEF Destroy
    <3>2. QED
      BY <1>1, <1>3, <3>1, WriterSyncRegular
  <2>2. CASE ~(Readable(buf) > 0)
    <3>1. buf' = buf
      BY <1>1, <1>3, <2>2 DEF Destroy
    <3>2. Readable(buf) \in Nat
      BY DEF QueueInv, InOrder, Sound, Readable
    <3>3. QED
      BY <2>2, <3>1, <3>2
  <2>3. QED
    BY <2>1, <2>2
<1>4. Len(out') + Readable(buf') = in' /\ Len(out') \in Nat
  BY <1>1, LenProperties DEF QueueInv, InOrder, Readable
<1>5. QED
  BY <1>2, <1>3, <1>4 DEF Delivered

(* The checks refuse a call only if it could not be made: for want of room *)
(* in the whole of the buffer, or of bytes in it and in its file.          *)
THEOREM RefusalsAlways == ASSUME Growing PROVE Spec => []Refusals
<1> DEFINE Inv == QueueInv /\ file \in FileNames /\ Refusals
<1>1. Init => Inv
  BY QueueInit, FilesAssumption DEF Init, Refusals, RefusedIfFull, RefusedIfEnded
<1>2. Inv /\ [Next]_vars => Inv'
  <2> SUFFICES ASSUME Inv, [Next]_vars PROVE Inv'
    OBVIOUS
  <2>1. ASSUME NEW len \in Lens, Read(len) PROVE Inv'
    <3>1. len \in Nat /\ file' = file
      BY <2>1, LensAssumption DEF Read, Return
    <3>2. QED
      BY <2>1, <3>1, ReadKeeps, ReadRefusals
  <2>2. ASSUME NEW len \in Lens, Write(len) PROVE Inv'
    <3>1. len \in Nat /\ file' = file
      BY <2>2, LensAssumption DEF Write, Return
    <3>2. QED
      BY <2>2, <3>1, WriteKeeps, WriteRefusals
  <2>3. ASSUME NEW f \in Formats, WriteFormat(f[1], f[2]) PROVE Inv'
    <3>1. file' = file /\ last'.call = "format"
      BY <2>3 DEF WriteFormat, Return
    <3>2. QED
      BY <2>3, <3>1, WriteFormatKeeps, OtherRefusals
  <2>4. CASE Reset
    <3>1. file' = file /\ last'.call = "reset"
      BY <2>4 DEF Reset
    <3>2. QED
      BY <2>4, <3>1, ResetKeeps, OtherRefusals
  <2>5. CASE Destroy
    <3>1. file' = file /\ last'.call = "destroy"
      BY <2>5 DEF Destroy
    <3>2. QED
      BY <2>5, <3>1, DestroyKeeps, OtherRefusals
  <2>6. CASE UNCHANGED vars
    BY <2>6 DEF vars, QueueInv, InOrder, Sound, Readable, Byte, Refusals, RefusedIfFull,
                RefusedIfEnded, Writable
  <2>7. QED
    BY <2>1, <2>2, <2>3, <2>4, <2>5, <2>6 DEF Next
<1>3. Inv => Refusals
  OBVIOUS
<1>4. QED
  BY <1>1, <1>2, <1>3, PTL DEF Spec

(* A writer to a regular file that mu_buf_destroy has destroyed has left   *)
(* nothing behind: all that was written is in the file.                    *)
THEOREM DeliveredAlways == ASSUME Growing PROVE Spec => []Delivered
<1> DEFINE Inv == QueueInv /\ Delivered
<1>1. Init => Inv
  BY QueueInit DEF Init, Delivered
<1>2. Inv /\ [Next]_vars => Inv'
  <2> SUFFICES ASSUME Inv, [Next]_vars PROVE Inv'
    OBVIOUS
  <2>1. ASSUME NEW len \in Lens, Read(len) PROVE Inv'
    <3>1. len \in Nat /\ alive'
      BY <2>1, LensAssumption DEF Read, Return
    <3>2. QED
      BY <2>1, <3>1, ReadKeeps DEF Delivered
  <2>2. ASSUME NEW len \in Lens, Write(len) PROVE Inv'
    <3>1. len \in Nat /\ alive'
      BY <2>2, LensAssumption DEF Write, Return
    <3>2. QED
      BY <2>2, <3>1, WriteKeeps DEF Delivered
  <2>3. ASSUME NEW f \in Formats, WriteFormat(f[1], f[2]) PROVE Inv'
    <3>1. alive'
      BY <2>3 DEF WriteFormat, Return
    <3>2. QED
      BY <2>3, <3>1, WriteFormatKeeps DEF Delivered
  <2>4. CASE Reset
    <3>1. alive'
      BY <2>4 DEF Reset
    <3>2. QED
      BY <2>4, <3>1, ResetKeeps DEF Delivered
  <2>5. CASE Destroy
    BY <2>5, DestroyKeeps, DestroyDelivers
  <2>6. CASE UNCHANGED vars
    BY <2>6 DEF vars, QueueInv, InOrder, Sound, Readable, Byte, Delivered
  <2>7. QED
    BY <2>1, <2>2, <2>3, <2>4, <2>5, <2>6 DEF Next
<1>3. Inv => Delivered
  OBVIOUS
<1>4. QED
  BY <1>1, <1>2, <1>3, PTL DEF Spec

-----------------------------------------------------------------------------
(* Types *)

Rest ==
    /\ kind \in Kinds
    /\ file \in Files
    /\ last.call \in CallNames /\ last.len \in Nat /\ last.ok \in BOOLEAN
    /\ alive \in BOOLEAN

LEMMA ReturnTypes ==
    ASSUME Rest, NEW call \in CallNames, NEW len \in Nat, NEW s, s.ok \in BOOLEAN,
           Return(call, len, s)
    PROVE  Rest'
  BY DEF Rest, Return

LEMMA ReadTypes == ASSUME QueueInv, Rest, NEW len \in Nat, Read(len) PROVE Rest'
<1>1. PICK s \in ReadCheck(Now, len) : Return("read", len, IF s.ok THEN Leave(s, len) ELSE s)
  BY DEF Read
<1>2. s.ok \in BOOLEAN /\ Leave(s, len).ok = s.ok
  BY <1>1, FactsNow, ReadCheckOrdered DEF Ordered, Leave
<1> DEFINE t == IF s.ok THEN Leave(s, len) ELSE s
<1>3. t.ok \in BOOLEAN
  BY <1>2
<1>4. "read" \in CallNames
  BY DEF CallNames
<1> HIDE DEF t
<1>5. Return("read", len, t)
  BY <1>1 DEF t
<1>6. QED
  BY <1>3, <1>4, <1>5, ReturnTypes

LEMMA WriteTypes == ASSUME QueueInv, Rest, Growing, NEW len \in Nat, Write(len) PROVE Rest'
<1>1. PICK s \in WriteCheck(Now, len) : Return("write", len, IF s.ok THEN Enter(s, len) ELSE s)
  BY DEF Write
<1>2. s.ok \in BOOLEAN /\ Enter(s, len).ok = s.ok
  BY <1>1, FactsNow, WriteCheckOrdered DEF Ordered, Enter
<1> DEFINE t == IF s.ok THEN Enter(s, len) ELSE s
<1>3. t.ok \in BOOLEAN
  BY <1>2
<1>4. "write" \in CallNames
  BY DEF CallNames
<1> HIDE DEF t
<1>5. Return("write", len, t)
  BY <1>1 DEF t
<1>6. QED
  BY <1>3, <1>4, <1>5, ReturnTypes

LEMMA WriteFormatTypes ==
    ASSUME QueueInv, Rest, Growing, NEW f \in Formats, WriteFormat(f[1], f[2]) PROVE Rest'
<1> DEFINE len == f[2]
<1>1. 2 * f[1] \in Nat /\ len \in Nat /\ "format" \in CallNames
  BY LensAssumption DEF CallNames
<1>2. PICK s \in WriteCheck(Now, 2 * f[1]) :
         \E t \in IF s.ok /\ len > Writable(s.buf) THEN WriteCheck(s, len) ELSE {s} :
            Return("format", len, IF t.ok THEN FormatInto(t, len) ELSE t)
  BY DEF WriteFormat
<1> HIDE DEF len
<1>3. Ordered(s)
  BY <1>1, <1>2, FactsNow, WriteCheckOrdered
<1>4. PICK t \in IF s.ok /\ len > Writable(s.buf) THEN WriteCheck(s, len) ELSE {s} :
         Return("format", len, IF t.ok THEN FormatInto(t, len) ELSE t)
  BY <1>2
<1>5. Ordered(t)
  BY <1>1, <1>3, <1>4, FactsNow, WriteCheckOrdered
<1> DEFINE u == IF t.ok THEN FormatInto(t, len) ELSE t
<1>6. FormatInto(t, len).ok = t.ok
  <2> DEFINE e == Enter(t, len)
             b == e.buf
             end == SmallerOf(b.write_marker, b.buffer_size - 1)
             c == [b EXCEPT !.data = [b.data EXCEPT ![end] = 0]]
  <2>1. FormatInto(t, len) = [e EXCEPT !.buf = c]
    BY DEF FormatInto
  <2>2. e = [buf |-> e.buf, in |-> e.in, out |-> e.out, ok |-> e.ok] /\ e.ok = t.ok
    BY DEF Enter
  <2> HIDE DEF e, c
  <2>3. [e EXCEPT !.buf = c] = [buf |-> c, in |-> e.in, out |-> e.out, ok |-> e.ok]
    BY <2>2, Rebuffered
  <2>4. QED
    BY <2>1, <2>2, <2>3
<1>7. u.ok \in BOOLEAN
  BY <1>5, <1>6 DEF Ordered
<1> HIDE DEF u
<1>8. Return("format", len, u)
  BY <1>4 DEF u
<1>9. QED
  BY <1>1, <1>7, <1>8, ReturnTypes

(* The fields of the buffer have their types, and its markers are in order *)
(* and within its data: no call reads or writes beyond them.               *)
THEOREM TypeCorrect == ASSUME Growing PROVE Spec => []TypeOK
<1> DEFINE Inv == QueueInv /\ Rest
<1>1. Init => Inv
  BY QueueInit DEF Init, Rest, CallNames
<1>2. Inv /\ [Next]_vars => Inv'
  <2> SUFFICES ASSUME Inv, [Next]_vars PROVE Inv'
    OBVIOUS
  <2>1. ASSUME NEW len \in Lens, Read(len) PROVE Inv'
    BY <2>1, LensAssumption, ReadKeeps, ReadTypes
  <2>2. ASSUME NEW len \in Lens, Write(len) PROVE Inv'
    BY <2>2, LensAssumption, WriteKeeps, WriteTypes
  <2>3. ASSUME NEW f \in Formats, WriteFormat(f[1], f[2]) PROVE Inv'
    BY <2>3, WriteFormatKeeps, WriteFormatTypes
  <2>4. CASE Reset
    <3>1. Rest'
      BY <2>4 DEF Reset, Rest, CallNames
    <3>2. QED
      BY <2>4, <3>1, ResetKeeps
  <2>5. CASE Destroy
    <3>1. Rest'
      BY <2>5 DEF Destroy, Rest, CallNames
    <3>2. QED
      BY <2>5, <3>1, DestroyKeeps
  <2>6. CASE UNCHANGED vars
    BY <2>6 DEF vars, QueueInv, InOrder, Sound, Readable, Byte, Rest
  <2>7. QED
    BY <2>1, <2>2, <2>3, <2>4, <2>5, <2>6 DEF Next
<1>3. Inv => TypeOK
  BY DEF QueueInv, InOrder, Sound, Rest, TypeOK
<1>4. QED
  BY <1>1, <1>2, <1>3, PTL DEF Spec
=============================================================================
