-------------------------------- MODULE MuBuf --------------------------------
(***************************************************************************)
(* The byte buffers of src/mubuf.h.  All kinds share the reads and writes  *)
(* and differ in the checks that these make first: a fixed buffer refuses, *)
(* a resizable one grows, a buffered writer sends what it holds to its     *)
(* file and a buffered reader asks its file for more.                      *)
(*                                                                         *)
(* A buffer is a queue.  The bytes that enter it (from the caller or from  *)
(* the reader's file) are numbered 1, 2, ... in order, and stand for       *)
(* themselves; 0 is a byte of no interest, or the NUL that ends a string.  *)
(* A text that just fills its buffer has the NUL in place of its last byte *)
(* (`cut').                                                                *)
(***************************************************************************)
EXTENDS Naturals, Sequences

CONSTANTS
    Kinds,     \* the kinds of buffer: a subset of KindNames
    Size,      \* the size of a new buffer
    Lens,      \* the lengths of single reads and writes
    Formats,   \* <<length of the format, length of the text>> of formatted
               \* writes; a text may be of any length, a format is not empty
    FileSize,  \* the length of the file that is read
    MaxBytes,  \* a bound on the bytes written, for model checking
    Files      \* how read(2) and write(2) behave: a subset of FileNames

KindNames == {"fixed", "memory", "resizable", "reader", "writer"}

(* A regular file, whose calls transfer what they are asked to; a pipe,    *)
(* whose calls may transfer less; and a file whose calls may fail, too.    *)
FileNames == {"regular", "pipe", "failing"}

ASSUME KindsAssumption == Kinds \subseteq KindNames
ASSUME SizesAssumption == Size \in Nat \ {0} /\ FileSize \in Nat /\ MaxBytes \in Nat
ASSUME LensAssumption == Lens \subseteq Nat /\ Formats \subseteq (Nat \ {0}) \X Nat
ASSUME FilesAssumption == Files \subseteq FileNames

VARIABLES
    kind,   \* which of the constructors made the buffer
    file,   \* the file it was made for
    buf,    \* the struct mu_buf: data, its markers and its size
    in,     \* how many bytes have entered
    out,    \* the bytes that have left: to the caller, or to the writer's file
    cut,    \* history: the bytes that a NUL has taken the place of
    last,   \* history: the last call, its length and whether it was refused
    alive   \* the buffer has not been destroyed

vars == <<kind, file, buf, in, out, cut, last, alive>>

(* A buffer of n bytes of which the first `size' are data. *)
NewBuf(n, size) ==
    [data |-> [i \in 0..(n - 1) |-> IF i < size THEN i + 1 ELSE 0],
     read_marker |-> 0, write_marker |-> size, buffer_size |-> n]

Init ==
    /\ kind \in Kinds
    /\ file \in Files
    /\ in = IF kind = "memory" THEN Size ELSE 0
    /\ buf = NewBuf(Size, in)
    /\ out = <<>>
    /\ cut = {}
    /\ last = [call |-> "new", len |-> 0, ok |-> TRUE]
    /\ alive = TRUE

-----------------------------------------------------------------------------
(* The states that a call may go through: the buffer, the bytes in and out *)
(* and whether the call has been refused by a check.                       *)

Now == [buf |-> buf, in |-> in, out |-> out, ok |-> TRUE]

Refuse(s) == [s EXCEPT !.ok = FALSE]

Readable(b) == b.write_marker - b.read_marker
Writable(b) == b.buffer_size - b.write_marker

(* The bytes between the markers. *)
Window(b) == [i \in 1..Readable(b) |-> b.data[b.read_marker + i - 1]]

SmallerOf(m, n) == IF m < n THEN m ELSE n

(* The number of bytes moved by a system call that could move m. *)
Transfers(m) == IF m > 0 /\ file # "regular" THEN 1..m ELSE {m}

CompactInPlace(b) ==
    [b EXCEPT !.write_marker = Readable(b), !.read_marker = 0]

(* The window is moved to the beginning of the data. *)
Compact(b) ==
    [data |-> [i \in DOMAIN b.data |->
                  IF i < Readable(b) THEN b.data[b.read_marker + i] ELSE b.data[i]],
     read_marker |-> 0, write_marker |-> Readable(b), buffer_size |-> b.buffer_size]

(* The next n bytes enter at the write marker. *)
Enter(s, n) ==
    LET b == s.buf
        fresh(i) == i \in b.write_marker..(b.write_marker + n - 1)
        data == [i \in DOMAIN b.data |->
                    IF fresh(i) THEN s.in + i - b.write_marker + 1 ELSE b.data[i]]
    IN  [buf |-> [data |-> data, read_marker |-> b.read_marker,
                  write_marker |-> b.write_marker + n, buffer_size |-> b.buffer_size],
         in |-> s.in + n, out |-> s.out, ok |-> s.ok]

(* The first n bytes of the window leave. *)
Leave(s, n) ==
    [buf |-> [s.buf EXCEPT !.read_marker = @ + n], in |-> s.in,
     out |-> s.out \o SubSeq(Window(s.buf), 1, n), ok |-> s.ok]

Faults(s) == IF file = "failing" THEN {Refuse(s)} ELSE {}

(* mu_buf_reader_sync *)
ReaderSync(s) ==
    {Enter(s, n) : n \in Transfers(SmallerOf(Writable(s.buf), FileSize - s.in))}
        \union Faults(s)

(* mu_buf_writer_sync *)
WriterSync(s) == {Leave(s, n) : n \in Transfers(Readable(s.buf))} \union Faults(s)

(* pow2_ge *)
PowerOfTwo(n) == CHOOSE p \in {2^k : k \in 0..n} : p >= n /\ (p = 1 \/ p \div 2 < n)

(* That there is one: arithmetic that the provers do not have, and TLC     *)
(* evaluates.                                                              *)
Grows(n) == PowerOfTwo(n) \in Nat /\ PowerOfTwo(n) >= n

Grown(b, n) ==
    [data |-> [i \in 0..(n - 1) |-> IF i < b.buffer_size THEN b.data[i] ELSE 0],
     read_marker |-> b.read_marker, write_marker |-> b.write_marker, buffer_size |-> n]

-----------------------------------------------------------------------------
(* read_check and write_check: the states in which they may leave a call   *)
(* that needs to read or write len bytes.                                  *)

Require(s, condition) == IF condition THEN s ELSE Refuse(s)

(* mu_buf_reader_check_capacity *)
ReaderCheck(s, len) ==
    IF Readable(s.buf) >= len THEN {s}
    ELSE {Require(r, r.ok /\ Readable(r.buf) >= len) :
             r \in ReaderSync([s EXCEPT !.buf = Compact(@)])}

WriterCheckNoMove(s, len) ==
    IF Writable(s.buf) >= len THEN {s}
    ELSE {Require(r, r.ok /\ Writable(r.buf) >= len) : r \in WriterSync(s)}

WriterCheckOffByOne(s, len) ==
    IF Writable(s.buf) + 1 >= len THEN {s}
    ELSE {IF r.ok THEN Require([r EXCEPT !.buf = Compact(@)],
                               Writable(Compact(r.buf)) + 1 >= len)
                  ELSE r : r \in WriterSync(s)}

(* mu_buf_writer_check_capacity *)
WriterCheck(s, len) ==
    IF Writable(s.buf) >= len THEN {s}
    ELSE {IF r.ok THEN Require([r EXCEPT !.buf = Compact(@)],
                               Writable(Compact(r.buf)) >= len)
                  ELSE r : r \in WriterSync(s)}

(* mu_buf_resizable_check_write_capacity *)
ResizableCheck(s, len) ==
    IF Writable(s.buf) >= len THEN {s}
    ELSE {[s EXCEPT !.buf = Grown(@, PowerOfTwo(s.buf.write_marker + len))]}

ReadCheck(s, len) ==
    CASE kind \in {"fixed", "memory", "resizable"} ->
            {Require(s, Readable(s.buf) >= len)}
      [] kind = "reader" -> ReaderCheck(s, len)
      [] kind = "writer" -> {Refuse(s)}

WriteCheck(s, len) ==
    CASE kind \in {"fixed", "memory"} -> {Require(s, Writable(s.buf) >= len)}
      [] kind = "resizable" -> ResizableCheck(s, len)
      [] kind = "reader" -> {Refuse(s)}
      [] kind = "writer" -> WriterCheck(s, len)

-----------------------------------------------------------------------------
(* The calls *)

Return(call, len, s) ==
    /\ buf' = s.buf
    /\ in' = s.in
    /\ out' = s.out
    /\ last' = [call |-> call, len |-> len, ok |-> s.ok]
    /\ UNCHANGED <<kind, file, alive>>

Read(len) ==
    /\ alive
    /\ \E s \in ReadCheck(Now, len) :
        Return("read", len, IF s.ok THEN Leave(s, len) ELSE s)
    /\ UNCHANGED cut

(* Bytes, strings, integers and vectors of integers alike. *)
Write(len) ==
    /\ alive
    /\ in + len <= MaxBytes
    /\ \E s \in WriteCheck(Now, len) :
        Return("write", len, IF s.ok THEN Enter(s, len) ELSE s)
    /\ UNCHANGED cut

(* vsnprintf ends the text with a NUL, within the buffer.                  *)
FormatInto(s, len) ==
    LET t == Enter(s, len)
        b == t.buf
        end == SmallerOf(b.write_marker, b.buffer_size - 1)
    IN  [t EXCEPT !.buf = [b EXCEPT !.data = [b.data EXCEPT ![end] = 0]]]

(* The bytes that are cut when a text of len bytes has been formatted.  If *)
(* the text just fills the buffer, the NUL takes the place of the last one. *)
CutBy(s, len) == IF s.ok /\ len = Writable(s.buf) THEN {s.in + len} ELSE {}

(* mu_buf_write_format makes room for twice the length of the format, and  *)
(* again if the text turns out to be longer than what is then left.        *)
WriteFormat(flen, len) ==
    /\ alive
    /\ in + len <= MaxBytes
    /\ \E s \in WriteCheck(Now, 2 * flen) :
        \E t \in IF s.ok /\ len > Writable(s.buf) THEN WriteCheck(s, len) ELSE {s} :
            /\ Return("format", len, IF t.ok THEN FormatInto(t, len) ELSE t)
            /\ cut' = cut \union CutBy(t, len)

(* mu_buf_reset, of a buffer without a file: the count begins again. *)
Reset ==
    /\ alive
    /\ kind \in {"fixed", "memory", "resizable"}
    /\ buf' = [data |-> buf.data, read_marker |-> 0, write_marker |-> 0,
               buffer_size |-> buf.buffer_size]
    /\ in' = 0
    /\ out' = <<>>
    /\ cut' = {}
    /\ last' = [call |-> "reset", len |-> 0, ok |-> TRUE]
    /\ UNCHANGED <<kind, file, alive>>

DestroyAtOnce ==
    /\ alive
    /\ alive' = FALSE
    /\ last' = [call |-> "destroy", len |-> 0, ok |-> TRUE]
    /\ UNCHANGED <<kind, file, buf, in, out, cut>>

(* mu_buf_destroy does not look at the result of its sync. *)
Destroy ==
    /\ alive
    /\ alive' = FALSE
    /\ \E s \in CASE kind = "writer" /\ Readable(buf) > 0 -> WriterSync(Now)
                  [] kind = "reader" /\ Readable(buf) > 0 -> ReaderSync(Now)
                  [] OTHER -> {Now} :
        /\ buf' = s.buf
        /\ in' = s.in
        /\ out' = s.out
    /\ last' = [call |-> "destroy", len |-> 0, ok |-> TRUE]
    /\ UNCHANGED <<kind, file, cut>>

Next ==
    \/ \E len \in Lens : Read(len) \/ Write(len)
    \/ \E f \in Formats : WriteFormat(f[1], f[2])
    \/ Reset
    \/ Destroy

Spec == Init /\ [][Next]_vars

-----------------------------------------------------------------------------
(* Properties *)

CallNames == {"new", "read", "write", "format", "reset", "destroy"}

(* The types of the buffer's fields; the markers are in order and within   *)
(* the data.                                                               *)
TypeOK ==
    /\ kind \in Kinds
    /\ file \in Files
    /\ in \in Nat
    /\ out \in Seq(Nat)
    /\ cut \subseteq 1..in
    /\ buf.buffer_size \in Nat
    /\ buf.write_marker \in 0..buf.buffer_size
    /\ buf.read_marker \in 0..buf.write_marker
    /\ buf.data \in [0..(buf.buffer_size - 1) -> Nat]
    /\ last.call \in CallNames /\ last.len \in Nat /\ last.ok \in BOOLEAN
    /\ alive \in BOOLEAN

(* A buffer is a queue: what has left it and what it holds are the bytes   *)
(* that entered, in order and each once, however it moved its data, grew,  *)
(* was refused by a check or failed to reach its file.  Only of a text     *)
(* that just filled the buffer when it was formatted, the last byte is     *)
(* lost, and no other byte with it.                                        *)
Queue == out \o Window(buf) = [i \in 1..in |-> IF i \in cut THEN 0 ELSE i]

(* A write is refused only if it cannot fit: for a buffered writer whose   *)
(* file takes what it is given, if it is longer than the whole buffer.     *)
RefusedIfFull ==
    last.call = "write" /\ ~last.ok /\ file = "regular" =>
        CASE kind \in {"fixed", "memory"} -> Writable(buf) < last.len
          [] kind = "writer" -> last.len > buf.buffer_size
          [] kind = "resizable" -> FALSE
          [] kind = "reader" -> TRUE

(* A read is refused only if the buffer and its file do not have the bytes *)
(* or the buffer cannot hold them.  From a pipe, which may be read in      *)
(* pieces, this is so of single bytes only.                                *)
RefusedIfEnded ==
    last.call = "read" /\ ~last.ok =>
        \/ kind = "writer" \/ file = "failing"
        \/ file = "pipe" /\ last.len > 1
        \/ last.len > buf.buffer_size
        \/ last.len > Readable(buf) + (IF kind = "reader" THEN FileSize - in ELSE 0)

(* The checks refuse what cannot be done and nothing else: what waits to   *)
(* be moved, or to leave for the file, is no reason to refuse a call.      *)
Refusals == RefusedIfFull /\ RefusedIfEnded

(* A writer to a regular file that has been destroyed has left nothing     *)
(* behind.                                                                 *)
Delivered == kind = "writer" /\ file = "regular" /\ ~alive => Len(out) = in
=============================================================================
