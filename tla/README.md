# A verification of musvg

musvg parses SVG documents, from XML or from a binary form, into a node graph,
and emits that graph as text, as XML or in the binary form.  This directory
holds TLA+ specifications of the program's core, the TLC configurations that
check them on small instances, and the theorems that TLAPS proves for every
instance.  Paths are those of the repository under `src/`: `src/src/mumule.h`
is its `src/mumule.h`, and `musvg.c` below is `src/src/musvg.c`.

Contents: [the system](#the-system), [the modules](#the-modules),
[the runs](#the-runs), [fairness](#fairness), [the proofs](#the-proofs),
[what the code does otherwise](#where-the-code-does-otherwise),
[what is not modelled](#what-is-not-modelled), [plan](#plan).

## The system

| part | source | state | operations |
|---|---|---|---|
| thread pool | `mumule.h` | three counters, a mutex, two condition variables, the threads | init, submit, start, sync, reset, stop, destroy; the loop of a worker |
| growing array | `muvec.c` | count, capacity, table of extents | init, resize, destroy, get, set, alloc and add (relaxed and atomic) |
| byte buffer | `mubuf.h` | bytes, read and write marker, size, checks, descriptor | five constructors, read, write, format, sync, reset, destroy |
| number codecs | `mubuf.cc` | none | LEB128, VLU, ASN.1, vf128 and IEEE 754, each read and written |
| node graph | `musvg.c` | nodes, attribute slots, storage, stack of open elements | start, end, attributes, access functions, visit |
| readers | `musvg.c` | position in the input | XML and binary parsing |
| emitters | `musvg.c` | graph and output buffer | text, XML, binary, statistics, dump |
| attribute values | `musvg.c` | storage, strings, points, path operations | two readers and two writers for each of eleven types; style lists |
| node hashing | `musvg.c` | array of hashes, pool | hash of every node, in order of the array |
| tool | `app/musvgtool.c` | a parser | parse one file, emit another |

How they interact.  The tool creates a parser, reads a file or a descriptor
into it and emits it; two runs of the tool, one reading what the other wrote,
are the round trip that `src/test/run_tests.sh` tests.  The parser keeps nodes,
slots and storage in growing arrays and addresses them by index, because a
pointer into them may move.  The values of attributes are records in the
storage; those of unbounded length refer to further arrays by offset and count.
Readers call `musvg_start_element`, the readers of
attribute values and `musvg_end_element`; emitters are callbacks of
`musvg_visit`.  Both read and write through a byte buffer, and the binary form
encodes its numbers by the codecs.  The parser also owns a thread pool of one
worker, for hashing.  Only pool and array are built for several threads.

What is hard in it, and what makes each part correct:

* **Pool.**  Workers decide on counters loaded one after the other, without the
  mutex; signals are given without it and may be lost; stores of a reset are
  not one step.  Correct: items are begun in order, once each, and none that
  was not submitted; `mule_sync` returns when, and only when, all are finished;
  `mule_stop` drains a batch and leaves no thread behind; every call returns.
* **Array.**  Threads allocate, grow and write at the same time.  Correct:
  ranges do not overlap, have memory when they are returned, and stay where
  they are; the capacity promises no memory but what is there or being made; all
  of it is freed.
* **Buffer.**  Data moves, grows, goes to a file in pieces, or fails to.
  Correct: it is a queue; it refuses only what cannot be done; a writer that is
  destroyed leaves nothing behind.
* **Codecs.**  The length of a number is nowhere but in its octets, and a
  buffer may refuse half of one.  Correct: what was acknowledged is read back;
  half a number is never a number; a reader takes what the writer left.
* **Graph.**  The links of a node come from a stack that every earlier start
  and end has changed; attributes of all nodes are lists in one array.
  Correct: a visit replays the document; the links agree; indices are a
  preorder; each slot is on one list.
* **Attribute values.**  Eleven types, each with five functions, share one
  storage and three arrays, and a record may be stored again in place.
  Correct: no two records share a byte; a value is what it was last set to,
  whatever was read after it; what refers into an array stays apart from what
  others refer to; a value that was written is read, and written again the same.
* **Readers and emitters.**  Two grammars, two readers and two writers.
  Correct: what one run writes the next reads, and writes again the same.

`PROJECT.json` lists the parts, and under "hazards" each of these at its line.

## The modules

    WorkPool <-------- Mumule <--- MumuleInv <--- MumuleProofs
    (abstract)         pool        invariant      theorems

    DocTree <--------- SvgTree <-- SvgTreeInv <-- SvgTreeProofs
    (abstract)         graph ^     invariants     theorems
                             |
    XmlReader <--------- SvgPipe <-- SvgPipeProofs (and SvgTreeProofs)
    tags and calls       two         theorems
                         parsers
                         and a file

    Words <-- AttrText <-- AttrBinary <-- AttrStore <-- AttrStoreProofs
    bits  ^   values       values in      storage,      theorems
          |   and texts    binary         two parsers
          |
          +-- NumCodec <-- FloatCodec <-- CodecStream <-- CodecProofs
              integers     floats         numbers in      theorems
                                          a buffer

    DataInduction <-- SvgTreeProofs, AttrStoreProofs, CodecProofs
    recursive functions, sequences

    MuVec <-- MuVecProofs     MuBuf <-- MuBufProofs
    growing   theorems        byte      theorems
    array                     buffer

Each `MC...` module gives a specification the sets and operators that its
`.cfg` files name.  The modules with invariants are apart from those with
proofs so that TLC checks the formulas that the proofs are about.

### Mumule, WorkPool

`Mumule` has a variable for each field of `mu_mule` that matters, the local
variables of `mule_thread` and `mule_sync`, a program counter for each worker
(`pc`) and one for the thread that makes the calls (`dpc`, `call`).  Every
atomic access is an action, and so is every lock, wait, signal and broadcast.
A thread waits on a condition variable when its counter is at the wait, so a
signal is lost when nobody is there; time-outs and spurious wake-ups are one
action, which may happen at any time.  Accesses are sequentially consistent in
the model.  In the code the additions and exchanges are, and the loads acquire
in the order in which the model makes them; `threads_running` is relaxed, but
nobody acts on it.
`done`, the items whose kernel call has returned, is a history variable.

`WorkPool` is what the pool promises, in terms of items: submitted, begun in
order, finished; a sync returns, and a clear happens, only when all are done.
Its `begun` is `processing`; it is cleared at the first store of `mule_reset`.

### SvgTree, DocTree

`SvgTree` has the arrays, the stack and its depth.  `StartElement` is
`musvg_start_element` with `musvg_node_add` (abort included); `EndElement` is
`musvg_end_element` with `musvg_stack_pop`; `ReadAttr` and `EndAttrs` are the
loops over attributes; `AttrValueSet` and `AttrValueGet` are the access
functions.  A slot and its storage are allocated together, so that a slot here
holds its value.  `Visit` is `musvg_visit` as the sequence of its callbacks.

`SlotList` and `VisitRecurse` are recursive functions, so that they can be
proved about: the slots that `left` leads to, oldest first, and the events of a
node with its elder siblings and all that is below them.

`DocTree` is a document: events, open elements, the type and the attributes of
each element.  The refinement maps the visit of the graph, less the ends that
are still to come, to the events, and the stack to the open elements.

### SvgPipe

Two parsers, one after the other, and the file in between as its symbols.
`Emit` writes the whole file and begins the second run; `ReadCopy` reads one
symbol by the same actions that built the first graph.  A value is rounded when it is
written as text.  Before XML is read, `Noise` may get into it, text that has to
be passed over: comments, instructions, content, and tags that are not in the
tables, with attributes that are.  And `Garbage` may be behind it:
`musvg_parse_svg_xml` ends the original, not the copy that it reads
(`musvg.c:2850`).

`XmlReader` has the tokenizer (`Tags`, of `musvg_parse_xml`) and the reading of
a tag (`Calls`, of `musvg_parse_element`, and `Attribs`), as functions from a
text to the calls it gives rise to.  A token is a mark the reader looks for, a
piece of white space, or a word: a name or a value, of which it looks at no
single character.

### AttrText, AttrBinary, AttrStore

`AttrText` has the parser of each type of value and its text writer,
`AttrBinary` the binary reader and writer and the tables that go by the type.
Texts are sequences of tokens here, too, and numbers are whole.  `Float` and
`Shown` are the two roundings that remain: a float keeps 24 bits of a number,
and its text shows eight digits (nine with `%.8f`).  Parsers take texts that
are not well-formed, and do with them what the code does: which numbers are
then zero, what is passed over and where a path ends the program.  The binary
form is a sequence of fields; `CodecStream` is about the octets of each.

`AttrStore` is where values are put.  A block of `storage` has an offset, a
capacity that grows and the alignment of its type, exactly as
`storage_buffer_alloc` computes them; `strings` is the same with names.
`points` and `path_ops` are arrays, and records refer to them by offset and
count.  An attribute that is there already is stored in its old block.  A style
list is a sequence of attributes.  `Emit` writes the file and begins the second
run, in which text is parsed or fields are read, into fresh arrays.  `given` is
a history variable, the value a block was last given, as a value rather than as
references.  `ViewsApart` counts a view of each path, list of points and path
operation.  A name is a token, and `NameLen` the number of characters that it
stands for.  `TextsAssumption` says of the texts that the names in them have
one, that numbers have nine digits (`Whole`), that a transform has a function,
without which the code returns what it has not initialised, and that the
numbers of its matrix are whole, as all are here (`TextKnown`).

### MuVec

The table of extents, the count and the capacity, and for each thread where it
is in a call and its locals.  One action per access to a shared field; the
`malloc` of an extent is part of the exchange that publishes it.  `owner` and
`filled` are history variables: who was given an index, and whether it has
been written.  Calls overlap if `shared`, in which case the relaxed calls,
which are for one writer, are not made.

### MuBuf

The struct `mu_buf` and its five kinds.  A call is one step, because a buffer
belongs to one thread; inside it, the operators follow the code's order and
return sets of states where `read(2)` and `write(2)` have a choice.  Bytes are
numbers that count up as they enter, so loss and repetition show.  `Formats`
are pairs of the length of a format and that of its text, which may be of any
length: `</%s>\n` makes room for 12 bytes, `</linearGradient>\n` has 18.  The
history variable `cut` has the bytes in whose place `vsnprintf` has put a NUL,
each the last one of a text that just fills the buffer.  `Queue` says that what
enters leaves but for these, of which a 0 leaves.

### Words, NumCodec, FloatCodec, CodecStream

A word is the set of its one bits, so that words of 64 bits are no trouble to
TLC, and shifts and masks are set expressions.  `NumCodec` and `FloatCodec` are
the readers and writers of `mubuf.cc`, each in both forms (by pointer and
`_byval`).  A writer is the sequence of the chunks it writes, since each may be
refused; a reader is what it returns and what is left of its input.
`CodecStream` writes numbers of any kind, one after another, to a buffer with
little or ample room and reads them back.

These operators are computations, and were compared with the program: for
10,958 sample values the octets and the decoded
values given by TLC are those of `mubuf.cc` compiled and run.

## The runs

| run | configuration | states | question |
|---|---|---|---|
| `mumule_batch` | 2 workers, 2 items, any sequence of calls, nothing submitted or reset while it runs | 41,439 | every property of the pool |
| `mumule_live` | 1 worker, 5 items, submitted at any time | 40,497 | what holds when a copy of `queued` may be old |
| `mumule_phantom` (violation) | 2 workers, submitted at any time | – | an item nobody submitted is begun |
| `svgtree_wellformed` | 5 nodes, 4 levels, 2 slots | 23,084 | the graph, and that it implements `DocTree` |
| `svgtree_any` | 3 nodes, 2 levels, 4 slots, several roots, last level in use | 13,518 | the lists of attributes |
| `svgpipe_both` | 4 nodes, 2 slots, two values of which one is rounded, six kinds of noise anywhere, four of garbage | 25,197 | round trip by each format, and files cut behind any symbol |
| `svgpipe_bare` (violation) | as above, with elements without attributes | – | `<g/>` is lost |
| `muvec_uses` | 2 threads, 3 extents, allocations of 3 and 1 | 1,177,791 | every property of the array |
| `mubuf_kinds` | 4 bytes, calls of 1, 2, 3 and 5, texts shorter and longer than their formats let expect, a file of 9 | 89,473 | every property of the buffer |
| `codec_stream` | see below | 289,916 | every property of the codecs |
| `values` | two attributes, of any pair of types, on one or two nodes | 90,121 | where values are put, and their round trip by each format |
| `values_transforms` (violation) | one transform, or two | – | two are read as the matrix of zeros |

Why the bounds are enough.

* Pool: two workers make every race for an item, the third item of a batch
  would repeat the second, and the calls may be made any number of times.  The
  proofs lift these bounds.  With one worker, five items let the copy of
  `queued` be old by several submissions.
* Graph: five nodes have every shape with a grandchild, an elder sibling with
  children and a return over two levels; `MaxDepth` is 4 so that a level below
  the deepest exists.  The proofs lift these bounds, too.
* Pipe: four elements and two attributes have every shape of tag and each
  nesting of them.
* Values: a value is disturbed by what is stored next to it or after it, so
  every pair of the sample texts matters, on the same node (where the second
  may replace the first) and on two; a third would meet the same neighbours.
  There are samples of every type, with a number of more digits than a float or
  its text keeps, names on both sides of what the readers hold, and texts that
  break off or have too much.  Style lists add attributes of their own, so
  four blocks may be there.  `MaxBuffer` is beyond what these need, and lets
  each buffer grow from 16 bytes more than once.
* Array: three extents hold seven elements; allocations of three cross one
  border of extents or two, and a table with an extent given at first and two
  to be made has both the race for a new one and the step over an old one.
  Threads are symmetric: no property is about liveness.
* Buffer: calls are shorter than, equal to and longer than what is left of four
  bytes, and five fits nowhere; nine bytes wrap the buffer more than twice.
  Texts are shorter and longer than the room their formats ask for, up to one
  that fits nowhere, so that the second attempt is made, and texts that just
  fill the buffer occur at the first and at the second.
* Codecs: integers of 64 bits, namely all powers of two and the numbers one
  below, their complements, and all numbers of two bits of which one is the
  lowest; floats with no digit, any single digit and any run of leading digits,
  around every exponent at which the encodings change; identifiers around the
  long form.  So every border of every encoding is there, and its two sides.
  Rooms of 1 and 4 octets cut most encodings, 40 cuts none.

Nothing is left out of these runs by a constraint: bounds are in the guards,
named `MaxQueued`, `MaxNodes`, `MaxSlots`, `Room`, `MaxBytes`, `MaxReads`,
`MaxBuffer` and `Len(Samples)`.  Deadlock is checked for the pool, which stops only when it
has been destroyed.  The other models stop at their bounds, and their
configurations say so.

Properties that are easy to misread:

* `SignalPrecise` and `SignalNotMissed` are action properties: a worker that
  counts an item goes on to signal if and only if, or at least if, it was the
  last.  The first one does not hold if work is submitted meanwhile.
* `EveryItemDone` says that a batch is finished even if `mule_stop` comes at
  once; `EveryItemRuns`, that without a stop live work is finished, too.
* `CutAnywhere` says that a reader that is cut off between two symbols has built
  what it has read: tokens of XML, or the codes and values of the binary form.
* `CapacityBacked` does not say that `mu_vec_resize` may go by the capacity while
  other calls are under way: it may be ahead of extents that another thread has
  not yet published.  It says that there is such a thread for each of them, so
  that once all calls have returned nothing is missing.
* `Queue` is of a buffer's bytes but those in `cut`.
* `RoundTrip` of `CodecStream` leaves out what the encodings do not keep: the
  digits of a NaN, its sign as a real, the lower bit of a class (`Kept`), and
  denormal doubles as reals (`Exact`; see below).
* `RoundTrip` of `AttrStore` compares what two runs write, not values: text
  rounds a number the first time.  `exact` leaves out what a format has no way
  to say (`Kept`; see below).
* `TypeOK` is checked alone only for `MuBuf`, and proved there; that of the
  pool is part of `IInv`, that of the graph is proved, and of the array the proofs
  need less (`Types`, `MemoryTypes`).

## Fairness

Only the pool has properties of liveness.  `Fairness` in `Mumule` is

* `WF(InCall)`: the dispatcher goes on with a call it has made.  It is never
  obliged to make one.  `WF` is enough as no other thread disables its steps,
  except those that take the mutex;
* `SF(SyncLock)`, `SF(WorkerLock(w))`, `SF(WorkerRelock(w))`: a thread that
  asks for the mutex again and again gets it some time.  Others hold it for
  bounded times and wait between them, but it is not continuously free;
* `WF(Worker(w))`: a thread runs, its kernel returns, its timed wait ends;
* `SF(Claim(w))`: a worker does not lose every race for an item, nor does a
  weak exchange fail for ever.

The two time-outs are in `InCall` and `Worker(w)`: the code's `cnd_timedwait`
of 1 ms and 10 ms.  The mutants `SyncWaitsForever` and `WorkerWaitsForever`
take them away, and the properties then fail: lost signals are real, and the
time-outs are what makes the pool live.

## The proofs

TLAPS proves, for every value of the constants that the assumptions admit:

* **`MumuleProofs`**, under `Disciplined`: the running pool is not reset, and
  gets new work while it runs only if it has a single worker.  The run
  `mumule_phantom` shows that the second is needed; the first is too, as
  `mule_reset` of a running pool does not do what it says (see below).  For any
  finite set of workers and any number of items: `TypeCorrect`, `Invariance` (of
  `IInv`), `NoPhantoms`, `Exclusive`, `SyncCompletes`, `StopsQuiet`,
  `StopsDrained`, `SignalsPrecisely`, `SignalsNotMissed`, and `Implements`, that
  the pool implements `WorkPool`.
* **`SvgTreeProofs`**: `TypeCorrect`, `SlotsLinked` and `SlotsOwnedAlways`, of
  every document, with several roots and at any depth; `TreeAlways`,
  `TreeLinked` and `TreeOrdered`, under `WellFormed`: one root, and nothing
  nested to the last level.  For any number of levels, nodes, slots, types and
  values.  `AttrsUniqueAlways`, of every document; and `Implements`, under
  `WellFormed`: that the parser implements `DocTree`, for any document.
* **`SvgPipeProofs`**, under `WellFormed` and for any document, format, noise and
  garbage: `DocumentRoundTrip`, that what has been written is read again, and
  written again without a difference; `CutAnywhereAlways`; and `CopyGoesOn`,
  that no file ends the program that reads it.  `"xml" \notin BareTags` leaves
  out `<g/>`, of which it is not so (`svgpipe_bare`); `"binary" \notin Stdin`,
  in the last two, the byte too many that ends the program.  `NamesAssumption`
  says that names and values are not marks, and that a tag has room for all
  attributes; `NoiseAssumption`, that noise leaves no tag unfinished, and that
  the reader makes no call of it.
* **`DataInduction`** has no theorem of its own, but the lemmas that inductions
  over data rest on, here and in the next modules: functions that are defined
  from one number to the next, and the joining of sequences of any length.
* **`AttrStoreProofs`**, for any texts and any number of reads, nodes and
  bytes: `BlocksApartAlways`, records are aligned, within the storage and apart;
  `ContentKeptAlways`, a value is read back as it was given; `ViewsApartAlways`,
  what refers to an array refers to what is there, and to its own part; and
  `RoundTripAlways`, the second run reads all that the first one has written, in
  either format, and would write the same.
  Its first half has the lemmas for that, about the operators of `AttrText` and
  `AttrBinary`: what a parser makes of any text (`ParsedGood`), what a writer
  makes of such a value can be read again (`WrittenGood`), what the binary
  reader makes of the fields of such a value (`ReadBinaryGood`), and that it
  reads a path as it was written (`ReadPathBack`).
* **`CodecProofs`**, for all values of every kind of number, any number of
  writes and a buffer of any size: `RoundTripAlways`, that a number whose write
  was acknowledged is read back as what was written; `AlignedAlways`, that every
  reader takes exactly the octets that the writer left; `TornRefusedAlways`,
  that no part of a number is read as a number; and `StreamAlways`, the
  invariant of the three.  The values are those of the parameters' types
  (`Domain`), and the tags below ten.
  `NumbersAssumption` and `ExponentsAssumption` have no constants: they say that
  numbers up to 20, and those in the exponents of the two floats, are the sums
  of their bits, what the biases and the highest exponents are, and that numbers
  from -1200 to 1200 need two octets at most, of which their sign is restored.
  Each is a finite computation with powers of two, of which the provers know
  nothing, and TLC evaluates them all.
* **`MuVecProofs`**, for any number of threads and extents and any size of the
  first: `NeverMoved` and `RangesDisjointAlways`, and under `Plain` also
  `BackedAlways` and `ContentKeptAlways`.  `Plain` is what the code needs: an
  exchange does not fail without a reason, and no allocation is empty
  (`MuVec` violates `Backed` without either).  It has an arithmetic fact, too,
  that the extent of an index does not decrease with the index
  (`ExtentsOrdered`): extents double, the provers know nothing of powers of
  two, and TLC evaluates the fact in `MCMuVec`.
  With one more, that each extent begins where the one before it ends
  (`ExtentsAdjoin`), also `CapacityBackedAlways` and `DestroyedFreedAlways`.
* **`MuBufProofs`**, for any kind and size of buffer, any lengths of calls and
  of formatted texts, and any file: `QueueAlways`, `RefusalsAlways`,
  `DeliveredAlways` and `TypeCorrect`.  The condition `Growing` says that the
  next power of two of a size is not below the size (`Grows`), arithmetic once
  more, which TLC evaluates in `MCMuBuf`.  `QueueAlways` says which bytes are
  lost, namely the last of a text that just fills the buffer, and no other;
  `ShortTextsWhole`, that none is, if every text is shorter than twice its
  format, which is the room that `mu_buf_write_format` asks for first.

The arguments.  None of the pool's properties is inductive.  `SyncComplete`
compares a number, `processed`, with items; the bridge is `ItemInv` (the items
up to `processing` are those done and those in a worker's hands, each in one
pair of hands) and `CountInv` (`processed` is the number of items done that no
worker is about to count).  At the end of `mule_sync`, `processed` has reached
`queued`, no more than which can have been begun (`LocalInv`), so that a set of
`queued` items within `1..queued` is all of it (`AllCounted`).  `LocalInv` says
what a worker's copies are worth: nothing can be claimed beyond the `queued` it
has seen, which is where `Disciplined` is used.  `MutexInv`, `CallInv` and
`ThreadInv` tie program counters to the mutex and to `running`, `AliveInv` ties
`threads_running` to the threads, `ResetInv` describes the counters between the
stores of a reset.  `DrainInv` is proved on top, for `StopDrains`.

For the graph, `LinksAgree` needs to know what is on the stack: `StackInv` (its
first entries are the open elements, the next the youngest child of the
innermost, the rest clear) and `OpenInv` (what came after an open element is
below it).  The new node is then younger than all, so it is the youngest child
of the element that is open, and the entry it replaces was its elder sibling.
`SlotInv` is separate, since it holds of every document: references go to older
slots, and each slot has one.

What is read back from the graph is computed by recursive functions, so each
proof is an induction over data.  The library's induction theorems cannot be
used by the provers installed, but a least counterexample can: `LeastNatural`
says that a set of numbers that is not empty has a least one (from the library's
theorem that inclusion of finite sets is well-founded).  For `SlotList` it
gives that the function exists (`ChainRecursion`) and that there is only one of
its equation.  So a step that changes one slot changes the lists of one node,
by one slot at its end (`AllocLists`), and `FindOnList` says that the search of
`find_attr` finds what is on the list, and no other.  `AttrInv` adds that lists
have no slot in common, and that nothing is read when the program has ended.

For the visit, the order of the induction is by the parent, the youngest first,
then by the index (`VisitUnique`): an elder sibling has the same parent and a
lower index, a child a younger parent.  That a visit exists is never shown of
the graph as such: each step says what the next visit is, and there is only one
(`VisitKept`, `VisitAdd`).  A new node puts its start and its end before the
last `k` events of the visit of the `k`th open element from within (`Between`,
`BetweenWrap`), since its subtree is the last child's in each (`OpenLinks`).
These last events are the ends of the open elements, which is `VisitInv`; cut
off, they leave the document so far (`CutAfter`), and closing an element cuts
off one less.

For the round trip, `HistoryInv` says what the visit of a graph is: a document,
whose starts are numbered in order and whose ends close what is open
(`TraceTo`), which with the types and attributes (`Labels`) is all that the
emitters go by.  `PipeInv` says that the second run has the document of the
first as far as it has read: the first events, what is open after them, and the
types and the attributes, rounded, that were written, of the last element
perhaps the first few (`Position`); and that `wire` holds the calls for
that document, less those made.  Of the binary form, the file is these calls
itself, by definition.  Of XML it takes three steps.  `Tags` finds the tags one
after another: a text that leaves no tag unfinished, with another behind it, has
the tags, and so the calls, of both (`CallsJoined`).  Therefore noise may be
between any two tags, and what is behind the text adds nothing.  `Attribs` of a
tag that was written is the list of its attributes, with the slash at the end
of a leaf (`AttribsList`), by induction on the number of them: the next one
begins where the quotes of the last have closed.  Hence a tag makes the calls
for the event that it was written for (`StartTagCalls`), that of a leaf those
for its end, too, which has no text of its own.  That the calls of what is left
of a cut text are the first of the whole (`CallsStart`) needs nothing of what is
in the text: a tag that is not finished is the last, and is no tag.

For values, `BlockInv` says that the blocks are below the offset, and above 0
as the offset is; the new one begins where all others have ended.  It needs of
the types only that sizes are positive and of capacities that the next power of
two is not smaller (`BufferAssumption`).

That values are kept needs all of `ContentInv`.  `StoreInv` says that every slot
of a node has a block of its attribute, that a record refers to what the arrays
and the string buffer hold, that the value found through it is `given`, and that
views are apart.  The arrays only grow, so what an old record refers to stays as
it was; a new view begins at the end of its array, so it has nothing in common
with an old one; and a path takes its arguments one operation after the other.
`OpRecords` computes the places from the lengths of the arguments, which
`PathViews` compares with the concatenation that is appended.  For all of this,
the values must be sequences with a length.  That the parsers yield such
(`ParsedGood`), from texts of any length, is an induction for each recursive
scanner, by `Upwards` and `StepRecursion` of `DataInduction`: what holds at 0
and from each number to the next holds up to any, and a function that is defined
from one to the next exists.  `TodoGood` says it of what waits to be read, and
`WireGood` of the file: each of its items was written of such a value, so that
the binary reader, which does not look at what it takes, finds counts and fields
that agree.  Of points and paths it is shown that they are read as they were
written; of the others no more is needed than that they are values.

That what was written arrives needs more of the values: `Fine`, that numbers are
floats, that the arguments of an operation are as many as its command has, that
a dash array has no more dashes than fit, and so on.  The parsers make such
values of any text (`ParsedFine`).  The binary reader makes of the fields of a
fine one a value with the same text (`FieldsAgain`); of points and paths, the
value itself.  Text rounds, so its reader, too, makes a value that is written as
the same text (`TextAgain`), and all of that comes down to `FloatAgain`: a float that is shown, read and shown again shows the
same, although eight digits and 24 bits are steps of different sizes, with a
case for each size.  Each type has a lemma of its own on what its parser makes
of what its writer wrote (`LengthAgain`, `ViewboxAgain`, `PointsAgain`, ...).
The longest is `PathAgain`: the items of the text are the commands that are not
repeated and the numbers (`WrittenItems`), and the state of the scanner behind
the items of an operation has the operation, no argument, and its command as
the next one (`NextOpScanned`), which is why a space will do for a command that
is repeated, and why a path that is closed twice in a row will not arrive.
`ArrivalInv` carries it through the file: every value of the first run is fine;
in the second, each item that waits to be read `Arrives`, that is, it gives the
text that was `sent` in its place, and those that have been read have done so
(`Begun`).  No node has an attribute twice, in the file or in the graph, so the
second run allocates a slot for each item, in the same order (`AllocPlaces`).

For the codecs, `StreamInv` cuts the stream into a piece for each number that
waits to be read.  A piece of a number that was taken whole is `Delimited`:
whatever follows it in the stream, and even if the stream ends early, its reader
fails or takes exactly as many octets as the piece has.  A torn piece is
`Refused`: a reader that finds no more than that fails.  The step from one to
the other is `TornIsRefused`: what is torn has fewer octets than the reader
takes if it succeeds.  So each kind of number needs one lemma on its reader (it
takes as many octets as the first ones tell: groups up to the one without a
mark, a unary prefix, a length, the sizes in a prefix; `...Taken`) and one on
its writer (it leaves as many as its first ones tell; `...Spells`, `...Leaves`),
and neither says anything of the values.  For ASN.1 reals, the second says that
`RealLength` announces what `RealWrite` then writes.  That a buffer takes chunks
whole or not at all is `Accepting`.

What was read is what was written if a whole piece also `Decodes`: in any stream
that begins with it, its reader succeeds and makes of it the value that `Kept`
says.  For each kind of number, `...Reads` is that lemma, and it is about bits:
a word is a set, and what a shift, a mask or a slice has in it is a matter of
integers (`ShlHas`, `ShrHas`, `SliceIs`).  The octets of a word are slices that
make up the word (`OctetsJoined`), and so are its groups (`GroupsJoined`);
a count in the first octet of a VLU number is shifted out again (`Undone`); the
sign is restored from the top bit that was written.  A float is packed of the
three fields it was taken apart into (`PackIs`, `PackedAgain`), whatever was
done to them in between: the trailing zeros dropped and the exponent moved by as
many (`RealAssembled`), the leading one made explicit and dropped again
(`NormalHas`), or the digits put into a nibble (`VfFew`, `VfFewBelow`), with a
case for each branch of `VfWrite`, denormal numbers in both.  A vector follows
by induction on what the reader's loop has made so far (`VfVecRestored`).
`StreamInv` quantifies over all streams that agree with a piece, so that it is
not itself checked by TLC.

For the array, `RangeInv` says that what a thread has been given, from the
moment it has moved the count, is below the count, is in no other thread's hand
and has the thread as its owner.  `MemoryInv` says what a thread that is on its
way through the table knows: the extents it has passed have memory, and no two
extents share any.  When it has passed the last one, its range is backed, and
what is backed stays so until `destroy`.  That the contents are kept follows
from both: nobody else writes in the range, and its memory stays where it is
(`Immovable`, which is proved of the steps alone).  `CapacityInv` is about what
the capacity stands for: an extent with memory is below it, unless a thread
that needs the extent is still on its way to raise the capacity.  No thread is
when the array is destroyed, so that nothing is left behind.  `Foreseen` is the
converse: of what is below the capacity, or the count, and has no memory, some
thread is on its way to make it.  It needs the count, as a thread that raises
the capacity has passed the extents from its first to its last only: a call
begins no higher than the count, so that what is below its first extent was
counted before it.

For the buffer, `InOrder` says more than `Queue`: what has left are the first
bytes, each byte of the window is numbered by its distance from them or a NUL
where one was cut, and a reader has no more than its file.  Of the formats and
their texts nothing is assumed, only that a buffer that grows has the room it
grew for (`Growing`).  `FormatReturned` has a case for each attempt of
`mu_buf_write_format`.  That no byte is cut at all, as long as texts are shorter
than twice their formats, is `ShortTextsWhole`.  There is a lemma for each part
of a call: `Compact`, `Grown`, `Enter` and `Leave` keep the window's bytes in
their places, and a check that lets a call go on has the room or the bytes it
has asked for, even if it has compacted, grown or gone to the file.  `Refusals`
and `Delivered` follow from the same lemmas.

What is only model-checked, and why.

* Liveness: out of the prover's reach, as is fairness.
* `CopyReadable` of `SvgPipe` says that the reader can go on, by `ENABLED`, which
  is out of the prover's reach; that it is not aborted is `CopyGoesOn`.

The assumptions on constants are named (`WorkersAssumption` and so on) beside
their declarations; TLC evaluates them in every run.

## Where the code does otherwise

Three runs end in a violation.

1. `mumule_phantom`: a worker loads `queued`, then `processing`.  If others have
   moved `processing` past its copy in between, the two differ, and it claims
   an item that was not submitted (`mumule.h:157`).
2. `svgpipe_bare`: `<g/>` is written for an element with nothing in it, and
   read as an element of the name `g/`, which there is none of (`musvg.c:747`).
3. `values_transforms`: from the second transform of a text on, the matrix is
   cleared before it is multiplied (`musvg.c:1503`).

Others were met while modelling.  They have no run of their own; the models
contain them, and where a constant makes them visible it is named.

* A worker of a running pool that looks between two stores of `mule_reset`, or has
  an old copy of a counter, claims an item again and moves the counters that have
  just been cleared (`mumule.h:299`, "to clear counters").  With `LiveOps =
  {"reset"}` TLC finds `ResetClears` violated, by a single worker.  Nothing in the
  repository calls it.
* An allocation of no elements from an empty array has `-1` for its last index
  and overruns the table (`muvec.c:64`; `Counts`).  `AttrStore` ends there
  (`AllocFault`), as a list of no points in the binary form makes it happen.
* A formatted text that just fits a buffer loses its last byte to the NUL of
  `vsnprintf` (`mubuf.h:704`; `cut`): the test for a second attempt is `>`, and
  the second attempt has no test.  A closing tag (`musvg.c:2680`) may be longer
  than the room its format asks for, so this may happen to a document, and the
  XML reader ends at the NUL (`musvg.c:795`).  The round trips of `SvgPipe` and
  `AttrStore` are for files in which it has not.
* Closing an element at level 256 stores past `node_stack`, onto `node_depth`
  (`musvg.c:1899`).  With `FullDepth = TRUE` TLC finds `TreeSpec` violated.
* A second outermost element becomes a child of the first, whose children are
  lost (`musvg.c:1883`; `ManyRoots`).
* A binary document on standard input is read with a byte too many, and the
  program aborts (`musvg.c:3131`; `Stdin`).
* `compare_exchange_weak` that fails for no reason leaves an extent without
  memory (`muvec.c:39`; `SpuriousFail`).  It does not on x86.
* `musvg_attr_value_get` allocates the attribute it is asked for
  (`musvg.c:3209`; `AttrValueGet`).
* A buffered writer may leave bytes behind when it is destroyed and its file
  takes only part of them, or none: `mu_buf_destroy` calls `sync` once and does
  not look at the result (`mubuf.h:508`).  `Delivered` is about regular files,
  which take all; of pipes and files that fail no property says this.
* A denormal double written as an ASN.1 real loses its exponent
  (`mubuf.cc:842`; `Exact`).  The lower bit of an identifier's class is not
  kept (`mubuf.cc:115`; `Kept`).
* The octets of minus zero and NaN are exchanged with respect to the comment
  above them (`mubuf.cc:741`, `mubuf.cc:788`).
* `mu_ieee754_f64_read_vec` and `_write_vec` report an error after every
  transfer but an empty one (`mubuf.cc:2159`; `IeeeVecRead`).
* `mubuf.h:222` declares functions for doubles with pointers to `float`.
* The tokenizer knows no comments: a `>` in one ends it, and what follows is
  content or a tag again (`musvg.c:786`; `Tags`).  An attribute without a value
  ends the program (`AttrCall`), and one with 128 before it in its tag is
  stored past the table of terminators (`musvg.c:771`; not reached).
* `musvg_parse_svg_xml` writes the NUL behind the original, which has no room
  for it, and reads a copy without one (`musvg.c:2850`; `Garbage`).
* An empty `transform` leaves its value uninitialised, and so does a path that
  begins with a number with the number of its arguments; samples have neither.
  A number after `Z` or after an unknown letter is a division by zero
  (`musvg.c:1786`; `ParseFault`).
* A `url(#...)` without its parenthesis is read on, and the name of one of 122
  characters or more overruns the writer's `str[128]` (`Defined`).
* `preserveAspectRatio` takes `yMid`, where SVG has `YMid`; and the crop of
  `none` is stored as the number of another enumeration, beyond its own
  (`musvg.c:1630`; `ParseAlign`, `ParseCrop`).
* `rgb()` with a number missing is a colour wider than 24 bits, written with as
  many digits and read back as black; a path that is closed twice in a row is
  written as closed once; an id of 128 characters or more in a binary document
  ends the program (`Kept` of `AttrStore`).
* Reads are made inside `assert`: a build with `NDEBUG` reads nothing
  (`musvg.c:1996`).
* More than 1024 coordinates of a polygon that lie in one extent are written as
  IEEE 754 in one call, which is longer than a writer's buffer of 4096 bytes and
  is refused; the assertion around it fails (`musvg.c:2257`, `Refusals`).

## What is not modelled

* Fractions, exponents, and numbers of more than nine digits: values have whole
  numbers, for which the roundings are exact.
* The whole of the tables: some attributes of each type, some colours, and the
  angles with whole functions.
* The cut of a long name or value in a style list (`musvg.c:2574`), and a style
  within a style.
* A cut of a file inside a symbol: half a name is another name, and half a value
  of the binary form ends the program by an assertion (`musvg.c:1996`).
* Reads of one byte behind a text without a NUL, other than that of `Garbage`.
* A pointer that dangles because the storage has grown (`musvg.c:1961`): records
  are addressed by their offsets, as the code does between calls.  Inside a
  call no model keeps a pointer.
* The array that `USE_MUVEC` replaces, which is compiled out.
* Hashing: a pure function of each node, made by one thread.  The pool's work
  function is never submitted.  BLAKE3 and SHA-2 are vendored.
* Statistics, dump, text emitter, logging and the tool's options: they print.
* Memory orders weaker than sequential consistency: the array's relaxed calls
  are made by one thread, and are modelled so.

## Plan

Done: pool and array, graph and its round trip, buffer, codecs, the tokens of
XML, the values of attributes and where they are kept; the theorems about the
pool, the graph and its refinement, the round trip of documents, the values,
their storage and their round trip, the codecs, the array and the buffer.  Next:
statistics and dump, of which nothing is modelled yet but the visit they use.
