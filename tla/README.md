# A formal model of the MBO to MBP-10 converter

The program reads a Databento stream of single-order messages (MBO), rebuilds
every order book, and writes the aggregate view of the ten best levels
(MBP-10) as DBN or Parquet. It is one thread in one process, run to the end or
to the first error ("there is no silent repair mode", `DESIGN.md`). What makes
it hard is therefore not threads but long sequences: state that is adjusted
incrementally and never recomputed, events of many instruments that overlap in
one queue, flags that stand for what happened several messages ago, and a
conversion that may die at any point or run beside another one.

Paths below are those of the repository (`src/converter.cpp`, ...).

## 1. The system

| Component | State | Operations | Interacts with |
|---|---|---|---|
| Order book (`src/converter.cpp`, `BookState`) | `orders` by id, aggregate `bids` and `asks` | Clear, Add, Cancel, Modify; each returns the shallowest visible depth it changed | called by Process |
| Event assembler (`Converter::Impl::Process`, `Finish`) | per book: candidate, snapshot source, four flags; `finished_` | one call per record, one at the end | applies to a book, fills the queue |
| Output queue (`BufferOutput`, `CompleteEvent`, `FlushReady`) | one deque for all books; per book, pointers into it | buffer a record, complete an event, pop the ready prefix | hands records to the sink |
| Input validator (`src/input_validator.cpp`) | the prelude so far, two counters; two buffers around the decompressor | detect the format, read, decompress, Consume a chunk, Finish | a pass over the whole input before the conversion |
| File conversion (`src/file_converter.cpp`) | output file, temporary file | check, name, open, convert, close, rename | owns all of the above; shares a directory with other processes |
| Parquet writer (`src/parquet_writer.cpp`) | rows of a row group, a builder per column, the file | Append, Flush, Close, and Close again in the destructor | a sink; writes the temporary file |
| Comparison tools (`tools/*.py`) | two cursors | compare | read an official file and a published one |
| Command line (`src/main.cpp`) | none | parse options, call ConvertFile | |

Where each is hard, and what makes it correct:

* **Order book.** A level is adjusted in place on about ten paths. It is
  correct if the levels are at all times what the resting orders add up to, if
  the checks called internal cannot fail on any input, if a quantity beyond
  uint32 is refused and never wrapped, and if the returned depth bounds the
  change, also when an order moves across the edge of the visible levels.
* **Event assembler.** Changes are coalesced until F_LAST. It is correct if
  no change is lost (the newest record of a closed book shows the book), if
  depth and side say what the event touched, if source and F_LAST are the right
  ones, and if snapshots and sequence-zero resets, which throw candidates away
  on the strength of a flag, never throw away more than they may.
* **Output queue.** Pointers into a deque that is popped while other books
  still hold theirs. It is correct if pointers stay exact, order is kept,
  nothing is lost or repeated, nothing deliverable waits, and nothing of an open
  event leaves.
* **Input validator.** Any field of the stream may be cut by the end of a chunk,
  a chunk by the end of a buffer, and the file by the end of a frame. It is
  correct if the verdict is that of a definition of a DBN stream in one piece,
  if a compressed file is accepted only when it is whole and refused only for
  what is wrong with it, and if it always comes to an end.
* **Parquet writer.** A row goes through three places, any call on the way may
  throw, and after a throw the destructor tries once more with what is left
  in them. It is correct if no row is lost, repeated or moved, in any column,
  on any of these ways, and if no file that is published is incomplete.
* **Comparison.** The two files are cut into batches at different rows. It is
  correct if it says "OK" exactly for equal files.
* **File conversion.** Failures, kills and other processes at every step, and
  temporary names that are looked for but not reserved. It is correct if the
  output path never holds a part of a conversion, if each process writes and
  publishes its own file only, and if a failure leaves no file behind that could
  be removed.

`PROJECT.json` lists the hazards one by one, each at its line, with the
properties that guard against it.

## 2. The modules

```
BookTypes ── RestingOrders (abstract)
    │              ▲ implemented by
BookOps ─────── OrderBook ─── OrderBookProofs        BookOpsProofs: lemmas
    │              └── MCOrderBook                   on BookOps, for both
    │      OutputQueue ─── OutputQueueProofs
    │          │ INSTANCE          │ INSTANCE
    ├────── Converter ───── ConverterProofs          (also over BookOpsProofs)
    │          │                   └── ConverterHistoryProofs
    │          └── ConverterHistory ── MCConverter
Framing
    └── Validation ─── ValidationProofs              (of both)
ParquetWriter
    └── RoundTrip ─── RoundTripProofs                (of all three)
             └── INSTANCE CompareParquet
FileConversion ─── FileConversionProofs
    └── MCFileConversion
```

**BookTypes** has the values: orders, levels, messages, and what the orders at a
price add up to. A size is counted in lots (`Lots`, a set of pairs), so that
the total is a cardinality: a sum needs no recursion and can be proved about.

**BookOps** is `ApplyAdd`, `ApplyCancel`, `ApplyModify`, `AddToLevel`,
`RemoveFromLevel`, `SetLevelSize`, `VisibleDepth` and the projection, as
operators on a book. `Accepted` gathers the checks a message can fail and
`Sound` the ones called internal; both come before `Applied`, which is what the
operation leaves. In the code some checks come after a first assignment. That
is not visible: whatever throws ends the conversion, and the converter is a
local of `ConvertRecords`, so nobody sees the book again. `NoDepth` (= `Depth`)
is `std::nullopt`.

**OrderBook** runs one book under any sequence of messages, well formed or not.
**RestingOrders** is what it promises: a book that keeps the orders only, works
its levels out from them each time it shows them, and refuses a message for
what the message says and for nothing else.

**OutputQueue** is the deque. A pointer is a position, which moves down when
records before it are popped; `emitted` is what the last step gave to the sink.
`BufferAndComplete` is the last part of Process for a message with F_LAST:
BufferOutput, CompleteEvent and FlushReady in one call.

**Converter** has one action per way through Process and Finish:

| Action | Code |
|---|---|
| `SnapshotRecord`, `EventRecord` | a message without F_LAST, inside a snapshot or an ordinary event |
| `SnapshotBoundary`, `EventBoundary` | a message with F_LAST |
| `Reject` | a check of the message or of its book fails |
| `LimitExceeded` | `max_buffered_output_records` is reached |
| `Finish`, `FinishIncomplete` | the end of the input, and the end inside an event |

`Entered` is ValidateSnapshotTransition together with the reset flag,
`Tracked` is TrackBookUpdate, `Received` the switch over the action, `Outputs`
the records a message makes, `SnapshotClosed` and `EventClosed` the resets
at the boundary. The queue is an instance of OutputQueue, so the queue that is
proved about is the one the converter uses. Only the order of bookkeeping
within one call is abstracted: a call is a step. `emitted` is empty after a
step that throws.

**ConverterHistory** adds four history variables for the properties: what a
reader of the output knows of each book (`shown`, `quiet`) and what its event
has done (`lastChange`, `touched`). They read the converter and never guard it.

**Framing** is `DbnFramingValidator`: each turn of the loop in Consume is a step
(`Scan`), and the chunks are of any size and content. The prefix takes one byte
and the metadata length two, the low one first, where the code has four each.

**Validation** is the rest of `input_validator.cpp`, over Framing: `Detect` for
the first bytes, `ReadRaw` and `FinishRaw` for ValidateRaw, and for ValidateZstd
one action for each thing a turn of its loop can see: `ReadZstd` fills the input
buffer, `Decode` and `Flush` are a call that decodes a piece of the input or
gives out what the last call could not, `Corrupt` and `NoProgress` the errors,
`Incomplete` and `FinishZstd` the end. The decompressor is external, and
modelled by its contract: a file is a sequence of pieces, a piece decodes to
some bytes and may end a frame; what does not fit into the output buffer is
held; the call returns 0 only when a frame is decoded *and* flushed, and until
then keeps the end of the frame in the input (`hostage`), which is what keeps
the loop going.

**ParquetWriter** is Mbp10ParquetWriter as ConvertFile uses it, from the
constructor to the removal or the rename of its file. Row k is the number k.
`Flushed` is a Flush that succeeds, and `FlushFails` one that does not, with
what each of its four parts leaves in the builders (`ReserveFails`,
`AppendUnsafeFails`, `FinishColumnFails`, `WriteFails`). `late` is the set of
records whose timestamp int64 cannot hold. After a failed write what the file
holds is unknown (`torn`). `Destroy` is `~Impl`, which closes once more.

**CompareParquet** is the loop of `tools/compare_parquet.py`: two cursors, each a
batch and an offset, over batches of any size. **RoundTrip** composes the two:
what the writer has published is compared with official files.

**FileConversion** is ConvertFile run by several processes on one output path.
A step is what the code does between two calls that another process can get
between. Each check of the input and each call that may fail is a choice
(`Refuse`, `Fail`), `Unwind` is the destructor `~TemporaryOutput`, which may fail
to remove the file and does not say so, and `Crash` is a kill, which runs no
destructor. Any process may read any clock value at any time and find a name
free that another has chosen but not created yet. What then happens is what
POSIX does with files that somebody has open: `Open` truncates what another is
writing, `Commit` renames whatever is at its path, and a file renamed or removed
under its writer is from then on the output, or has no name (`at`, `TakesAway`).
Two history variables record what happened: `abandoned` counts the kills and
the failed removals, and `differed` says whether every clock value, when it was
read, was not `Pending`, which is that of a conversion whose file is not there
yet. No guard reads `differed`; the two properties that need it have it as
their premise. A file that is closed by a destructor, as the DBN files are, may
lack its end without anybody knowing (`short`); a Parquet file may not.

The MC modules hold the message sets, bounds and symmetries. Operators under a
comment "Mutant" are deliberately wrong variants of the definition that follows
them. No action uses them; `PROJECT.json` pairs each with the property that
must fail when it takes the definition's place, so that every property is
known to notice a plausible bug.

### What the modules abstract

* The statistics counters, the wording of errors, timestamps and the fields of
  a record that are only copied: `source` is the message they are copied from.
* Prices and sizes are small integers; `MaxU32` is the largest uint32 and
  `kUndefOrderSize`, as in the code. A size and a count have its width.
* The Clear messages among the inputs of the runs have side None, as DBN says.
  The model itself takes any side, as the code does, which does not check it:
  after a Clear that named one, the quote would claim that side alone though
  both were emptied. `QuoteDepthSound` depends on it, and the theorem says so.
* Of the columns of a Parquet file only their number counts, not their types;
  the metadata of the schema is left out. A batch takes of each column as many
  values as it has rows, which is what Arrow does with a longer column.
* An official file counts by where it says what the converter was given.
* The temporary and the output file are in one directory of a POSIX file system,
  where rename is one step and only the program touches the temporary names.
  Every process converts to the same output path, so all have its format.
* `MakeTemporaryPath` tries the names of a clock value in one step. Another
  process might get in between two attempts, and free a name that was found taken;
  the proofs use of the name that is chosen only that it is free when it is found.

## 3. The runs

Deadlock is not checked where the system really stops, after an error, the end
of the input, or a finished conversion; it is checked for `OutputQueue`, which
never stops.

**Fairness.** Only `Validation` assumes any: `WF_vvars(Work)`. One thread reads
one regular file and waits for nobody, so while there is something to do it is
done. `Work` leaves out `ReadError`: that reading fails is never relied on. In
the model the end of a file is a step like any other, so what fairness brings
about is an answer, and `NoProgress` is what keeps a call that does nothing from
being repeated for ever. The converter assumes none. It makes progress only if
there is another record, and the model lets the input end or fail wherever it
may. Its liveness property, `ClosedEventsDeliver`, is a statement about the
input instead: if every event that is opened is closed at some time, then
everything buffered is delivered. It holds without fairness, since delivery is
part of the call that closes an event.

| Run | Question | Bounds, and why they are enough |
|---|---|---|
| `OrderBook` | `AggregatesMatch`, `NoInternalError`, `DepthSound`, and the refinement `ImplementsRestingOrders` | 3 orders, 3 prices, 2 visible levels, uint32 of two bits, every well-formed message and each kind of malformed one. Three orders at one price make a level that outlives a removal; three prices put one out of sight; sizes up to 2 reach and pass the width. Orders are symmetric. |
| `OutputQueue` | `PendingExact`, `FrontIsOpen`, `DrainedWhenClosed`, `FifoDelivery`, `OpenStaysQueued`, `ClosedEventsDeliver` | 3 books, 2 records, 4 entries: an open event can hold up two that are complete, and a pop moves pointers of two other books. No symmetry, because of the liveness property. |
| `Coalescing` | `QuoteDepthSound`, `QuoteImpactExact` | 1 book, 3 orders, 3 prices of which two are visible: one bid moves between all three, so that changes are coalesced in sight, out of sight and across the edge, on either side, with trades and clears between. |
| `Snapshots` | `SnapshotExclusive`, `ResetPristine`, `ClosedIsClean`, `QuoteCurrent`, `QuoteSource`, `LastFlagExact` | 1 book, 2 orders, 2 prices of which one is visible, so that changes happen out of sight; all flags that matter, snapshots whole, empty, cut off, interrupted, after a reset and without one. |
| `Interleaving` | `NoInternalError`, `HeadIsOpen`, `DeliveryInOrder` | 2 books, a queue of 3: the limit is reached, and an event is overtaken by a later one. |
| `Framing` | `VerdictExact`, `CountersExact`, `RefusalFinal` | Every input of up to 9 bytes over 4 byte values and every way to cut it into chunks of up to 3. Records of 2 or 4 bytes, metadata of up to 15, of which 6 can follow, so that the second byte of the length counts: a chunk can end in the prelude, the metadata or a record, and can hold the end of one and the start of the next. A first byte can be too small, exact at either limit, or too large. |
| `Validation` | `AcceptedWhole`, `RefusedForCause`, `Terminates` | Raw inputs of up to 9 bytes; every compressed file of up to 3 pieces of up to 3 bytes, with a buffer of one byte for the output and two pieces for the input: a piece needs up to three calls, a frame can end inside and at the end of a read, a second frame can follow, and the file can end after any piece. Records have 2 bytes and metadata up to 8, of which 6 can follow: every way to be cut is in `Framing`. |
| `RoundTrip` | `InFlightExact`, `FileExact`, `ComparisonExact` | Row groups of 2, 2 columns, 5 rows: no group, one, two, and each with a rest; any rows late; any call failing and the destructor's second try. The official file may differ in any cells and have a row more or fewer; batches of up to 3 rows, cut in every way in either file. |
| `FileConversion` | `OutputWhole`, `NoLeftovers`, `OwnFileOnly` | 3 processes, two with `--force`, 2 clock values, 2 attempts per name, 2 kills or failed removals, with and without an output to begin with: all three convert at once, under three names or under one; a leftover occupies a name that a later run tries, and two use up all attempts of a clock value. The two processes with `--force` and the clock values are symmetric. |

What bounds a run is always a constant of the module: `MaxBuffered` (which is
the code's own option), `InputLimit`, `MaxAbandoned`, and the set `Messages`.
The order book and the converter need no further bound: their state is finite
for finitely many orders.

Each property is about several steps. `QuoteCurrent`, for example, says that
between events a reader of the output knows each book: no combination of
invisible changes, trades in the middle of an event, coalescing and snapshots
loses one. `VerdictExact` compares the incremental validator with a definition
of a DBN stream in one piece, and `ImplementsRestingOrders` compares the
incremental book with one that recomputes everything. `FileExact` is about the
file that the destructor makes *after* an error: it may be given a footer and
look complete, so it must not hold a row twice. `OwnFileOnly` is about names that
nothing reserves between the look at the directory and the creation of the file.
Its premise is as weak as the code allows: a clock value may serve again, while
the conversion that read it first is still running, once that one's file is
there, and then it is the look at the directory that keeps the two apart.
Without the premise both it and `OutputWhole` are false: of two processes that
take one name, the first to finish publishes what the second has just truncated.
`NoLeftovers` needs no premise.

### Where the code differs from what is said of it

Three runs are expected to end in a violation; each checks one sentence.

* `SnapshotNone`. The error text at `src/converter.cpp:486` says a snapshot may
  contain "only R, A, and final N records". An N that carries F_SNAPSHOT is
  accepted anywhere in a snapshot, and an R nowhere in it.
* `SuppressedReset`. `DESIGN.md` says a sequence-zero reset that nothing
  follows is "an empty initialization marker and is safely suppressed at EOF".
  The code does not ask whether the book had been published: after a reset in
  mid-stream at the end of the input the last record still shows levels.
* `TwoWriters`. `file_converter.hpp` says existing output "is never replaced
  unless this is explicitly enabled". The output is looked for before the
  conversion and renamed over after it, so a file that appears in between is
  replaced.

## 4. The proofs

Every invariant and every action property of the passing runs, and each of the
refinements, is a theorem. They hold for every value of the constants that meets
the named assumptions: finite sets of ids and prices, `MaxU32 > 1`, `Depth > 0`,
messages whose fields have their types, sentinels that are not ordinary values,
a positive limit of the queue, record lengths, chunks and a unit of the metadata
length of at least one byte, an output buffer that the validator takes as one
chunk, at least one attempt per name, a row group of at least one row (which the
constructor checks), a batch of at least one row, at least one column, and files
whose content is no longer than the inputs of the model, of any bound. They are
all the assumptions there are. Three theorems have a premise besides:
`QuoteDepthIsSound` that no Clear names a side, and `OutputIsWhole` and
`FilesAreOwn` that no clock value read was `Pending`.

**BookOpsProofs** has no theorem of its own. It says that an operation leaves a
book whose levels are the aggregates of its orders, if they were so before, and
that the checks called internal pass. An operation changes one order. The
number and the size at a price are those without that order plus its own share
(`CountSplit`, `SizeSplit`), so what an operation does to a level is arithmetic
on shares: an order is placed (`PlacedKeeps`), removed (`RemovalKeeps`) or
resized (`ResizedKeeps`), and every path of Add, Cancel and Modify is one of the
three or a removal followed by a placement (`OperationKeeps`). Its second part is
about what is visible. A level is projected to the depth that is the number of
better levels; whatever leaves the better levels alone leaves the projection
alone there, so the depth that an operation reports bounds what it changes
(`ReportedBounds`), also when an order moves from one price to another.

**OrderBookProofs**: `TypeCorrect`, `LevelsAreAggregates`, `InternalChecksHold`,
`DepthIsSound` and the refinement `IncrementalBookIsExact`. The inductive
invariant is `Inv`: the type invariant, `AggregatesMatch` and `NoInternalError`.
For the refinement the abstract book is the orders of the detailed one. Three
facts make a step of one a step of the other: the levels show what the orders add
up to (`LadderIs`), an operation does to the orders what the abstract one does, and
the checks of a message, which read the levels, amount to the abstract checks,
which read the orders. For the last, `Inv` is not enough and `SizedInv` adds that
every resting order has a lot at least: a level then counts no more orders than
lots (`CountAtMostSize`), so that the code's check that a count stays in a uint32
refuses nothing that the check of the size does not refuse.

**OutputQueueProofs**: `TypeCorrect`, `PointersExact`, `NothingDeliverableWaits`,
`QueueDrains`, `DeliveryIsFifo`, `OpenEventsWait`. The inductive invariant is
`QInv`: the type invariant, `PendingExact` and `FrontIsOpen`. `PendingExact` is
needed for all the rest: it says that what is unready has exactly one owner who
will make it ready, so completing an event makes ready what it must and no more.
The two action properties follow from `QInv` and the step: appending and making
ready keep what `Delivered` sees, and popping splits a sequence in two. The
lemmas of its last part say of a call what is new in the stream, which is what is
delivered followed by what waits; ConverterHistoryProofs uses them.

**ConverterProofs**: `TypeCorrect`, `SnapshotsAreExclusive`, `ResetsArePristine`,
`BoundariesAreClean`, `HeadsAreOpen`, `NeverInternal`, `DeliveredInOrder`, and the
refinement `ConverterImplementsQueue` with `OpenEventsStayQueued`. The inductive invariant `CInv` is the
queue's `QInv` and, of each book, `BookOk`: its levels are aggregates, and
`SnapshotOk`, `ResetOk` and `ClosedOk` say what its three flags exclude. They are
inductive only together. A snapshot may begin in an open event only if that is a
lone reset, so what it finds is what `ResetOk` says of one; that the reset's
candidate may be dropped needs `ClosedOk`, by which a reset that opens an event
found nothing before it; and that an F_LAST leaves nothing behind needs
`SnapshotOk`, since a snapshot's boundary resets no candidate. What a call makes
of a book depends on that book and on whether records of its wait, so all of it
is proved of a single book (`ReceivedKeeps`, `SnapshotCloses`, `EventCloses`)
before any state is mentioned. The queue in the converter is the queue of
OutputQueue (`SameQueue`), so its lemmas carry over by instantiation: `HeadsAreOpen`
joins them, by which the front of the queue has an owner, with `ClosedOk`, by which
the owner's event is open; `NeverInternal` joins them with the checks of Finish,
which leave no book with a record that waits. The refinement says that
OutputQueue leaves out nothing the converter does to the queue: a call makes a
batch of at most a trade and a quote (`OutputsAreBatches`), and one that throws is
a FlushReady that finds nothing ready, which needs `FrontIsOpen`. So what a step of
the queue never does, a step of the converter never does either: it delivers
nothing of an event that stays open.

**ConverterHistoryProofs**: `QuotesAreCurrent`, `QuoteDepthIsSound`,
`QuoteImpactIsExact`, `QuoteSourceIsNewest` and `LastFlagsAreExact`. The memory
changes nothing by the form of `HNext`, each part of which is an action of the
converter and an assignment to each variable of the memory. The inductive invariant `HInv` is `CInv`, what F_LAST says of each record that waits
(`StreamOk`) and, of each book, `Known`. This relates the candidate, which is all
that the code keeps of an event, to the memory, which is all that happened in it:
outside a snapshot, the levels differ from what the reader was last shown no
shallower than at the candidate's depth, and not at all if there is no candidate
or only one that a trade has reset (`Bounds`); the candidate's depth and sides are
those of the shallowest spots touched (`Touching`); its source is the newest
change. `Bounds` is inductive because of `ReportedBounds`, and because
TrackBookUpdate keeps the shallower depth and, at the same depth, both sides.
Again the first part has no state but one book and one message. `QuoteDepthIsSound`
is about messages of which no Clear names a side (`SidelessClears`; section 2 says
why). The others hold for Clears of any side.

**ValidationProofs**: of Framing, `TypeCorrect`, `ExactlyStreamsAreValid`,
`CountersAreExact`, `RefusalsAreFinal`, for inputs of any length. What a DBN
stream is has a definition by its cuts, a set of positions, so the induction over
the input is that of the steps. The inductive invariant `FInv` says of the end of
the record at hand, which may lie ahead of what is read, that the input is framed
up to it (`FramedTo`), and that it is forced: every framing of every continuation
has a cut there (`Forced`). The first makes accepted inputs streams; the second
is needed for the other direction, that nothing refused or cut off could have been
framed otherwise. Of the reader, `ReaderImplementsFraming`, a refinement: what it
hands to the validator, from whatever file, are inputs the validator's
specification has, so all that is proved of that holds in it. `ReaderTypeCorrect`,
`AcceptedIsWhole` and `RefusedForACause` rest on `RInv`, whose heart is
`LeftBehind`: `remaining`, which the code has from its *last* call of the
decompressor, is false exactly when the piece taken last ends a frame and nothing
of it is held back. That is what the code's check for an incomplete frame stands
for, and it is inductive only with what `hostage` means.

**RoundTripProofs**: of the writer, `TypeCorrect`, `NothingLostInFlight`,
`FinishedFilesExact`. The inductive invariant is `PInv`. Its heart is `Split`: at
all times, after failures too, the row groups hold the first records and `rows`
the others. `FileExact` is not inductive because it says nothing of the state
between a failure and the destructor. `Retriable` does: if no row is late, then
each builder holds nothing or exactly the rows, so that the first `Len(rows)`
values of what a second Flush makes are the rows in either case
(`BatchIsRows`); and if a row is late, it still is among the rows, so that the
second Flush throws as the first one did. `FlushedIs` and `FlushFailsIs` say so of
one Flush, and each step is one or none. `NextMultiple` is why row groups end at
multiples of their size. Of the comparison, `ComparisonIsExact`, for files of any
length and batches cut anywhere. While it runs, either cursor stands at row
`compared_rows` of its file, inside a batch or past the end (`IsCursor`), and the
files agree in every column up to it (`Underway`). A turn compares what both
batches have left in common, so either all of that agrees, or the least row that
does not is the first difference of the files, or one file has ended.

**FileConversionProofs**: `TypeCorrect`, `OutputIsWhole`, `FilesAreOwn`,
`FewAreLeft`. The inductive invariant `FInv` is the type invariant and `Clean`:
`OutputWhole`, `OwnFileOnly` and, as long as the clock values read have differed,
that two running processes have different temporary paths. The last is what
makes a step of one process leave the file of another alone (`OthersKeep`). It is
kept when a name is chosen (`NamingKeeps`): had a running process that name, then
its file would be there, and the name not free, or it would not, and the clock
value be `Pending`. `LInv` is independent of the clocks: the files nobody
will remove are finite in number and no more than `abandoned`, since every other
step that ends a process removes or renames the file at its path, whoever
wrote it.

**Only model-checked** are the two liveness properties. `Terminates` is liveness
under fairness, which is out of the prover's reach, as is ENABLED.
`ClosedEventsDeliver` assumes no fairness, but its hypothesis is about all books:
from "each book is closed again and again" one must come to a point at which all
the books that hold up the front have been closed since, and the temporal prover
neither exchanges a quantifier with `[]` nor instantiates one under it. The three
violations are TLC's as well: a counterexample needs no proof.

## 5. Not modelled

* **`tools/compare_dbn.py`** walks two iterators in step, and the checks of schema
  and metadata in `compare_parquet.py` keep no state.
* **Command line**: parses options, calls ConvertFile, prints; no state.
* **Metadata**: `MetadataJson`, `SchemaMetadata` and `OutputMetadata` format and
  copy fields.
* **The Databento, Arrow and Zstandard libraries** are external. Where the model
  needs them, they may fail at any call, and the decompressor is modelled by
  its contract.
* **Other callers of the classes.** Converter and Mbp10ParquetWriter can be used
  without ConvertFile. A caller who goes on appending after a failed Append
  gets past `rows_.size() == row_group_size_` and holds more rows than a row group
  (`src/parquet_writer.cpp:275`); one who goes on after the sink has thrown gets a
  record twice. ConvertFile stops at the first error, and so do the models.
* That the input may be replaced between the validation and the conversion is
  listed as a hazard without a property.
* **That clocks differ.** Nothing in the code makes the clock values of two
  processes differ; it is a premise of the theorems, not a result.

## 6. Plan

The order is that of importance: the book decides what is written, the event
assembler when, the queue in which order, then the files around it.

1. Order book, abstract book, refinement, proofs of the invariants (done).
2. Output queue, its proofs and its liveness (done).
3. Event assembler over both, with history variables, and the proofs that its
   events never mix and that the queue's theorems carry over (done).
4. Framing validator and its proofs; the validation of raw and compressed files
   (done, model-checked); file conversion and its proofs (done).
5. Parquet writer, its proofs, and the comparison of what it publishes (done).
6. Proofs of the refinements, of ConverterHistory, Validation and RoundTrip
   (done): every invariant and action property of a passing run is a theorem.
7. What remains: the hazards without a property. The input that is replaced
   between validation and conversion needs a second writer of the input.
