# A TLA+ development of polliwog

polliwog is a C++ compression library: one interface, chosen by a format enum,
over zlib and zstd. This directory models its one-shot and streaming layers, its
two backends and the ownership of their state, checks them with TLC on small
instances, and proves with TLAPS, for every value of the constants, the safety
of the two streaming classes, of the two joined end to end, of the one-shot
functions and of the ownership.

## Inventory

The library has no threads, no I/O and no persistent state. What is hard in it
is the *protocol*: stateful handles that are driven by a caller in any order,
through spans of any size, over engines that buffer, fill their output in the
middle of anything, and report with counts and return codes.

| part | source | state | operations | what makes it correct |
|---|---|---|---|---|
| streaming compressor | `src/src/stream.cpp` | pimpl with a variant of handles | construct, push, flush, finish, destroy, move | the reports add up to the engine's stream; flush makes everything accepted decodable; finish ends the stream; a missing backend is an error |
| streaming decompressor | `src/src/stream.cpp` | pimpl with a variant of handles | construct, push, destroy, move | what it produces is the content of what it consumed; done exactly at the end of the stream; extra data is refused |
| zlib backend | `src/src/detail/zlib.cpp` | a `z_stream` per handle | push, push_more, flush, finish, bound; move | engine return codes become the right error or progress; sizes fit; the bound is a bound |
| zstd backend | `src/src/detail/zstd.cpp` | a context per handle | push, push_more, flush, finish, bound; move | as above, over frames |
| one-shot layer | `src/src/squeeze.cpp` | none | bound, squeeze, swell | swell(squeeze(x)) = x; errors have the documented names |
| formats, levels, errors | `src/include/polliwog/*.hpp`, `src/include/detail/backend.hpp` | none | tables | one vocabulary for every module |
| ownership | `src/src/detail/*.cpp`, `src/src/stream.cpp` | pointers to engine state | construct, move, assign, destroy | a state lives as long as its one owner |
| chunk loops | `src/test/unit/stream_test.cpp` | the callers' cursors | loops over push, flush, finish | they end, with the original on the other side |
| brood | `src/include/polliwog/brood.hpp` | | | a design note: no code |

How the parts interact: `squeeze` and `swell` make a handle of the backend for
one call of its `push`. `compressor` and `decompressor` keep a handle in a
variant and dispatch through `push_visitor`, `flush_visitor`, `finish_visitor`
to `push_more`, `flush`, `finish`. The handles call zlib and zstd, which are
external and modelled from how they are called. The compressed bytes are the
only thing that links a compressor to a decompressor.

## Modules

| module | models | notes |
|---|---|---|
| `Wire` | formats, result values, the units of a compressed stream, spans | vocabulary |
| `Deflate`, `Inflate` | zlib's engine (external) | each call is the *set* of its outcomes |
| `ZstdCCtx`, `ZstdDCtx` | `ZSTD_compressStream2`, `ZSTD_decompressStream` (external) | sets of outcomes |
| `ZlibSqueezer`, `ZlibSweller` | the handles of `zlib.cpp` | one operator per method |
| `ZstdSqueezer`, `ZstdSweller`, `ZstdOneShot` | the handles of `zstd.cpp`, streaming and one-shot | one operator per method |
| `StreamContract` | what a stream promises its two ends | abstract specification |
| `Compressor` | `polliwog::compressor` and its caller | composes the two squeezers; implements `StreamContract` |
| `Decompressor` | `polliwog::decompressor` and its caller | composes the two swellers |
| `Pipeline` | both, a wire between them, the chunk loops | composes `Compressor` and `Decompressor` by `INSTANCE`; implements `StreamContract` end to end |
| `OneShot` | `bound`, `squeeze`, `swell` and a caller | composes the one-shot pushes |
| `OwnershipContract` | who owns an engine's state | abstract specification |
| `Handles` | construction, moves, assignment, destruction of the six classes | implements `OwnershipContract` |
| `MCCompressor`, `MCDecompressor`, `MCPipeline`, `MCOneShot`, `MCHandles` | | instances for TLC |
| `WireProofs`, `DeflateProofs`, `InflateProofs` | | lemmas about units and spans, about a call of `deflate` and about one of `inflate` |
| `CompressorProofs` | | theorems about `Compressor`: what is counted, what is closed, the contract; and what it sends, for the pipeline |
| `DecompressorProofs` | | theorems about `Decompressor`; and how its invariant bears bytes that arrive later, for the pipeline |
| `PipelineProofs` | | theorems about `Pipeline`, from those of its two objects |
| `OneShotProofs`, `HandlesProofs` | | theorems about the others |

### Data

Plain text is a number of symbols. A compressed stream is a sequence of units,
each one unit of output space with a kind (header, block, sync marker, final
block, trailer, or damaged) and `upto`, how many symbols a receiver holding everything up
to it can decode. The content of a prefix is the `upto` of its last unit, so
"decodable so far", "complete" and "truncated" are facts about the stream and
not about bytes. A span has a size and a null or non-null address: zlib tells
an empty vector's span from an empty array's.

The engines keep the freedom the real ones have. A call chooses how much input
to take once the output is full, how much of what was taken to encode, how
many units to spend on it (`Spread`, at most one unit per symbol: what
incompressible input takes) and whether the end of the data is packed into the
last block. What they have no freedom in is what their documentation fixes:
with room left in the output everything is read, a flush or a finish encodes
everything, the header goes first, the trailer last, pending output before
anything else. zlib's return codes and the conditions for them (a null
`next_out`, an empty output, a repeated flush, a call after the end) are those
`zlib.cpp` distinguishes.

On the way back a call of `inflate` takes units up to the end, to damage, or to
the first unit whose symbols do not fit; that unit is taken as well (its
symbols wait in the engine), or left when none of its symbols fit.
`ZSTD_decompressStream` decodes whole blocks into a buffer of its own and
writes what fits; it hands back the last byte of a frame while output is
pending, says 0 once, in the call that takes it, waits for a next frame after
that, and fails after 16 calls in a row that moved nothing (`IdleMax`).

### Correspondence

`Compressor` has the object's state (`fmt`, `handle`) and the caller's view of
it: `accepted` and `wire` are what the calls *reported*, added up, never what
the engine did. `handle` is a record with an engine's stream or context,
`alt` being the alternative of `squeezer_variant`. `Construct` is the
constructor with its level check and throw; `push`, `flush` and `finish` are
the methods through their visitors down to the handle and the engine, one
action each; `Destroy` ends the object, and another may be constructed. A
method of a handle is an operator that gives the set of its outcomes, each the
new engine state and the `std::expected` it returns.

`Decompressor` is built the same way: `fmt` and `handle` are the object's,
`stream` is what the caller has (a whole stream, a damaged one, one followed by
a stray byte or by a second stream; of its own container or another),
`fed`, `got` and `told` what the reports add up to, `last` the last call. A push
gives the next `n` units from `fed` on, so units that were not consumed are
given again. One that is cut short is one whose rest is never pushed.

`Pipeline` holds the state of one compressor and one decompressor under other
names and takes its actions from theirs: `Push`, `Flush`, `Finish` are
`C!push`, `C!flush`, `C!finish` where the sender's loop has them, `Receive` is
`D!push` of the next bytes of the compressor's `wire`. `pc` is the sender's
place. It instantiates `CompressorProofs` and `DecompressorProofs`, which extend
the two components, so that the facts proved of them are at hand as `C!` and
`D!` (`MaxSpan` is the bound on spans they are proved for, a `size_t` in the
code). The tests run one loop after the other; here they interleave freely,
which includes the tests' order. `Pause` is a sender with nothing to send yet.
What the tests' loops take for granted is not assumed: pushes consume a part
of a chunk, and a flush or a finish that filled its span is repeated.

`Handles` has, for each variable of a program, the class of the object in it
and its pointer (`stream_`, `ctx_` or `p_`), and for each address the engine
state there. The actions are the special member functions as the classes
define them: `unique_ptr`'s defaulted moves for zlib, the written-out ones for
zstd, `unique_ptr<impl>`'s for `compressor` and `decompressor`, whose
construction goes through a temporary handle that is moved into the variant
and destroyed. `ConstructFails` is a construction whose engine gets no memory:
the code only asserts, so that a release build goes on with a z_stream without
state, which every call refuses, or with a null context. A call through a null
pointer ends the program (`answer = "fault"`) and `Restart` begins another.

`OneShot` has no program state: `buf` is the caller's compressed bytes with
the symbols they stand for, `last` the last call. `Squeeze` and `Swell` are
the two functions with all their checks in order; `Cut`, `Trail` and `Repeat`
are what happens to the bytes on the way: the end is lost, a stray byte is
added, a second stream follows. The bytes of another container are refused by
their header; only a zlib stream read as raw deflate could pass for the
beginning of a stored block, and is left out.

Operators marked `\* mutant` are plausible bugs of the definition that follows
them; each property has one that violates it, so no property holds by the
shape of the model.

## Runs

Passing:

| run | question | result |
|---|---|---|
| `compressor_zlib` | all orders of push, flush, finish on zlib, gzip, raw deflate, and on zstd when it is not compiled in; sizes that wrap 32 bits among them | nothing lost or duplicated, flush covers, finish closes, push gets somewhere, missing backends fail, `StreamContract` implemented |
| `compressor_zstd` | the same of zstd, with several frames and failing allocation | the same, without the contract (a second frame reopens the stream) |
| `decompressor` | all portions and spans, of streams of every format read as every format, sound or not | reports are what was delivered; done neither early nor missed; the end and errors are for good (zlib family); sound bytes accepted, zstd's idle limit apart; push gets somewhere |
| `pipeline` | the two chunk loops, interleaved, with tight chunks and spans | no call fails; end to end `StreamContract`; a receiver that consumed everything has what was flushed, and after the finish the whole source; both loops end with the original restored; flushed data arrives |
| `handles` | constructions, moves, assignments, calls, destructions in any order, with failing allocation | one owner for each state, no leak, `OwnershipContract` implemented; zlib handles are not assigned to |
| `oneshot` | round trips and accidents of every format, both backends | the round trip, a success of swell is exactly what the bytes it was given hold, an honest bound (all but gzip), too small an output named (zlib, gzip), trailing data refused (but a second zstd frame), truncation named (zstd, unless nothing is left of the frame) |

Each run with a violation shows one statement of the repository that the code
does not keep:

| run | statement | what the code does |
|---|---|---|
| `compressor_done` | backend.hpp: finish ends the stream | `done` is always true, also with the trailer pending |
| `pipeline_zstd_again` | zstd.cpp: let the caller call again | after an exact fill the repeat adds an empty frame, which the decompressor can refuse together with the end of the first |
| `handles_zlib_leak` | backend.hpp: the c api never leaks past this type | assignment to a zlib handle drops the old stream without deflateEnd or inflateEnd |
| `oneshot_gzip_bound` | squeeze.hpp: the bound is safe for all containers | a gzip stream does not fit it, and squeeze succeeds |
| `oneshot_truncated` | error.hpp: truncation is stream_corrupt | the zlib family swells a prefix with success |
| `oneshot_narrow` | README: the round trip, always | not for spans of 2^32 bytes and more, which are squeezed in part |

`done` being always true after a finish is also why `pipeline` finishes zstd
into a span that holds what is left (`Ample`): only there can its sender tell
that the frame has ended. The zlib family is finished into spans of one and two
units, because repeating a complete finish adds nothing.

The loop `while (coff < compressed.size())` of the tests stops as soon as all
bytes are consumed. For zlib and gzip the trailer is consumed last, after all
output, and zstd hands its last byte back, so the loop sees `done`. The last
byte of a raw deflate stream can hold symbols that do not fit the span
together with the end: the loop then stops with output pending in the engine
and without `done`. `ConsumedIsRestored` says this of the three formats and not of
raw deflate, and `pipeline` leaves raw deflate out for that reason;
`decompressor` has it, with pushes of no bytes.

Other statements the source does not keep, read off the code and not the
subject of a run: lz4_frame is compressed by the streaming compressor as zlib
(the `default` of `make_squeezer`; format.hpp: "fails at the call with
format_mismatch"), which is why `compressor_zlib` does not ask for it and
`MissingBackendsFail` has a hypothesis; a zstd frame cut to no bytes is swelled
with success, as an original of no symbols (`ZSTD_decompress` of nothing
returns 0; error.hpp: `stream_corrupt` is "truncation"), which is the exception
that `TruncationNamedByFrame` states; the constructor throws for a zlib level outside 0 to 9 (error.hpp: "nothing in
the public api throws"; a test expects the throw); `push_more` of a span whose
size is a multiple of 2^32 succeeds and does nothing (backend.hpp: "as much of
in as out can hold"), which is why `PushProgress` speaks of the sizes zlib
sees; a raw deflate swell into too small a span can succeed with a part, and
zstd names too small an output `stream_corrupt` (squeeze.hpp:
"buffer_too_small names the gap"), which is why `ShortOutputNamedByTrailer` is
about containers with a trailer; zstd clamps levels out of its range
(format.hpp: `level_unsupported`), and its one-shot sweller accepts a second
frame after the stream (squeeze.hpp: "the exact compressed stream"); its
streaming sweller refuses one in the same push and decodes it in the next;
zlib bytes swelled as zstd are `stream_corrupt` (error.hpp: `format_mismatch`);
no path produces `out_of_memory` (error.hpp lists it); and the stream of an
empty input does not swell into the span of an empty vector, whose address is
null, which is why `RoundTrip` asks for an address.

### Bounds

`compressor_zlib`: a push offers up to 4 symbols, a span has up to 5 units, and
`UINT` is 4, so that sizes 4 and 5 stand for 2^32 and a little more, and 1 to 3
for ordinary ones. The gzip header and trailer have two units, so an output can
end inside both; 3 units let one call write a header and a block, a block and
a marker, or an end and a part of a trailer. `MaxSource` limits what one
compressor accepts to 4: enough for data pending in the engine, data in flight
and data to come at the same time. `MaxFrame` stops a compressor from being
*called* once its engine has generated that many units (repeated flushes would
go on for ever); 7 units hold the longest of these streams with flushes, and
for zstd (8) more than two frames. `decompressor`: streams of up to 3 symbols
in every division into blocks, alone, damaged at any unit, or twice; pushes of
up to 4 units into up to 4, with `UINT` 3. Three symbols are one written, one
pending and one not yet read. `IdleMax` is 2 in place of 16: the count
saturates, and what matters is whether it is reached. `pipeline`: 3 symbols,
chunks of up to 2, spans of 1 and 2 units for pushes and for the receiver, of 3
for flushes: a sync flush has to be repeated into *more* room than its marker
takes, or it writes the marker again for ever (zlib's own rule, "avail_out
greater than six"), so a smaller span is a caller's mistake. `MaxFrame` 20 is
not reached there. `handles`: three variables and three addresses show a move
chain and an address used again. One-shot runs squeeze up to 3 symbols into up
to 9 units: one more than the largest frame (gzip: 8), so the bound, the real
need and spans on either side of both occur. `UINT` 16 is never reached.
Deadlock is checked in every run: an object can always be destroyed, a buffer
discarded, a pipeline closed when its loops have ended.

### Fairness

Only `Pipeline` states fairness: weak fairness of `Send`, the sender's next
push, the repetition of a flush that did not complete and the finish, and of
`Receive`, the receiver's next push while it has bytes and has not been told of
the end. Each is the next iteration of a loop in the caller's code, which
nothing but the loop's own condition stops. Beginning a flush, pausing and
resuming are the sender's choice and are not fair, so a flush in progress is
completed while none is ever promised, and a pause may last for ever:
`FlushedArrives` holds in it, `Restored` is asked only of senders that do not.
The sizes of the chunks are not constrained either: no fairness picks a lucky
size. zstd is left out of `FlushedArrives`: what its decoder holds in its own
buffer comes out with the next push, and the loop pushes only when it has
bytes.

## Proofs

`CompressorProofs` proves of the compressor, for every value of the constants,

- `TypeCorrect`: `Spec => []TypeOK`;
- `ReportsAreComplete`: `Spec => []NoLossNoDuplication`. Over every sequence of
  calls the counts reported add up to what the engine took, and the bytes the
  caller collected are exactly the engine's stream up to what it wrote;
- `FlushesCover`: `Spec => []FlushCovers`, `FinishesClose`: `Spec =>
  []FinishCloses`, `PushesProgress`: `Spec => []PushProgress`;
- `MissingBackendsFail`: `Spec => []MissingBackendFails`, if `lz4_frame` is not
  asked for or zlib is not compiled in (`NoDefaulted`): with zlib there, the
  `default` of `make_squeezer` takes it;
- `CompressorImplementsContract`: `Spec => ImplementsContract`, if no zstd handle
  is made (`ZlibFamily`): a zstd context begins a second frame after a finish,
  which reopens what the contract calls ended.

`DecompressorProofs` proves of the decompressor, for streams of any length, in
any division, damaged or followed by anything, and for spans of any size,

- `DecompressorTypeCorrect`: `Spec => []TypeOK`;
- `DeliveredIsConsumed`: `Spec => []DeliversWhatItConsumed`,
  `DoneIsNeverEarly`: `Spec => []DoneMeansDelivered`, `DoneIsNeverMissed`:
  `Spec => []EndIsTold`, `PushesGetSomewhere`: `Spec => []PushProgress`;
- `EndsAndErrorsHoldForGood`: `Spec => EndsAndErrorsStay`, and
  `SoundBytesAreAccepted`: `Spec => SoundBytesAccepted`, the two action
  properties. The second allows one refusal, zstd's, and says when: after
  `IdleMax` pushes in a row that moved nothing, of which the last had no input
  or no room.

`PipelineProofs` proves of the two objects joined by a wire, for any source,
chunks, spans, formats and backends, with the steps of the two loops in any
order, failures included,

- `PipelineTypeCorrect`: `Spec => []TypeOK`;
- `PipelineImplementsContract`: `Spec => ImplementsContract`, with no
  hypothesis: zstd, lz4_frame, missing backends and failing allocation are in
  it. The receiver never runs ahead of the sender and never goes back, and is
  told `done` when everything accepted has arrived and not before;
- `FlushedIsReadable`: `Spec => []FlushedIsThere`, the safety that
  `FlushedArrives` rests on, and `ConsumedMeansRestored`: `Spec =>
  []ConsumedIsRestored`, that of the loop which stops when all bytes are
  consumed;
- `NothingIsRefused`: `Spec => []NothingRefused`, under the hypothesis
  `Working`: each format has a backend, zstd its memory, and a finish some room
  as zlib sees it, for zstd two units more than the source. The run
  `pipeline_zstd_again` drops the last part, and is violated.

`OneShotProofs` proves of `bound`, `squeeze` and `swell`

- `OneShotTypeCorrect`: `Spec => []TypeOK`, `TrailingAlwaysRejected`: `Spec =>
  []TrailingRejected`, and `SuccessIsAlwaysExact`: `Spec => []SuccessIsExact`:
  whatever was done to the bytes and whatever the size of the span, a swell
  that succeeds took all of them and put out what they hold, as far as the span
  has room as its engine sees it;
- `CutFramesAreCorrupt`: `Spec => []TruncationNamedByFrame`: a zstd frame that
  lost its end is `stream_corrupt`, with one exception, which the property
  states: of a frame that lost everything there are no bytes to find corrupt,
  and `swell` succeeds with an empty original;
- `RoundTripHolds`: `Spec => []RoundTrip`, `BoundsAreHonest`: `Spec =>
  []BoundIsHonest` and `ShortOutputsAreNamed`: `Spec =>
  []ShortOutputNamedByTrailer`, if every size is below the width of `uInt`
  (`Fits`). They need it: the run `oneshot_narrow` has a round trip of a
  larger span that fails.

`HandlesProofs` proves, for any set of variables, addresses and assigned classes,

- `HandlesTypeCorrect`: `Spec => []TypeOK` (nothing is freed twice);
- `StatesHaveOneOwner`: `Spec => []SoleOwner`, also when zlib handles are
  assigned to: their assignment leaks and does no worse;
- `NoLeakUnlessZlibAssigned`: `Spec => []NothingLeaks`, and
- `HandlesImplementOwnership`: `Spec => ImplementsOwnership`, both under the
  hypothesis `FreeingOnly` that no zlib handle is assigned to.

The assumptions are the named ones of the modules: the constants' types,
`UINT` and `IdleMax` positive, `Spread` a set of positive numbers, the null
pointer and "no object" different from every address. There are no others but
the hypotheses named above, each of which some passing run satisfies.
What the engines do is what `Deflate`, `Inflate`, `ZstdCCtx`, `ZstdDCtx` and
`ZstdOneShot` let them do; the theorems are about the code that calls them.

### The arguments

**What the compressor counts.** `NoLossNoDuplication` is not inductive: a call
copies units `Written + 1 .. Written + out` of the engine's stream, which says
nothing if the engine could rewrite units it has already handed over, or claim
to have written more than it generated. `IInv` adds `Shape(handle)`: the engine
never counts more units out than it has generated. The lemmas `RunStep`,
`DeflateStep` and `CompressStep` show, for each engine call, that the new
stream *extends* the old one (`Extends`), that the counters only grow, and
that the shape is kept; `ReportHonest` and `OutcomeHonest` that a method's
report is the difference the call made, failures included; `VisitHonest` that
the three visitors pass it on; `ReturnPreserves` that a call with an honest
report preserves `IInv`. `NextIInv` has one step for each action.

**What a flush and a finish close.** These properties are about what is pending
in the engine when the caller sees room left, so `CInv` adds to `IInv` an
invariant of the engine. For zlib (`ZInv`, in `DeflateProofs`): the units'
contents never decrease and never exceed the symbols read; there is no final
block while the status is INIT or BUSY, it is the last unit at FINISH, has the
whole trailer behind it at ENDED, and then everything read is encoded (`ZEnds`);
and after a sync flush that left room nothing is pending behind its marker
(`ZSynced`). For zstd (`XInv`): the same of the contents, and while the end of
a frame is not written out nothing more has been consumed. `RunOpen`,
`RunClosed`, `DeflateKeeps` and `CompressKeeps` carry it over a call and say
what room left in the output tells (`ZTells`, `XTells`): everything offered was
read, a flush has encoded it, a finish has closed the data. The hard case is a
finish that fills its span and is repeated, at any unit of the trailer.
`ReturnTells` and `NextCInv` bring it to the caller. The step to
`StreamContract` maps a call to `Transfer` or `End` by whether the stream on
the wire became complete (`CompleteClosed`, `ViewGrows`, `CallRefines`).

**What the decompressor delivers.** The object keeps no record of what it was
given; the answer of a push depends on the engine's state alone. `Inv` ties
the two. Of the caller's bytes it says only what every stream on the way has in
common, sound or not (`Streamed`: the contents never decrease, and in zstd's
container a header is the first unit or follows the end of a frame and repeats
its count of symbols); `ConstructStreams` shows it of each way the bytes can
come, damaged or followed by a second stream included. For zlib (`ZlibInv`): `fed` is the
number of units the engine has seen, they are the caller's first ones, "done"
and "corrupt" were told exactly when the status is DONE or BAD, and until then
the stream is `Unended`: no unit but the last consumed holds symbols that are
still to come, and the end is not behind, or it is the last unit consumed and
symbols of it are missing. For zstd (`ZstdInv`) the context is before a frame,
in it, or holds its last unit back (`Between`, `Framing`, `Holding`): what it
has read of the frame is the caller's units up to `fed`, or to `fed + 1` in the
last case. Wherever a header comes next the caller holds what the frames
before it gave (`AtHeader`), which survives errors. `InflateAdvances`,
`ReadDecompresses` and `ReleaseDecompresses` carry this over one call of the
engine, for every choice the engine has; `ZlibPush` and `ZstdPush` say what a
push tells of it. The properties about the last call (`Reports`) are proved
with the invariant, since a stutter must keep them.

**What goes through the pipe.** A step of `Pipeline` is a step of one object;
what has to be shown is that the other's invariant survives it, and that the
two agree. For a push of the receiver the compressor stutters. For a call of
the sender the decompressor's bytes *grow under it*, which no step of
`Decompressor` does: `ArrivalKeepsInv` shows that `Inv` and `Reports` bear it
(`LongerThan`), because they speak of the units consumed, except in two places:
after an error nothing is claimed of the counts as long as a unit is left, and
a zstd frame that ended at the end of the bytes may be followed by a header,
which then repeats its count. What arrives is `Streamed`: `SentIsReceived` says
what the compressor's own invariant makes of its `wire` (contents that never
decrease nor exceed `accepted`, no damage, a zstd frame begun only at the start
or after an end, no end before the sender's finish), and `WireStreamed` that
this is what the decompressor's invariant asks. `PInv` is the conjunction of
both objects' invariants with `Placed` (the sender's place), `Sending` (the
stream is `Unfinished` until the finish, and a zstd stream ends only with
everything consumed, however often the finish is repeated) and `Receiving` (no
more is delivered than was accepted, `done` is told only after the finish with
everything delivered, an error leaves a unit unconsumed). `CallKeepsPInv` and
`ReceiveKeepsPInv` preserve it; the refinement follows step by step
(`NextIsContractStep`). `FInv` adds that what was flushed is on the wire, and
that the two engines are of one kind; `EInv` that they are of the format and
that the stream is complete when the sender stops; `WholeIsTold` then uses what
`ZlibInv` and `ZstdInv` say of a stream consumed to its last unit. `GInv`, for
`NothingIsRefused`, adds `Paired`: both engines are of the format, and a zstd
frame is `Lean` until its finish, so that one call ends it and no second frame
follows (`OneFrame`). Every portion of the wire is then `Sound` (`WireSound`),
and a push of some bytes into some room is not one that zstd gives up on.

**What the one-shot layer restores.** `OInv` records what the caller's buffer
went through (`Kept`): exactly what a squeeze with room wrote, cut, or followed
by something. `Exact` says what such a stream is, for each engine, whatever its
blocks are, and that its length is within `bound`; the width of `uInt` enters
there, where zlib is given the sizes modulo 2^32. `Answers` are the properties
of the last call, proved from `Kept` for one `inflate` or one
`ZSTD_decompress` over it (`WholeSwells`, `ShortSwells`, `FollowedFails`).
`SuccessGives` needs none of that: it says of one push over any bytes what a
success has taken and put out.

**Who owns a state.** Here `Inv` is the conjunction of the three invariants (the last
under `FreeingOnly`), and it is inductive: that a state is owned and not freed
is what makes its one `End` right. `MoveHandsOn`, `AssignHolds`,
`AssignGivesUp` and `AssignToItself` say what the moves of the three kinds of
class have in common: the source is left empty, the target has the source's
pointer, and what the target had is ended (or, for zlib, deleted).
`NewStateKeepsInv`, `HandOverKeepsInv`, `DestroyKeepsInv` and
`EmptyObjectKeepsInv` preserve the invariant for those effects, `StepInv` has
one step per action, and `StepRefines` maps each action to the contract's.
TLC checked the invariants and the properties on the instances before they
were proved. Three places of the model were changed by the proofs. An engine
that leaves input unread may not end the data (`end` in `Choices` of
`Deflate`): the model had let a finish close a stream short of its source when
its output was full. Two `CASE`s with guards that overlap (`Inflated` of
`Inflate`, `Step` of `ZstdDCtx`) became `IF`s: TLC took the first that holds,
the logic leaves open which. And `BlockEnds` of `Decompressor` compares every
two ends, where it compared neighbours: the same sets, but no induction is
needed to use it.

### Checked by TLC only

`Restored` and `FlushedArrives`: liveness under fairness is out of TLAPS's
reach. Their safety is proved (`ConsumedMeansRestored`, `FlushedIsReadable`), and
so is that each push gets somewhere; that the loops come to their end by it is
TLC's. That the runs with a violation are violated is TLC's counterexample and
nothing else. `StreamContract` is proved of the compressor alone for the zlib
family only, because of zstd it is false; of the pipeline it is proved for both.

## Not modelled

The text of errors, their position and backend id; the compressed bits
themselves, with compression ratio and levels beyond their range checks, and
with them determinism of the output (the OS byte that `squeeze` overwrites in a
gzip header is inside a header unit; the streaming compressor leaves it as
the platform's zlib wrote it); `brood` (no code), lz4 and zlib-ng (names
only); the backend concept (compile time) and the static functions of
`zlib_backend` and `zstd_backend` that forward to a handle; the one-shot fuzzers
and benchmarks; and build files. Totals wider than a 32-bit `uLong` are listed as a
hazard and not modelled. What zstd does after it has reported an error is
left open by its documentation, so `Decompressor` asks no more of a context
then; a caller that goes on is outside the model. The streaming fuzzer and the
streaming benchmark are sequential calls on zlib with nothing between them (the
fuzzer uses members `stream_result` does not have, and keeps only the output of
its last call); `Pipeline` follows the tests. `bound` is modelled for sizes
within `uLong` and `size_t`: on an LP64 build its cast loses nothing and
the branch that answers with the largest `size_t` is not reached.

## Plan

1. Done: `Compressor`, `OneShot`, `Decompressor`, `Pipeline`, `Handles` and the
   theorems above: every invariant, action property and refinement that a
   passing run checks is proved.
2. Next: a width on zlib's running totals, for platforms where they wrap.
3. Then, for raw deflate, a loop that pushes no bytes until it is told `done`,
   as a second receiver of `Pipeline`.
