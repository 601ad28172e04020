# A verification development for oxideav-nvidia

TLA+ models of the NVDEC / NVENC bridge crate, their TLC configurations, and
TLAPS proofs. The reference is the Rust source in `src/`; line numbers are in
`PROJECT.json` (`map`), hazards and disagreements between code and
documentation in its `hazards` and `findings`.

## 1. Inventory

| Component | State | Operations | Interacts with |
|---|---|---|---|
| **NVDEC decoder** `decoder.rs` | `NvDecoder`: parser handle, `output_queue`, `flushed`, framing prologue; `CallbackState` (behind a mutex): `CUvideodecoder`, `frames`, `error` | `make_for`, `send_packet`, `receive_frame`, `flush`, `Drop`; parser callbacks `seq_callback`, `decode_callback`, `display_callback` | calls the CUDA driver and the cuvid parser; the parser calls back, on the same thread, inside `cuvidParseVideoData` |
| **NVENC encoder** `encoder.rs` | session, input and output buffer, `output_queue`, `pts_counter`, `flushed` | `make_for`, `send_frame` (`upload_nv12`, `drain_output`), `receive_packet`, `flush`, `Drop` | CUDA context from `device.rs`; the process-wide function table |
| **Initialisation** `sys.rs`, `device.rs`, `encoder.rs`, `engine.rs` | five `OnceLock`s: `VTABLE`, `FRAMEWORK`, `INIT_DONE`, `NVENC_FNS`, `CACHE` | `vtable`, `framework`, `Cuda::init`, `nvenc_fns`, `nvenc_function_table` | the last three ask `vtable()` inside their own initialiser; every other component asks these |
| **Registration** `lib.rs` | none (the registry is outside) | `register` | gated on `framework()` |
| **Contexts and devices** `device.rs` | the CUDA context; in the driver, a stack of current contexts per thread | `create_context_for`, `CudaContext::drop`, device queries | used by decoder, encoder and probe |
| **Errors** `device.rs` | none | `NvError::kind`, `is_unavailable`, `CudaErrorKind::from_cu`, `as_code`, `is_unavailable`; `map_unsupported` of `decoder.rs` and of `encoder.rs` | decides "unsupported" or "other" in the factories |
| **Framing** `framing.rs` | `length_size`, `prologue` | `from_extradata`, `reframe` | between `send_packet` and the parser |
| **Crop and conversion** `decoder.rs`, `encoder.rs` | the geometry in `CallbackState`; NVENC's one input buffer | NV12 to I420 with cropping, I420 to NV12 | inside `seq_callback`, `display_callback`, `upload_nv12` |
| **Engine probe** `engine.rs`, `nvdec.rs` | none but its cached function table | `engine_info`, `probe_device`, `annotate_encode` | contexts, NVENC sessions |
| **FFI bindings** `sys.rs` | none | structs, constants, size assertions | - |

What is hard here, and what makes each part correct:

- *Decoder.* The methods take `&mut self`, so they do not overlap, but each call
  may come from another thread, while "current context" belongs to the thread.
  Inside one call the parser runs callbacks that fail at any driver call.
  Correct means: stacks are left as found, driver work finds its context, no
  handle or surface leaks or is used after destruction, no picture disappears
  in silence (but for what `flush` ignores, section 3), Ok and Eof mean what they
  say, order is kept, calls return.
- *Encoder.* A factory of many stages that must undo what it did; a lock /
  unlock protocol with an exit at each step; time stamps that must not go back;
  a queue; a context that stays on the builder's thread.
- *Initialisation.* Threads race; initialisers nest; a load fails half-way and
  has to be undone; answers are kept for ever while files come and go.
- *Contexts between components.* The probe, the VP9 / MPEG-2 factories, decoders
  and encoders all make contexts on the stack of whatever thread they run on;
  encoders leave theirs there, and a capability query answers for whatever is
  on top. Correct means: each call finds its own context, leaves the thread as
  it found it, and a row of the probe is about the device it names.
- *Framing.* Records and samples are taken whole or not at all, at every cut; no
  unit is lost, doubled or shifted; a payload that is not length-prefixed is
  left alone.
- *Crop and conversion.* Windows that are empty, odd or reach over the edge;
  strides and pitches; a buffer that still holds an earlier picture.
- *Errors.* Two classifications of the same codes that should agree.

## 2. Plan

| Order | Module | Content | State |
|---|---|---|---|
| 1 | `CudaContexts` | operators of the driver's context stacks (external) | done |
| 2 | `FramePipe` | abstract specification: a FIFO pipe that is closed and then drained | done |
| 3 | `NvDecoder`, `MCNvDecoder` | the decoder | done |
| 4 | `NvDecoderProofs` | its theorems | done |
| 5 | `DriverInit`, `MCDriverInit` | the five OnceLocks | done |
| 6 | `DriverInitProofs` | its theorems | done |
| 7 | `NvEncoder`, `MCNvEncoder` | the encoder | done |
| 8 | `NvEncoderProofs` | its theorems | done |
| 9 | `EngineProbe`, `SharedThread`, `MCSharedThread` | engine probe, pre-checks, decoders and encoders composed on threads that share context stacks | done |
| 10 | `SharedThreadProofs` | their theorems | done |
| 11 | `Framing` | records and samples by the byte, against a reference reader of Annex-B | done |
| 12 | `Planes`, `MCDataPath` | crop and conversion, sample by sample; the run of both ends of the data path | done |
| 13 | `PlanesProofs` | the theorems about `Planes` | done |
| 14 | `Errors` | the error classifications, with their theorems | done |
| 15 | `FramingLemmas`, `FramingProofs` | the theorems about `Framing` | done |

Abstract specifications: `FramePipe` is refined by the decoder and by the
encoder. `Framing` has its reference in its properties: a reader of Annex-B that
knows nothing of records, and the tilings of a payload, enumerated.

## 3. How the modules correspond to the code

**CudaContexts** (external). A stack of contexts per thread. `cuCtxCreate_v2`
and `cuCtxPushCurrent_v2` push, `cuCtxPopCurrent_v2` pops, `cuCtxDestroy_v2`
pops only if the context is current on the calling thread.

**FramePipe.** `queue`, `delivered`, `closed`, `eof`; a picture enters once,
leaves in order, and end-of-stream is answered only when the pipe is closed and
empty.

**NvDecoder.** `pc`, `op` and `thr` say which method is running, where, on which
thread. A method is `Call` (the guard is pushed), its steps, and `Unbind` (the
guard's `Drop`). `cuvidParseVideoData` is the phase `pc = "parse"`, in which the
parser may run `SeqCallback`, `DecodeCallback` and the display callback
(`DisplayDropped`, `MapFails`, `Map`, `SyncFails`, `Copy`, `CopyFails`,
`PushFrame`), until `ParseOk` or `ParseFails`. `receive_frame` binds nothing and
is one action. Pictures are numbers. The history variable `foreign` holds what
the stacks would be had this decoder never existed; `unbound` remembers a push
that failed; `eos` remembers how the parser answered the last end-of-stream
packet, since a picture in `pending` is on its way only until then.

Assumptions on the parser, which is external: it calls back only inside
`cuvidParseVideoData`, on the same thread; it displays what is pending before it
announces a new format; after an end-of-stream packet it has displayed
everything unless a callback answered 0; it may go on or stop after a callback
that answered 0, and may answer success or an error then; it calls finitely many
callbacks in one parse. `sys::vtable()` answered Ok in the factory and is cached
(`DriverInit`: `AnswersAgree`), so the branches for its error are unreachable.

**DriverInit.** A cell is empty, running, or has a value. `Begin` runs the
initialiser of an empty cell, which either opens libraries or asks `VTABLE` first
(`within` remembers on whose behalf) and then calls the driver. A loader opens one
library at a time (`Open`). When a dlopen or a dlsym fails (`OpenFails`,
`SymbolMissing`) it only knows so; it then closes what it had opened, one handle
after the other (`Close`), and last the error is stored into the cell (`Fail`).
Other threads run, and files come and go, between any two of these. `refs` are
the dynamic linker's handles. `Install` changes the files at any time; opening a
library that is still open succeeds whatever its file has become.

What the gate of `register` does not give: a dlopen fails in `vtable()`, the files
are installed, another thread runs `framework()` and registers the factories, and
only then `vtable()` stores its error. The factories are registered, and each of
them reports a missing library for the rest of the process. So `GateHolds` does
not speak of the cell. It says that no dlopen fails once the factories are
registered, because `FRAMEWORK` keeps every library open.

**NvEncoder.** The factory's stages `open`, `preset`, `init`, `input`, `output`
follow each other. `StageFails` leaves for the error path of the stage
(`FirstUndo`), which `Undo` follows, one driver call in a step, as it does Drop's
(`AfterUndo`); the context goes last (`DropContext`). `StageMissing` is the `?` on
an empty slot of the function table: the context goes and the session stays.
`nvEncGetLastErrorString`, which `map_nvenc_status` calls for the text of an error,
is a step of its own where the factory fails (`ask`, `ask_open`, `ask_output`,
`ask_preset`), because the preset stage alone asks after it has destroyed the
session (`encoder.rs:223-234`, `639-641`): a use of a destroyed handle, which
`ResourcesUnwound` allows at `ask_preset` and nowhere else. In `send_frame` the
session is open throughout (`UsesSession`), so there the call is left out.
`send_frame` is `Send`, then one action per driver call. `held` and `ready` are the
driver's side: with `Buffering`, it may keep a picture back and give an older one
out. An empty slot of one of the three destroying calls leaves the call out. Time
stamps are two's complement integers of a small width and wrap as they do in a
release build. Width, height and rate, the configuration blob and the pixels are
abstracted.

**EngineProbe.** `engine_info` on a client's thread: `index`, `row` and `rows` are
its `i`, the `EngineInfo` being filled and `out`; each driver call is an action
that may fail. One codec of the tables stands for all, and "10 bits deep" for the
three limits that are widened. `sessions` are the open NVENC sessions; `CapsYes`,
`CapsNo` and `CapsError` are what `nvdec_caps` gets from the context on top of the
thread's stack, whosever it is.

**SharedThread** EXTENDS it with decoders and encoders, reduced to what they do
to contexts: the factories (`Precheck` for VP9 and MPEG-2, `Select`, `MakeParser`,
`PopCreation`, `MakeEncoder`), a decoder's methods and drop between `Bind` and
`Unbind`, an encoder's drop. An object is used by one thread at a time, which
need not be the one that built it. The history `left` is what encoder
factories left on each stack. A context is named after the thread that probes or
the object it belongs to.

**Framing.** `from_extradata`, `parse_avcc`, `parse_hvcc`, `read_units` and
`length_prefixed_to_annex_b` on sequences of bytes; a loop of the code is a
recursive function, of the number of turns or of the offset, and `pos` and the
units read so far are its value. `Send` is what `send_packet` does with them. The
history `source` is a stream as its writer meant it: a record (`Record`: fields
ahead, length size, lists of units, ignored fields behind, bytes cut off) or
Annex-B, from which `Extradata` is written; `written` are the units of the
samples. `FramingAssumption` says what a writer may do: units are at most as long
as their length fields can say, hold no start code and end in no zero, as Annex-B
demands. It bounds neither the number nor the size of anything else.
Remarks that are no property:

- an Annex-B sample that comes under a record is recognised only because it does
  not tile as length-prefixed units. With lengths of four bytes a start code of
  four bytes is a length of 1, followed by what can hardly be a length; with
  lengths of one or two bytes, or start codes of three, a sample can tile by
  accident and is then rewritten. `StreamIntact` leaves these cases out, and
  `TilesExactly` says exactly when a payload is rewritten;
- `framing.rs:21-22` says of Annex-B extradata that it leaves packets untouched;
  it is put in front of the first packet.

**Planes.** A sample is the picture, the plane and the place it comes from, so
that what arrives can be compared with where it should come from. `SeqCallback`
computes the geometry, `DisplayCallback` crops (`Out`, `LumaOut`, `ChromaOut`),
`UploadNv12` writes into the input buffer, which keeps what is not overwritten;
`MakeFrame` is a client's own frame with any strides and with planes that may end
early. Undefined padding is a sample that belongs to no picture. Remarks:
an odd window offset puts the chroma up to one place to the left and above of
its luma (`ChromaSited`); a frame with a short luma plane leaves rows of an
earlier picture in the buffer while its missing chroma becomes grey
(`WholeRows`). The pitch of a surface is at least the width of its rows, luma and
interleaved chroma, as NVDEC and NVENC answer it.

**MCDataPath** joins the two: `side` says which end of the data path a behaviour
is about. They do not share a variable, since NVDEC lies between them.

**Errors.** `NvError`, `CudaErrorKind` and both `map_unsupported` as functions; a
message matters only by whether it has one of the phrases looked for.

Disagreements with comments that are told here and are not findings, because
they are the view of one line:

- `decoder.rs:25-28`: "always have a current context"; after a push that failed
  (`decoder.rs:688`) the method goes on without one. `StackNeutral` and
  `SessionInOwnContext` say what still holds then.
- `decoder.rs:443-444` and `456` have the decoder's context "kept current on the
  caller's thread for the whole lifetime" and "kept alive (and current) for the
  whole decoder life". It is kept alive; it is current only inside a call:
  `pop_creation` takes it off in the factory, and each method pushes and pops it.
  `StackNeutral` and, for decoders, `StackKept` say so. (The encoder's identical
  sentence is the finding `encoder_kept_current`.)
- `decoder.rs:82-83`: an error of a callback "Surfaces from the next `Decoder`
  method". It surfaces from `send_packet` only. `flush` and `receive_frame` do not
  read it: a client that flushes after its last packet gets Ok, the frames that
  were displayed, and Eof, whatever the callbacks of that last parse left in
  `error`. Only the next `send_packet`, if there is one, reports it. This is why
  `error # NoError` is an exception in `NoSilentLoss` and not a report.
- `flush` ignores the answer of the end-of-stream parse (`decoder.rs:665-667`).
  When that fails, the pictures the parser still held are missing behind Ok and
  Eof, with nothing recorded (`LeftBehind`); a packet sent afterwards may still
  bring them out. No document says otherwise.
- `engine.rs:358` speaks of a fresh function list for every call; the table is a
  `OnceLock` (`engine.rs:372`).
- `device.rs:80` lists code 3 among those that `NvError::is_unavailable` counts,
  and `device.rs:204` calls the typed predicate its analogue; the code does not
  test for 3, and the typed one does (`Analogues`).
- A decoder's factory maps every failure of device selection to "unsupported",
  an encoder's only those that `is_unavailable` (`FallBack`).

## 4. Runs

| Run | Question | Bounds |
|---|---|---|
| `decoder` | safety of the decoder, and `FramePipe` | 2 threads, 1 foreign context (stack depth 1), every driver call may fail, 2 pictures, 2 formats, 2 packets: 3.3 M states |
| `decoder_live` | every method returns; a flushed decoder that is polled ends in Eof | 1 thread, no foreign code, otherwise the same |
| `driver_init` | one run per initialiser, one answer, balanced handles, mapped pointers, the gate, every call returns | 2 threads, 2 libraries: 140 k states |
| `encoder` | unwinding in order, locks, packets, time stamps, `FramePipe`, every method returns | 2 threads, 2 frames, time stamps of 2 bits, every call may fail, at most one empty slot: 887 k states |
| `shared_thread` | stacks kept, own contexts, nothing left behind, truthful rows, for every mixture of probes, decoders and encoders | 2 threads (symmetric), 1 VP9 decoder, 1 encoder, 3 devices of different abilities, 2 failing calls: 1.4 M states |
| `data_path` | the parser gets the parameter sets and units that were written; records are judged whole; payloads are rewritten exactly if they tile; windows, chroma, uploads and rows are exact | see below: 104 k states |
| `decoder_first_error` | violated: a later callback overwrites the first error | as `decoder` |
| `decoder_factory_refuses` | violated: `cuvidCreateDecoder` fails after the factory has answered | as `decoder` |
| `encoder_kept_current` | violated: nothing keeps the encoder's context current | as `encoder` |
| `row_is_ordinal` | violated: a device that cannot be queried moves later rows up | as `shared_thread`, 1 failing call |
| `precheck_device` | violated: the pre-check asks whatever device is current on the thread, or none | as `shared_thread`, 1 failing call |
| `encoder_flush_drains` | violated when the driver keeps a picture back: flush makes no driver call | as `encoder` |

Why the bounds are enough: two pictures are the fewest that can be swapped or
split between the two queues; two formats give one replacement of a live
`CUvideodecoder`; two packets give one after an error and one after the
prologue; two threads give a call on a thread that did not build the object;
one foreign context is the fewest that can be in the way. Two libraries give a
load that fails half-way. Two bits hold a mixture of given and counted time
stamps and the wrap.

`shared_thread`: two threads are the fewest on which an object can be made, used
and dropped in different places while another call runs; of the three devices
the first only decodes, the second decodes 10 bits and encodes 8, the third only
encodes, up to 10 bits, so a row or an answer of the wrong device shows; two
failing calls let a push fail while the probe has skipped a device. The slot of
`nvEncDestroyEncoder` is filled there; `NothingLeft` says what is claimed when it
is not, and the proofs cover it. Threads are interchangeable: they are model
values of which no definition names one, and no liveness is checked.

`data_path`: `avcC` and `hvcC` records with lengths of 1 to 4 bytes, no, one and
two units in each array, an empty one among them, with and without more behind
them, and cut at each byte; two packets, of container or Annex-B samples, or one
raw payload of up to five bytes 0, 1, 2, which is enough for two length-prefixed
units and for one that does not fit. Coded pictures of 3 and 4 by 2 and 3, so
both parities; windows that are empty, at odd places, at the edge, over it and
beyond it; pitches of 4 and 6; an input buffer of 3 by 3; client frames packed
and strided, whole and short; two pictures, so that one can show through.

Fairness. The methods are synchronous: once begun they run on, which is weak
fairness of `Running`. `decoder_live` also assumes a client that keeps calling
`receive_frame`. In `DriverInit`, every thread that can run does run; a thread
that waits for a `OnceLock` cannot run until the cell has its value.

Deadlock is checked in `decoder`, `driver_init` and `shared_thread`; in
`decoder_live` and `encoder` a dropped object has nothing left to do, and in
`data_path` a stream ends, so the check is off.

## 5. Proofs

`NvDecoderProofs` proves, for any threads, contexts, bounds and faults, all
safety properties of the run `decoder` and the refinement of `FramePipe`. The
invariant is built in layers, each using the ones before:

- `Control`: which steps belong to which method, when the guard has pushed, which
  steps have a thread. Everything else refers to it.
- `Contexts`: the stacks are `foreign`, plus `Own` on top of the running thread
  while the guard holds; needed because popping removes the last entry, and only
  the knowledge of what is on top says that it is the right one.
- `Handles`: `sessions`, `mapped` and the life of parser and context by step.
- `Config`: prologue, packets and configurations together.
- `Faulted`: a parse in which a callback answered 0 has left an error, and the
  error is never cleared. Only with it does a null `decoder` imply an error,
  which is what makes `DisplayDropped` harmless.
- `Frames`: which pictures are where; no number is in two places, and none is
  ahead of the parser. It gives that a picture which enters the pipe is new, which
  the refinement needs.
- `Drained`: an end-of-stream parse that answered success has left no picture with
  the parser, unless a callback recorded an error; from `Faulted`, since the
  parser stops early only after a callback that answered 0. With `Frames` it
  gives `NoSilentLoss`, whose two exceptions are those of section 3. Drop
  discards what was not fetched, so the property ends with the parser.

`DriverInitProofs` proves the safety properties of `driver_init`, `GateHolds`
included, for any number of threads and libraries. Its invariant says who runs
which initialiser and how far it has come: a running cell has exactly one
thread, a loader holds precisely the libraries it has opened so far, and `refs`
is the sum of the two loaders' shares; the last is what makes closing them on an
error exact, handle by handle. That a registered gate holds rests on one more
fact: `FRAMEWORK` is Ok then, and owns a handle of every library.

`NvEncoderProofs` proves all safety properties of the run `encoder` and the
refinement of `FramePipe`, for any threads, failing calls, empty slots, drivers
and bounds. Its layers:

- `Control`: where the running method is; a method that runs has given no answer
  yet, and Eof is answered only after `flush`.
- `Resources` and `Locks`: what the factory has made when it reaches a stage,
  and who may find a buffer locked. Stage by stage they are what the error paths
  of `make_for` rely on, and step by step what an error path or Drop has undone;
  `ResourcesUnwound` alone is not inductive, since it does not say which stage
  has made what.
- `Order`: the frames that became packets are older than the one in the output
  buffer, and that is older than those the driver still has. It makes the frame
  of a new packet a new one, which `Pipe!Produce` demands, also when a driver
  gives a picture back with an empty bitstream.
- `Kept`: as long as the driver keeps nothing back, it has no frame between two
  calls, and what was accepted is what came out.
- `Clock`: the counter is one ahead of the newest time stamp, unless that was the
  greatest one; every packet is older than the frame in hand.

`SharedThreadProofs` proves all safety properties of the run `shared_thread` for
any threads, objects, devices, abilities and failing calls. Its layers:

- `Owners`: which kind of owner a thread works for at each step, and in which
  phase the object is then.
- `Alone`: two threads never work for one object, which is what `&mut self`
  gives. Only with it is a context that one thread destroys not the one on
  which another relies.
- `StackKept`: a stack is `left` plus, inside a call, the call's own context. It
  gives that popping removes the right entry, and that `Current` is the call's.
- `Exist`: which contexts exist, by phase and step, and that no object's context
  is on a stack outside a call unless it is an encoder's.
- `RowSound`: the row being filled is about `index`, and what it says so far is
  true of that device, because the queries reach the context just made for it.

`PlanesProofs` proves the four properties of `Planes` for coded pictures, windows,
pitches, strides and lengths of any size. All rests on one lemma (`Place`): in
rows of w samples, column c of row r is at r * w + c, and that offset has no other
row and column; the products are bounded by `ProductGrows` and `RowFits`.
`LumaPlace` and `ChromaPlace` say what each sample of a cropped plane is,
`DisplayStep` and `UploadStep` what a callback and an upload do. The invariant adds
to the properties that the geometry is the format's, that each plane of a frame
holds samples of the newest picture only, and that the luma rows of the input
buffer are each of one picture (`Rowwise`); the last is why a row that is skipped
still shows one picture.

`FramingLemmas` and `FramingProofs` prove the three properties of `Framing` for all
streams, samples, payloads and numbers of packets. The invariant `FramingInv` is
small (the framing is the one that the extradata selected, with its prologue or
without; a packet is what `reframe` makes of its payload; `StreamIntact`); the
weight is on what the operators compute. `StreamIntact` alone is not inductive: a
step appends to a stream of which it only says what units are read from it, so it
must be known that nothing read before changes. The argument:

- *The reader* (`ReaderTakesUnits`). A scan of x \o z goes through the states of
  a scan of x (`ScanAgrees`); the zero that opens a start code does not belong to
  the unit it ends (`ClosedOfMore`); no start code ends within a unit or reaches
  into it (`UnitHasNoCode`). So framed units behind any bytes are read as those
  units, whatever the bytes were.
- *Samples* (`BodyTiles`, `RewritesUnits`). A turn of the rewriting loop looks only
  at what lies behind it; its offsets are the cuts of a tiling
  (`RewritableIsTiled`), and along any tiling it makes the framed pieces
  (`TiledIsRewritten`). A length that is written is the length that is read
  (`BigEndianFacts`).
- *Records* (`RecordOpened`). Units and arrays anywhere in a record are read as
  what was written there (`ReadsUnits`, `ReadsLists`); if the parser takes a
  strict prefix of some bytes, it takes them whole as well and ends before the cut
  (`ParseOfPrefix`), so no strict prefix of a record is taken, since a whole one is
  read to its end. That is why records with ignored fields behind them are not
  among those that are cut.

What these operators compute is shown by induction. The installed provers cannot
use an induction theorem with an operator in it; `Least` takes a least
counterexample from a set instead (`WFMin`, with the relation < on the naturals),
and `Induct`, `InductUpTo`, `InductDown` and `InductSeq` follow from it. A recursive
function is a CHOOSE; that it exists is shown the same way (`Iterates`,
`FlattenExists`, `RewritingExists`, `ScanDef`).

`Errors` holds its own theorems: `RoundTrip` (no code is lost by the typed view),
`Analogues` (exactly on which errors the two `is_unavailable` agree), `FallBack`.

What liveness rests on. Each of the four state machines has a theorem that its
calls cannot go on for ever: a rank, in the naturals, that every step of the call
lowers and that no step of anybody else raises (`MethodsTerminate` in
`NvDecoderProofs` and `NvEncoderProofs`, `CallsTerminate` in `DriverInitProofs`
and `SharedThreadProofs`). The ranks say what bounds a call: for the decoder the
pictures and formats still in the stream, and the pictures decoded but not shown;
in `DriverInit` the libraries still to open and whether one initialiser was asked
from inside another; for the probe the devices left. Three further theorems say
that a call can go on. `NobodyIsStuck`: whenever a thread is inside a call, one of
the threads inside a call does not wait. It needs `HasOwner`, that a running cell
has a thread in its initialiser; and it holds because the nested cells are asked
for in one order. `OnlyCellsBlock`: a thread that does not wait for an
initialiser meets the guard of an action. `MethodsGoOn`: no frame comes to an
encoder buffer that can be neither locked nor refused. What is left to TLC is to
join these by fairness into `CallReturns` and `CallsReturn`.

Assumptions: only those in the modules (`DecoderAssumption`,
`LibraryAssumption`, `EncoderAssumption`, `ProbeAssumption`, `ObjectAssumption`,
`PlanesAssumption`, `FramingAssumption`), which TLC evaluates in the runs.

Model-checked only: liveness (`CallReturns` of both codecs, `EofReached`,
`CallsReturn`): the prover reaches neither ENABLED nor reasoning by fairness. That
an action can be taken is stated in the proofs by its guard. Every safety property
of a passing run is a theorem.

## 6. Not modelled

- Device queries and error strings: reads of the driver that change nothing. That
  they may fail is modelled (`SkipDevice`, `SelectRefuses`).
- The capability limits beyond the bit depth, names, sizes and versions in a row
  of the probe: data that is copied.
- The registry and its records, which live in another repository; only the gate
  of `register` is modelled (`GateHolds`).
- The unwinding of the encoder's factory when a slot of the function table is
  empty: modelled as steps, but no property demands more than the code gives
  (`hazards`). What an error message says is abstracted from; that the session is
  asked for it is not.
- Time stamps through the decoder: `send_packet` passes 0 for a missing one and
  `display_callback` turns 0 into none (`decoder.rs:412`), so a time stamp of 0
  does not come out again.
- FFI layouts: the compiler checks their sizes.
- Poisoned mutexes: no code panics while holding one, short of running out of
  memory.
