------------------------------ MODULE NvDecoder ------------------------------
(***************************************************************************)
(* One NVDEC decoder (src/src/decoder.rs): the NvDecoder struct, the       *)
(* CallbackState its parser callbacks share with it, and the CUDA objects  *)
(* behind it. Every method runs to completion on one thread (`&mut self'), *)
(* and each call may come from a different thread (`Send'). The parser is  *)
(* external: inside cuvidParseVideoData it calls the three callbacks in    *)
(* the orders a stream can produce, and goes on or gives up after a        *)
(* callback that answers 0. sys::vtable() succeeded before the decoder was *)
(* built and is cached, so its error branches are not reachable here.      *)
(***************************************************************************)
EXTENDS Naturals, Sequences, CudaContexts

CONSTANTS
  Threads,          \* threads the client calls the decoder from
  NoThread,
  Own,              \* the context this decoder creates
  Foreign,          \* contexts other code makes current on these threads
  Faults,           \* the driver calls that may fail
  MaxPictures,      \* bound: pictures the stream holds
  MaxFormats,       \* bound: sequence callbacks
  MaxPackets,       \* bound: send_packet calls
  MaxForeign        \* bound: depth of the foreign entries of a stack

DriverCalls ==
  {"ctx", "parser", "push", "create", "decode", "map", "sync", "copy", "parse"}

ASSUME DecoderAssumption ==
  /\ NoThread \notin Threads
  /\ Own \notin Foreign /\ NoContext \notin Foreign \cup {Own}
  /\ Faults \subseteq DriverCalls
  /\ {MaxPictures, MaxFormats, MaxPackets, MaxForeign} \subseteq Nat

VARIABLES
  \* --- the driver: context stacks, and which of our objects are alive
  stack,          \* [Threads -> sequence of contexts]
  ctx,            \* the CUDA context: "none", "live", "destroyed"
  parser,         \* the cuvidParser: "none", "live", "destroyed"
  sessions,       \* live CUvideodecoders (numbered by sequence callback)
  home,           \* context the newest CUvideodecoder was created in
  mapped,         \* CUvideodecoders with a mapped surface
  \* --- the parser's own state
  pending,        \* pictures it decoded and will still display
  picture,        \* number of pictures handed to the decode callback
  formats,        \* number of sequence callbacks
  rejected,       \* a callback of this cuvidParseVideoData answered 0
  \* --- CallbackState
  decoder,        \* 0 for null, else the number of a CUvideodecoder
  frames,         \* pictures queued by the display callback
  error,
  \* --- NvDecoder
  output_queue, flushed,
  prologue,       \* framing.prologue: "empty", "held", "taken"
  \* --- control: where the running method is
  pc, op, thr,    \* the step, the method and its thread
  pushed,         \* ContextGuard.pushed
  shown,          \* the picture a display callback is working on
  result,         \* answer of the last method
  \* --- history
  foreign,        \* the stacks as other code alone would have left them
  unbound,        \* some method went on although its push had failed
  sent,           \* packets handed to the parser
  configs,        \* times the extradata prologue was handed to the parser
  decoded,        \* pictures whose decode callback answered 1
  delivered,      \* pictures handed to the client, in order
  eos             \* the last parse: not an end-of-stream one that answered
                  \* ("open"), or one that did: "drained" or "failed"

contextVars == <<stack, foreign>>
driverVars  == <<ctx, parser, sessions, home, mapped>>
parserVars  == <<pending, picture, formats, rejected>>
sharedVars  == <<decoder, frames, error>>
structVars  == <<output_queue, flushed, prologue>>
callVars    == <<op, thr, pushed, shown>>
historyVars == <<unbound, sent, configs, decoded, delivered, eos>>
stateVars   == <<contextVars, driverVars, parserVars, sharedVars, structVars,
                 historyVars>>
vars == <<stateVars, pc, callVars, result>>

Pictures == 1..MaxPictures
NoError == "none"
MayFail(call) == call \in Faults

Init ==
  /\ foreign \in [Threads -> {<<>>} \cup {<<c>> : c \in Foreign}]
  /\ stack = foreign
  /\ ctx = "none" /\ parser = "none"
  /\ sessions = {} /\ home = NoContext /\ mapped = {}
  /\ pending = {} /\ picture = 0 /\ formats = 0 /\ rejected = FALSE
  /\ decoder = 0 /\ frames = <<>> /\ error = NoError
  /\ output_queue = <<>> /\ flushed = FALSE /\ prologue \in {"empty", "held"}
  /\ pc = "absent" /\ op = "make" /\ thr = NoThread
  /\ pushed = FALSE /\ shown = 0 /\ result = "none"
  /\ unbound = FALSE /\ sent = 0 /\ configs = 0 /\ decoded = {} /\ delivered = <<>>
  /\ eos = "open"

-----------------------------------------------------------------------------
(* make_for                                                                *)

\* Every refusal before a context exists (no driver, no device, index out of
\* range, cuCtxCreate failing) answers Unsupported and leaves nothing behind.
MakeRefused ==
  /\ pc = "absent" /\ MayFail("ctx")
  /\ pc' = "gone" /\ result' = "unsupported"
  /\ UNCHANGED <<stateVars, callVars>>

MakeContext(t) ==
  /\ pc = "absent"
  /\ pc' = "create_parser" /\ thr' = t
  /\ ctx' = "live" /\ stack' = PushOn(stack, t, Own)
  /\ UNCHANGED <<parserVars, sharedVars, structVars, historyVars, foreign,
                 parser, sessions, home, mapped, op, pushed, shown, result>>

\* create_parser fails: `?' drops the CudaContext while it is still current.
MakeParserFails ==
  /\ pc = "create_parser" /\ MayFail("parser")
  /\ ctx' = "destroyed" /\ stack' = DestroyOn(stack, thr, Own)
  /\ pc' = "gone" /\ thr' = NoThread /\ result' \in {"err", "unsupported"}
  /\ UNCHANGED <<parserVars, sharedVars, structVars, historyVars, foreign,
                 parser, sessions, home, mapped, op, pushed, shown>>

MakeParser ==
  /\ pc = "create_parser"
  /\ parser' = "live"
  /\ pc' = "unbind" /\ pushed' = TRUE /\ result' = "ok"   \* pop_creation
  /\ UNCHANGED <<contextVars, parserVars, sharedVars, structVars, historyVars,
                 ctx, sessions, home, mapped, op, thr, shown>>

-----------------------------------------------------------------------------
(* Entering and leaving a method: ContextGuard                             *)

\* A change of the code that would break CallbacksHaveContext: trust that the
\* context stayed current where the decoder was built.
GuardPushAssumed(t) == stack
GuardPush(t) == PushOn(stack, t, Own)

\* A change that would break StackNeutral: pop whether or not the push worked.
GuardPopAlways == PopFrom(stack, thr)
GuardPop == IF pushed THEN PopFrom(stack, thr) ELSE stack

\* send_packet, flush and drop begin by binding the context; a push that
\* fails is not reported. send_packet clears `flushed' before anything else.
Call(t, method) ==
  /\ pc = "idle"
  /\ method = "send" => sent < MaxPackets
  /\ op' = method /\ thr' = t /\ pc' = "bound" /\ result' = "none"
  /\ \/ pushed' = TRUE /\ stack' = GuardPush(t) /\ UNCHANGED unbound
     \/ MayFail("push") /\ pushed' = FALSE /\ unbound' = TRUE /\ UNCHANGED stack
  /\ flushed' = IF method = "send" THEN FALSE ELSE flushed
  /\ UNCHANGED <<driverVars, parserVars, sharedVars, foreign, output_queue,
                 prologue, shown, sent, configs, decoded, delivered, eos>>

\* The guard leaves scope: pop what it pushed. Drop goes on to the fields.
Unbind ==
  /\ pc = "unbind"
  /\ stack' = GuardPop
  /\ pushed' = FALSE
  /\ pc' = IF op = "drop" THEN "drop_ctx" ELSE "idle"
  /\ thr' = IF op = "drop" THEN thr ELSE NoThread
  /\ UNCHANGED <<driverVars, parserVars, sharedVars, structVars, historyVars,
                 foreign, op, shown, result>>

\* Other code on a thread that is not inside this decoder makes a context of
\* its own current, or stops doing so.
ForeignPush(t, c) ==
  /\ t # thr /\ Len(foreign[t]) < MaxForeign
  /\ stack' = PushOn(stack, t, c) /\ foreign' = PushOn(foreign, t, c)
  /\ UNCHANGED <<driverVars, parserVars, sharedVars, structVars, callVars,
                 historyVars, pc, result>>

ForeignPop(t) ==
  /\ t # thr /\ foreign[t] # <<>>
  /\ stack' = PopFrom(stack, t) /\ foreign' = PopFrom(foreign, t)
  /\ UNCHANGED <<driverVars, parserVars, sharedVars, structVars, callVars,
                 historyVars, pc, result>>

-----------------------------------------------------------------------------
(* send_packet and flush, around cuvidParseVideoData                       *)

Return(answer) == /\ result' = answer
                  /\ pc' = "unbind"

\* A change that would break ImplementsPipe: put the new pictures in front.
PullFramesInFront == /\ output_queue' = frames \o output_queue
                     /\ frames' = <<>>

\* pull_frames: everything the callbacks queued moves behind what is waiting.
PullFrames == /\ output_queue' = output_queue \o frames
              /\ frames' = <<>>

\* An error of an earlier callback refuses the packet.
SendRefused ==
  /\ pc = "bound" /\ op = "send" /\ error # NoError
  /\ Return("err")
  /\ UNCHANGED <<stateVars, callVars>>

\* A change that would break ConfigFirst: copy the prologue, not take it.
PrologueKept == prologue
PrologueTaken == IF prologue = "held" THEN "taken" ELSE prologue

\* reframe takes the prologue, if any, in front of this packet's payload.
SendParse ==
  /\ pc = "bound" /\ op = "send" /\ error = NoError
  /\ pc' = "parse" /\ rejected' = FALSE /\ sent' = sent + 1 /\ eos' = "open"
  /\ prologue' = PrologueTaken
  /\ configs' = IF prologue = "held" THEN configs + 1 ELSE configs
  /\ UNCHANGED <<contextVars, driverVars, sharedVars, callVars, pending,
                 picture, formats, output_queue, flushed, result, unbound,
                 decoded, delivered>>

FlushParse ==
  /\ pc = "bound" /\ op = "flush"
  /\ pc' = "parse" /\ rejected' = FALSE /\ eos' = "open"
  /\ UNCHANGED <<contextVars, driverVars, sharedVars, structVars, callVars,
                 pending, picture, formats, result, unbound, sent, configs,
                 decoded, delivered>>

\* cuvidParseVideoData has answered.
Parsed(outcome) ==
  /\ eos' = IF op = "flush" THEN outcome ELSE "open"
  /\ UNCHANGED <<contextVars, driverVars, parserVars, sharedVars, structVars,
                 callVars, unbound, sent, configs, decoded, delivered>>

\* It answers success. After an end-of-stream packet the parser has displayed
\* all it had, unless a callback stopped it.
ParseOk ==
  /\ pc = "parse"
  /\ op = "flush" => rejected \/ pending = {}
  /\ pc' = "parsed"
  /\ Parsed("drained") /\ UNCHANGED result

\* A change that would break CallReturns: try the end-of-stream packet again.
FlushRetries == pc' = "bound"
FlushGoesOn == pc' = "parsed"

\* It answers an error: send_packet reports it at once, flush ignores it, and
\* what the parser had not displayed stays behind.
ParseFails ==
  /\ pc = "parse" /\ (MayFail("parse") \/ rejected)
  /\ IF op = "send" THEN Return("err")
                    ELSE FlushGoesOn /\ UNCHANGED result
  /\ Parsed("failed")

\* A change that would break OkMeansClean: look at the error only on entry.
ErrorUnchecked == TRUE
NoCallbackError == error = NoError

SendErr ==
  /\ pc = "parsed" /\ op = "send" /\ ~NoCallbackError
  /\ Return("err")
  /\ UNCHANGED <<stateVars, callVars>>

SendOk ==
  /\ pc = "parsed" /\ op = "send" /\ NoCallbackError
  /\ PullFrames
  /\ Return("ok")
  /\ UNCHANGED <<contextVars, driverVars, parserVars, callVars, historyVars,
                 decoder, error, flushed, prologue>>

\* A change that would break EofReached: close only an error-free stream.
FlushedIfClean == error = NoError
FlushedAlways == TRUE

FlushDone ==
  /\ pc = "parsed" /\ op = "flush"
  /\ PullFrames
  /\ flushed' = FlushedAlways
  /\ Return("ok")
  /\ UNCHANGED <<contextVars, driverVars, parserVars, callVars, historyVars,
                 decoder, error, prologue>>

\* A change that would break EofMeansDrained: look at `flushed' first.
HasFrameUnlessFlushed(queue) == queue # <<>> /\ ~flushed
HasFrame(queue) == queue # <<>>

\* receive_frame binds no context and calls no driver.
ReceiveFrame ==
  /\ pc = "idle"
  /\ frames' = <<>>
  /\ LET queue == output_queue \o frames IN
       IF HasFrame(queue)
         THEN /\ output_queue' = Tail(queue)
              /\ delivered' = Append(delivered, Head(queue))
              /\ result' = "frame"
         ELSE /\ output_queue' = queue
              /\ delivered' = delivered
              /\ result' = IF flushed THEN "eof" ELSE "need_more"
  /\ UNCHANGED <<contextVars, driverVars, parserVars, callVars, decoder,
                 error, flushed, prologue, pc, unbound, sent, configs,
                 decoded, eos>>

-----------------------------------------------------------------------------
(* The parser callbacks                                                    *)

\* The callback answers 0 with an error left in CallbackState, overwriting
\* whatever was there.
Fail(cause) == /\ error' = cause
               /\ rejected' = TRUE

\* A change that would break HandlesSound: overwrite the handle of the old one.
SessionsLeaked == sessions
OtherSessions == sessions \ {decoder}

\* The new CUvideodecoder lives in whatever context is current.
SeqCallback ==
  /\ pc = "parse" /\ formats < MaxFormats
  /\ pending = {}            \* the parser displays the old format first
  /\ formats' = formats + 1
  /\ \/ /\ Current(stack[thr]) # NoContext
        /\ decoder' = formats' /\ home' = Current(stack[thr])
        /\ sessions' = OtherSessions \cup {formats'}
        /\ UNCHANGED <<error, rejected>>
     \/ /\ MayFail("create") \/ Current(stack[thr]) = NoContext
        /\ decoder' = 0
        /\ sessions' = OtherSessions
        /\ Fail("create")
        /\ UNCHANGED home
  /\ UNCHANGED <<contextVars, structVars, callVars, historyVars, ctx, parser,
                 mapped, pending, picture, frames, pc, result>>

DecodeCallback ==
  /\ pc = "parse" /\ formats > 0 /\ picture < MaxPictures
  /\ picture' = picture + 1
  /\ \/ /\ decoder # 0
        /\ decoded' = decoded \cup {picture'}
        /\ pending' = pending \cup {picture'}
        /\ UNCHANGED <<error, rejected>>
     \/ /\ decoder = 0 \/ MayFail("decode")
        /\ Fail(IF decoder = 0 THEN "not_created" ELSE "decode")
        /\ pending' \in {pending, pending \cup {picture'}}
        /\ UNCHANGED decoded
  /\ UNCHANGED <<contextVars, driverVars, structVars, callVars, formats,
                 decoder, frames, pc, result, unbound, sent, configs,
                 delivered, eos>>

\* display_callback, first step: without a CUvideodecoder the picture is
\* dropped with no error of its own.
DisplayDropped(p) ==
  /\ pc = "parse" /\ p \in pending /\ decoder = 0
  /\ pending' = pending \ {p} /\ rejected' = TRUE
  /\ UNCHANGED <<contextVars, driverVars, sharedVars, structVars, callVars,
                 historyVars, picture, formats, pc, result>>

MapFails(p) ==
  /\ pc = "parse" /\ p \in pending /\ decoder # 0 /\ MayFail("map")
  /\ pending' = pending \ {p}
  /\ Fail("map")
  /\ UNCHANGED <<contextVars, driverVars, structVars, callVars, historyVars,
                 picture, formats, decoder, frames, pc, result>>

Map(p) ==
  /\ pc = "parse" /\ p \in pending /\ decoder # 0
  /\ pending' = pending \ {p}
  /\ mapped' = mapped \cup {decoder} /\ shown' = p /\ pc' = "mapped"
  /\ UNCHANGED <<contextVars, sharedVars, structVars, historyVars, ctx,
                 parser, sessions, home, picture, formats, rejected, op, thr,
                 pushed, result>>

Unmap == mapped' = mapped \ {decoder}

\* A mapped picture is given up: no frame, back to the parser.
GiveUp == /\ shown' = 0 /\ pc' = "parse"
          /\ UNCHANGED <<contextVars, structVars, historyVars, ctx, parser,
                         sessions, home, pending, picture, formats, decoder,
                         frames, op, thr, pushed, result>>

\* A change that would break SurfaceReleased: return before the unmap.
SyncFailsMapped ==
  /\ pc = "mapped" /\ MayFail("sync")
  /\ Fail("sync") /\ UNCHANGED mapped /\ GiveUp

SyncFails ==
  /\ pc = "mapped" /\ MayFail("sync")
  /\ Fail("sync") /\ Unmap /\ GiveUp

\* Both planes are copied whatever the first copy answers.
Copy ==
  /\ pc = "mapped"
  /\ \/ pc' = "copied"
     \/ MayFail("copy") /\ pc' = "copy_failed"
  /\ UNCHANGED <<stateVars, callVars, result>>

\* A change that would break NoSilentLoss: answer 0 and record nothing.
CopyFailsQuietly ==
  /\ pc = "copy_failed"
  /\ rejected' = TRUE /\ UNCHANGED error /\ Unmap /\ GiveUp

\* The surface is unmapped before a copy error is looked at.
CopyFails ==
  /\ pc = "copy_failed"
  /\ Fail("copy") /\ Unmap /\ GiveUp

PushFrame ==
  /\ pc = "copied"
  /\ Unmap
  /\ frames' = Append(frames, shown)
  /\ shown' = 0 /\ pc' = "parse"
  /\ UNCHANGED <<contextVars, parserVars, structVars, historyVars, ctx,
                 parser, sessions, home, decoder, error, op, thr, pushed,
                 result>>

-----------------------------------------------------------------------------
(* Drop                                                                    *)

DropParser ==
  /\ pc = "bound" /\ op = "drop"
  /\ parser' = "destroyed" /\ pc' = "drop_decoder"
  /\ UNCHANGED <<contextVars, parserVars, sharedVars, structVars, callVars,
                 historyVars, ctx, sessions, home, mapped, result>>

DropDecoder ==
  /\ pc = "drop_decoder"
  /\ sessions' = sessions \ {decoder} /\ decoder' = 0
  /\ pc' = "unbind"
  /\ UNCHANGED <<contextVars, parserVars, structVars, callVars, historyVars,
                 ctx, parser, home, mapped, frames, error, result>>

\* The fields are dropped after drop(): the context is destroyed last.
DropContext ==
  /\ pc = "drop_ctx"
  /\ ctx' = "destroyed" /\ stack' = DestroyOn(stack, thr, Own)
  /\ pc' = "gone" /\ thr' = NoThread
  /\ UNCHANGED <<parserVars, sharedVars, structVars, historyVars, foreign,
                 parser, sessions, home, mapped, op, pushed, shown, result>>

-----------------------------------------------------------------------------
DisplayCallback == \/ \E p \in Pictures : DisplayDropped(p) \/ MapFails(p) \/ Map(p)
                   \/ SyncFails \/ Copy \/ CopyFails \/ PushFrame

ParserStep == \/ SeqCallback
              \/ DecodeCallback
              \/ DisplayCallback
              \/ ParseOk \/ ParseFails

MakeStep == MakeParserFails \/ MakeParser

MethodStep == \/ SendRefused \/ SendParse \/ FlushParse
              \/ SendErr \/ SendOk \/ FlushDone
              \/ DropParser \/ DropDecoder \/ DropContext
              \/ Unbind

\* A method that was entered and has not returned.
Running == MakeStep \/ MethodStep \/ ParserStep

Client == \/ MakeRefused
          \/ \E t \in Threads : MakeContext(t)
          \/ \E t \in Threads, method \in {"send", "flush", "drop"} : Call(t, method)
          \/ ReceiveFrame

Environment == \E t \in Threads : ForeignPop(t) \/ \E c \in Foreign : ForeignPush(t, c)

Next == Running \/ Client \/ Environment

\* Synchronous code runs on: a method that has begun takes its next step, and
\* a client keeps calling receive_frame until it is told to stop.
Fairness == WF_vars(Running) /\ WF_vars(ReceiveFrame)

Spec == Init /\ [][Next]_vars
FairSpec == Spec /\ Fairness
-----------------------------------------------------------------------------
(* Properties                                                              *)

InParse == {"parse", "mapped", "copied", "copy_failed"}
Mapped == {"mapped", "copied", "copy_failed"}
Steps == {"absent", "create_parser", "idle", "bound", "parsed", "unbind",
          "drop_decoder", "drop_ctx", "gone"} \cup InParse
Errors == {NoError, "create", "not_created", "decode", "map", "sync", "copy"}
Methods == {"make", "send", "flush", "drop"}
Answers == {"none", "ok", "err", "unsupported", "frame", "need_more", "eof"}

TypeOK ==
  /\ foreign \in [Threads -> Seq(Foreign)]
  /\ stack \in [Threads -> Seq(Foreign \cup {Own})]
  /\ ctx \in {"none", "live", "destroyed"} /\ parser \in {"none", "live", "destroyed"}
  /\ sessions \subseteq Nat \ {0} /\ mapped \subseteq Nat \ {0}
  /\ home \in Foreign \cup {Own, NoContext}
  /\ pending \subseteq Pictures /\ picture \in 0..MaxPictures
  /\ formats \in Nat /\ rejected \in BOOLEAN
  /\ decoder \in Nat /\ frames \in Seq(Pictures) /\ error \in Errors
  /\ output_queue \in Seq(Pictures) /\ flushed \in BOOLEAN
  /\ prologue \in {"empty", "held", "taken"}
  /\ pc \in Steps /\ op \in Methods /\ thr \in Threads \cup {NoThread}
  /\ pushed \in BOOLEAN /\ shown \in Pictures \cup {0} /\ result \in Answers
  /\ unbound \in BOOLEAN /\ sent \in Nat /\ configs \in 0..1
  /\ decoded \subseteq Pictures /\ delivered \in Seq(Pictures)
  /\ eos \in {"open", "drained", "failed"}

\* Every method leaves the context stack of its thread as it found it, and no
\* stack but that of the running method's thread ever holds the context. This
\* is what ContextGuard and pop_creation are for: an entry left behind would
\* make every later caller on that thread work in this decoder's context. The
\* comments at decoder.rs:443-444 and 456 ("kept current on the caller's
\* thread for the whole lifetime") describe an older design: between calls the
\* context is on no stack.
Holding == pushed \/ pc = "create_parser"
StackNeutral ==
  \A t \in Threads :
    stack[t] = IF t = thr /\ Holding THEN Append(foreign[t], Own) ELSE foreign[t]

\* Whatever runs inside the driver on behalf of this decoder (parser
\* callbacks, destruction) finds its own context current, on whichever thread
\* the client calls from, once the push that binds it has succeeded.
InDriver == InParse \cup {"create_parser", "bound", "drop_decoder"}
CallbacksHaveContext ==
  pc \in InDriver /\ Holding => Current(stack[thr]) = Own

\* A CUvideodecoder belongs to this decoder's own context unless a push has
\* failed, so that it can never outlive it in somebody else's.
SessionInOwnContext == decoder # 0 /\ ~unbound => home = Own

\* No CUvideodecoder leaks or is used after its destruction: the handle in
\* CallbackState is the only live one, a parse runs on a live parser, both go
\* before the context, and nothing outlives the decoder.
HandlesSound ==
  /\ sessions = {decoder} \ {0}
  /\ sessions # {} \/ parser = "live" => ctx = "live"
  /\ pc \in InParse => parser = "live"
  /\ pc = "gone" => parser # "live" /\ ctx # "live" /\ sessions = {}

\* Whichever step of display_callback fails, the mapped surface is released
\* before the callback answers; it is never one of a destroyed CUvideodecoder.
SurfaceReleased ==
  /\ mapped = IF pc \in Mapped THEN {decoder} ELSE {}
  /\ mapped \subseteq sessions

\* A picture NVDEC decoded is not lost in silence while the decoder lives: it
\* is delivered, queued, being copied, or with a parser that has not answered
\* an end-of-stream packet yet. In particular, once flush has drained the
\* parser, every decoded picture is on its way to the client. Two exceptions,
\* which the code does not report from flush or receive_frame:
\*   - a callback failed: CallbackState.error holds the cause, which only
\*     send_packet reads, so a client that flushes and drains never sees it;
\*   - the end-of-stream parse itself answered an error, which flush ignores:
\*     pictures the parser still held are missing behind flush's Ok and Eof,
\*     and nothing records it. They may still come out of a later packet.
Queued == delivered \o output_queue \o frames
Arrives(p) == \/ \E i \in DOMAIN Queued : Queued[i] = p
              \/ p = shown
              \/ p \in pending /\ eos = "open"
LeftBehind(p) == p \in pending /\ eos = "failed"
NoSilentLoss ==
  parser = "live" =>
    \A p \in decoded : Arrives(p) \/ error # NoError \/ LeftBehind(p)

\* If send_packet answers Ok, then no callback of that parse answered 0.
OkMeansClean ==
  op = "send" /\ result = "ok" => ~rejected /\ error = NoError

\* end-of-stream is answered only when nothing is left to deliver, on either
\* side of the callback mutex.
EofMeansDrained ==
  result = "eof" => flushed /\ output_queue = <<>> /\ frames = <<>>

\* The codec configuration of an MP4 stream reaches the parser exactly once,
\* with the first packet, however many packets fail.
ConfigFirst ==
  sent > 0 => prologue # "held" /\ configs = IF prologue = "taken" THEN 1 ELSE 0

\* The two queues and the callbacks together are one FIFO pipe of pictures.
Pipe == INSTANCE FramePipe WITH queue <- output_queue \o frames,
                                closed <- flushed,
                                eof <- result = "eof"
ImplementsPipe == Pipe!Spec

\* Every method returns, whatever the driver refuses in the middle of it.
CallReturns ==
  pc \notin {"absent", "idle", "gone"} ~> pc \in {"idle", "gone"}

\* After a flush, a client that keeps calling receive_frame is told
\* end-of-stream unless it calls something else first.
EofReached == pc = "idle" /\ op = "flush" ~> result = "eof" \/ pc # "idle"

\* CallbackState.error, by its comment: "First error seen inside any callback".
FirstErrorKept == [][error # NoError => error' = error]_vars

\* README.md lists a cuvidCreateDecoder that fails under "Init failure": "The
\* factory returns `Err'; the registry falls back to the next-priority impl".
FactoryRefuses == error = "create" => op = "make"
=============================================================================
