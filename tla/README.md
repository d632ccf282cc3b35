# Joy capture agent: a TLA+ model

Specifications, model-checking configurations and machine-checked proofs for
`joy-capture-agent`, the daemon that captures a camera and a microphone, encodes
them once, and streams them to any number of WebRTC clients on the home network.
Paths below are relative to `src/crates/`.

Parse with `tlasany M.tla`, check a run with `tlc -config X.cfg M`, check proofs
with `tlapm M.tla`. `PROJECT.json` lists the runs with their modules, the source
lines every definition stands for, the hazards and what covers them.

## The system

| component | code | state it keeps | operations | talks to |
|---|---|---|---|---|
| signaling transport | `joy-media/src/signaling/{mod,ws}.rs` | one `pump` task per WebSocket, an accept queue of 16, two channels of 32 per session | upgrade, accept, decode and forward, encode and write, reject, close | the client (frames), `StreamHub` (accept queue, session channels) |
| peer sessions | `joy-media/src/peer.rs` | the shared tracks; per client a task, a peer connection, `answered`, a state channel of 8 | accept loop, `handle_session`, `session_loop`, `answer`, teardown | pump, webrtc callbacks, the video encoder (keyframe requests) |
| video encoder | `joy-media/src/encode/{mod,video}.rs` | a request channel of 4, the encoder, `prev_written_ts`, the I420 scratch | receive, drain requests, convert, encode, write | the camera's fan-out, the shared track |
| pixel conversion | `joy-media/src/convert.rs` | the scratch buffer | `to_i420` on five formats | the video encoder |
| audio encoder | `joy-media/src/encode/audio.rs` | an Opus encoder for the current rate and channels | receive, rebuild, check the length, encode, write | the microphone's fan-out, the shared track |
| camera | `joy-capture/src/camera.rs` | a capture thread, a stop flag, consecutive errors, its capabilities | open in one of three formats, probe, read, map, give up, stop | `open()` (oneshot), the fan-out |
| microphone | `joy-capture/src/microphone.rs` | a stream thread, a real-time callback, a ring buffer, a drain task, a drop counter | choose a configuration, push, drain, stamp, publish, stop | `open()` (oneshot), the fan-out |
| serve mode | `joy-agentd/src/serve.rs` | the sources it owns, the encoder and hub tasks | open, spawn, bind, `select!`, abort, drop | all of the above |
| simulated sources | `joy-capture/src/simulate.rs` | a ticker task each | render, synthesize | the fan-outs |
| capture probe | `joy-agentd/src/main.rs` | per stream a counter, a lag counter, the last stamp | open, watch until a deadline, judge | the fan-outs |
| timestamps, HAL types, errors | `joy-core`, `joy-capture/src/{audio,video,lib,error}.rs` | none | saturating clock arithmetic | all |
| web client | `joy-agentd/ui/dev.html` | browser side | offer, candidates | the WebSocket |
| scaffolds | `joy-{analysis,control,ext,provision,store}` | none yet | none yet | none |

What is hard here, and what a correct component must do:

* *Two tasks and two bounded channels per client.* The pump and the session task
  each await room in a channel the other one drains, and each may end at any
  await. Correct: they never wait for each other, the client reads a well-ordered
  conversation, either end going away takes the other down, and closing returns
  although nobody reads the state channel any more, as long as that has room.
* *Requests that cross a loop.* Keyframe requests come from any session at any
  moment and are dropped on a full channel, while the encoder drains them, then
  converts, encodes and may emit nothing. Correct: none is lost, every fresh or
  damaged viewer gets an IDR, and the RTP clock follows the capture clock.
* *A lock-free ring between threads.* The drain may pop between any two pushes of
  one callback. Correct: every sample is published in order or counted as lost,
  and stamps made by counting frames are early by no more than the losses, until the
  product they are made from wraps.
* *Start-up and shutdown.* Any opening, the hub or the bind may fail after workers
  were started; workers die on their own. Correct: no worker is orphaned, opening
  never hangs, and what dies while serving ends serve mode.
* *Negotiated parameters.* The device's configuration may not be the requested one,
  and receivers of a fan-out skip what they are too slow for. Correct: no packet
  goes out whose length is not what the clock says.
* *Clients that share.* Clients wait in one accept queue, their sessions feed one
  encoder and its track. Correct: none keeps another from its video, one that stays
  decodes it, and one that leaves, even unnoticed in a full queue, leaves nothing behind.
* *Late clocks.* Generators tick late and skip, watchers lag and race a deadline.
  Correct: stamps increase strictly until the product they are made from wraps, the
  counters add up, the probe always ends.
* *Reused memory and narrow integers.* Correct: a converted picture shows nothing of
  an earlier one and no intermediate overflows.

## Modules

| module | models | proofs |
|---|---|---|
| `SignalingSession` | pump, session task, accept loop and peer connection of one client | `SignalingSessionProofs` |
| `SignalingContract` | what the agent promises a client; implemented by `SignalingSession` | `SignalingSessionProofs` |
| `VideoEncoder` | the encoder task, the request channel, what viewers can decode | `VideoEncoderProofs` |
| `LiveView` | several clients, the accept queue and their sessions, composed with `VideoEncoder` | `LiveViewProofs` |
| `ServeMode` | serve mode with the lifecycles of camera thread, stream thread, drain task and the generators of `--simulate`, and the camera's formats | `ServeModeProofs` |
| `Microphone` | callback, ring buffer, drain task, timestamps | `MicrophoneProofs` |
| `AudioPath` | `choose_config`, the bounded fan-out, the audio encoder | `AudioPathProofs` |
| `PixelConvert` | `to_i420` and its scratch buffer | `PixelConvertProofs` |
| `CaptureProbe` | the capture probe, its watchers, and the simulated sources' tickers, stamps and frames | `CaptureProbeProofs` |
| `MC...` | message sets, devices, frames, periods and sizes for TLC | |

In each module the operators named `Wrong...` are faulty variants of the one that
follows them: substituted for it they must break a property. They play no part in
the specification.

### SignalingSession

Every `.await` of `pump`, `handle_session`, `session_loop` and `answer` is a
control state (`pump`, `session`), so any other task runs there. `inq`, `outq` and
`stateq` are the three mpsc channels. A dropped half is the control state of its
owner: a send fails once the receiver's task is over, a receive returns `None`
once the channel is drained and the sender's task is over. The actions
`PumpReads`, `PumpForwards`, `PumpTakesOut`, `PumpWrites`, ... are the branches of
the pump's `select!` and the awaits in them; `SessionReceives`,
`SessionSeesClientGone` and `SessionSeesState` are those of `session_loop`;
`SessionClosesPeer` and `SessionReturns` are `pc.close()` and the drop of the
session. `PeerChanges` is the webrtc connection, which reports states through the
change callback (`PeerReports`), one at a time, waiting for room. `HubAborts` is
`serve()` aborting the accept loop: a queued session is dropped with it, running
ones go on. `HeldUp` is the one state that teardown does not leave: once the loop has
returned nobody reads the state channel, and the webrtc crate is assumed to await the
change callback in `pc.close()`, so that a channel filled to the last slot with one more
state in the callback's hand keeps the session, and a pump that waits for it, for ever.
The connection goes on changing until it is closed, also after the loop returned. The accept queue never fills for one client: see `LiveView`.

Messages are a type and a version; a frame decodes to one or does not
(`PumpReadsUndecodable`). Binary, ping and pong frames change nothing. Candidates
that the peer connection refuses are ignored by the code, so a candidate is one
case. A client that left may still have its last write accepted by the kernel
(`PumpWritesInVain`).

### VideoEncoder

One turn of the loop is `Receives`, `Drains`, then `EmitsNothing` (the converter
failed, rate control skipped, or the bitstream is empty), `EncoderFails` or
`Encodes`, then `Writes`. `Asks` and `AsksAgain` are `KeyframeRequester::request`
with its `try_send`. Time is an integer; a lagged receiver is a larger gap. `owed`
and `clamped` are history variables. openh264 is external: it is assumed to keep a
forced IDR for the next frame when it skips one, and may emit an IDR at any time. Whatever
ends the task, `Returns` drops what it owned: the request channel, the encoder, the sample.

### LiveView

`Encoder` is an instance of `VideoEncoder` on the same variables: an encoder step is
`EncoderSteps`, and what that module's viewers do happens here for a reason. A viewer
joins when the peer connection of an answered session connects, asks when its
session task handles `Connected` (`SeesConnected`), and leaves when its session closes
it (`Closes`, `pc.close()`): a connection that failed stays bound to the track till then. `ImplementsEncoder` shows
that nothing else happens to it, so that what is checked and proved of
`VideoEncoder` holds of the whole, and that its fairness follows from the tasks'.

`offers` are the pumps waiting in `accept_tx.send`, in order, since tokio's mpsc
serves waiting senders first come first served; `queue` is the accept queue. A client
that leaves is only removed from `here`: its pump notices once it is `"pumping"`.
`session` has the stages of `handle_session`: how pump and session talk is
`SignalingSession`'s, which shows that a session's sends never wait and that its
teardown ends as long as its state channel has room, so those awaits are one step here. A place in `Viewer` whose session
and pump are over may be taken by the next client.

### ServeMode

`serve` is the progress of `run()` and `serve()`; `owned`, `stop` and `ready` are
the source values, their stop flags and the oneshots of `open()`. A broadcast
channel is closed when the source value and the publishing worker are both gone
(`Closed`): the source keeps a sender. `Exits` is a return, which drops the owned
sources and thereby sets their flags. A thread may panic while opening
(`"dropped"`); an opening itself is assumed to return.

With `--simulate` the publishing workers are the generator tasks, which `open()`
spawns at once and the drop of the source aborts; the stream thread stays absent.
A camera opens with the first of three requests it accepts (`Attempts`), the last
of which leaves the format to the device; `Caps` is what `probe_caps` makes of the
list the device gives, an empty one included. The frames are assumed to come in the
format the camera was opened with. The report to `open()` never fails: the future
that awaits it is not dropped before.

### Microphone

A sample is its number in the order of capture, its channel that number modulo
`Channels`. `PushesSample` and `LosesSample` are one turn of the callback's loop;
the drain's inner loop is `DrainPublishes`. The counter's relaxed atomics are one
indivisible step each. Stamps are relative to the anchor, in `Nanos` units per
second, with the product taken modulo `Wrap`. `DriftIsLoss` speaks of the stamp of a
chunk (`chunk.ts`), under the premise that its product has not wrapped: what follows a
wrap is `microphone_clock`'s.

### AudioPath

`device` is any list of supported ranges and a default. A chunk is its number; the
receiver's position in the fan-out is `next`, and `Lags` is `RecvError::Lagged`.
The pieces of `Microphone` that matter here are one action, `Publishes`.

### CaptureProbe

Time is an integer that any step may find advanced: late tickers, watchers and the
deadline all come from that. `synth_loop` reads the clock twice, for its ticker
(`StartsTicker`, `begun`) and for the anchor of its stamps (`Anchors`), and time may pass
between the two. The product of frames and nanoseconds is taken modulo `Wrap`, as the
u64 it is; what holds only before it wraps has the premise `Unwrapped`. A ticker that is late skips to its next multiple of the
period (`NextDue`). `kept` holds the stamps of the items the fan-out still has, and
`next` is the receiver's position, behind `Oldest` when it lagged. The two watchers
run in one task and each `while` turn is `Lags`, `Counts` or `TimesOut`; `timeout`
polls the receiver first, so an item may be counted after the deadline, and then the
`while` condition ends the loop (`AfterItem`). A hardware source publishes what and
when it likes from the time the watchers subscribed, with audio stamps that may go
back (`microphone_clock`). A fan-out is followed until its watcher is done; it never
closes before, as the probe borrows the sources.

`Square` is the bright square of `render_pattern`. `FramesDiffer` quantifies over
`Sizes`, since a source has one size for life.

### PixelConvert

A plane is a function on byte indices. A conversion is the resize of the three
planes (`Resized`: old bytes survive as far as they fit) with the bytes the
conversion writes on top (`Luma`, `Chroma`, in the index arithmetic of the code).
`Exact` restates the formats pixel by pixel, with exact BT.601 coefficients, and
shares no index or colour formula with them.

## Runs

All passing runs check deadlock; every module has a `Finished` step for the states
in which the code has nothing left to run, except `PixelConvert`, which never stops.

| run | question | bounds |
|---|---|---|
| `session` | Is the conversation well-ordered and is it what `SignalingContract` promises, does the session never wait for the pump, does a client or peer that is gone end the session, does closing return unless the state channel is full, does every viewer get its keyframe, are errors terminal? | 3 messages; channels of 1, 2, 2; 3 state changes |
| `live_view` | Does a client that stays decode the video, does one that leaves let go, is nobody left on the track, and are the sessions the viewers `VideoEncoder` assumes? | 2 clients that come again, an accept queue of 1, 1 request, no GOP ceiling |
| `keyframe` | Is no request lost, is the RTP clock honest, does a fresh viewer decode, with or without a GOP ceiling, and does a damaged one recover with one? | 2 viewers, 2 requests, GOP of 3 or none, gaps below, at and above the clamps |
| `serve_mode` | Is no worker orphaned, does no fan-out close early, does opening end, is a dead encoder fatal, do reported capabilities cover the frames? | 3 consecutive errors; four wire formats, one of them not mapped |
| `microphone_ring` | Is every sample in order or counted, is a stamp early by no more than the losses, do chunks flow? | 2 channels, ring of 4, 12 samples, callbacks of up to 3 frames, 3 frames of 4 units a second, a product that wraps at 20 |
| `capture_probe` | Does the probe end with honest counters, is a simulated source not judged to regress before its product wraps, do its frames differ, what does its audio clock lose? | a clock of 6, a probe of 5, periods of 4 and 2, fan-outs of 1 and 2, a product that wraps at the fourth chunk, 4 sizes |
| `audio_path` | Is every packet 20 ms, is f32 found? | 155 devices, fan-out of 2, 6 chunks |
| `pixel_convert` | Does the buffer show the last good frame and nothing else, in range? | 93 frames, 3 sizes and mismatches |

The bounds are enough to reach what each run is about. In `SignalingSession` an
inbound channel of one already blocks the pump, two is the least outbound capacity
for which the claim is made, and three changes take a viewer through connecting,
connected, and a disconnection or failure. The three
messages are one for each way `session_loop` goes on: it answers, ignores or
refuses. The code's 32, 32 and 8 are larger; the safety results are proved for any
capacity and any messages. A state channel of two holds less than the three changes and
the final close, so the run has the full channel in it, `HeldUp` included: closing
returns in every other state. With the code's 8 a connection would have to change state
9 times, the close counted, while the session is away from its loop. Two viewers give every overlap of
two requests; more would only queue more. A ring of four with callbacks of six
samples overflows, wraps and is drained in between. In `LiveView` an accept queue
of one is full as soon as one client is queued, so that the second waits and may leave
unnoticed; no GOP ceiling is the case in which a viewer depends on its request. Time does
not matter there and stands still (`Gaps` is `{0}`); `keyframe` has it. The liveness
properties follow one of the two clients, which are alike. In `CaptureProbe` the clock
passes the deadline, a ticker may be late by two periods of the audio, the anchor later
than the ticker, either fan-out overflows, and the product wraps: stamps then do go back.
Model values for viewers are
not declared symmetric, since the run checks liveness.

Four runs show the code departing from its documentation or from its own
comments; `PROJECT.json` quotes the lines.

| run | what it shows |
|---|---|
| `session_lost_error` | an error queued by a session that then ends is dropped if the pump is forwarding another frame: it sees the session gone and closes without draining |
| `serve_dead_camera` | a camera that gave up does not close its fan-out, since the source value keeps a sender: serve mode goes on with a frozen picture |
| `microphone_channels` | an overflow in the middle of a callback can swap the channels from there on |
| `microphone_clock` | the u64 product of frames and nanoseconds overflows (after 4.45 days at 48 kHz): stamps jump back in a release build. `Wrap` is scaled down to 16 |

Other departures need no run to be seen:

* Stamps of the simulated audio are called "drift-free regardless of scheduling jitter"
  (`joy-core/src/time.rs:50`, and again `simulate.rs:129-132`), but a late ticker skips
  periods that the count of chunks does not, so they fall behind the clock by whole
  periods and never catch up (`DriftIsSkips` says by how much).
* They are also made from the product that `microphone_clock` finds wrapping
  (`simulate.rs:206`): a `--duration` beyond 4.45 days at 48 kHz ends in the verdict
  "regressed", which is why `NeverRegresses` has a premise.
* An overflow of the ring is said to shift later stamps "late by the amount lost"
  (`microphone.rs:23-25`). The amount is right and the direction is not: a count that
  misses samples makes the stamps of the later ones early (`DriftIsLoss`).
* Skipped chunks are said to be a gap of 20 ms that the jitter buffer conceals
  (`encode/audio.rs:51-52`). No sample is written for them and nothing tells the track:
  the next packet continues the RTP clock as if they had not been, so the receiver sees
  no gap, and audio is behind by what was skipped.
* After a fall-back to the device's default a chunk need not be 20 ms, against
  `encode/audio.rs:30-31`, and the encoder task then fails (`ChecksLength`).
* The documented code `peer_failed` (`signaling/mod.rs:81`) is never sent.
* `Luma8` frames are copied in whatever range they have, against `encode/video.rs:56`.

## Fairness

*Sessions.* tokio runs every ready task: weak fairness of the pump, of the session
task, of the accept loop and of the change callback. `select!` picks among ready
branches at random, so a branch that is ready again and again is taken: strong
fairness of `SessionSeesState`, which a flooding client could otherwise starve.
Nothing is assumed of the client: it need not send, leave or read. That writes get
through (`ClientReads`) is the premise of the two properties that need a client
that reads, not part of the specification. `answer()` is assumed to return, and so is
`pc.close()` once the change callback it waits for has, which is all but `HeldUp`.

*Encoder.* Weak fairness of its steps means that frames keep coming; strong
fairness of `Encodes` says that the encoder does not skip for ever, and the
session tasks handle `Connected` (weak fairness of `Asks`).

*LiveView.* Every pump, session task and the accept loop run. A pump whose client is
there but does not read may never return, so only one whose client left is fair. That a
client's offer comes and is answered, and that its connection then connects or fails, is
the premise `ClientsOffer` of `ClientSeesVideo`, not part of the specification: the agent
has no timeout for either. The encoder's fairness is `VideoEncoder`'s.

*Capture probe.* Time passes and the main task runs; nothing is assumed of the sources.

*Serve mode.* Tasks and threads run and an opening returns. Nothing is assumed of
ctrl-c, of failures, or that a camera delivers.

*Microphone.* A callback that started ends, and the drain's ticks come. The device
may stop delivering at any time. `AudioPath` and `PixelConvert` check safety only.

## Proofs

Each theorem holds for every value of the constants that satisfies the module's
named assumptions, and follows the same argument: the strengthening holds
initially, is preserved by every action, and implies the property.

* **SignalingSessionProofs** (`OutCap >= 2`, `InCap`, `StateCap` positive).
  `WireOrder` and `SessionNeverWaits` are not inductive: that an answer is first
  needs to know where it may be before it is written. `SessionInv` says a task
  holds a message while it sends one, that a session that has said nothing has
  nothing in the channel, at the pump or on the wire (`SilentSoFar`), that it has
  at most one message queued while in its loop (`TwoMessages`), that an answer
  leads wherever it is (`AnswerLeads`), and that Close is a pump's last frame.
  `ImplementsContractSafely` is the safety half of `ImplementsContract`: a write on the
  socket is a step of `SignalingContract`, a change of the session's stage is one, being
  held up is one that nothing undoes, and everything else stutters. It needs two more parts of `SessionInv`: a session
  says at most one error and says it last, wherever that error is (`ErrorsEnd`), and a
  pump hangs up because the client or the session is gone, or right after its own
  `bad_message` (`ClosesForCause`).
* **VideoEncoderProofs**. `EncoderInv` adds to the two properties that a sample is
  at hand exactly while one is written. `InitEncoder` and `StepEncoder` state the
  induction without time, for `LiveViewProofs` to cite.
* **ServeModeProofs**. `ServeInv` adds what `run()` owns at each stage (`Stages`),
  what a report says about its thread (`Reports`), who stops the drain, when
  the encoders exist, and that a format that yields frames has a capability
  (`FilmedIsMapped`).
* **MicrophoneProofs** (`ChunkSamples <= RingCap`). `MicrophoneInv` splits `InOrder`
  into the order of ring, of chunk and of one before the other, and adds the same
  bound for the samples still in the ring (`RingDrift`) as for the last chunk
  (`ChunkDrift`). `DriftIsLoss` follows with `Stamped`: the stamp is the rounded product
  of the frames drained before the chunk.
* **PixelConvertProofs**. The colour arithmetic is bounded over all bytes, every
  index is shown to be within the payload, and `ConvertInv` follows since a
  conversion writes every byte of its planes. `PictureIsKept` says what it writes:
  the rounding of each 8-bit formula is bounded against the exact coefficients
  (`LumaAccuracy`, `ChromaAccuracy`, `FullChromaAccuracy`), the code's running index of
  a sample is the row and column it stands for (`RowAndColumn`, `BlockOf`), and so each
  sample shows its pixels (`LumaShown`, `ChromaShown`). All of it is a property of one
  conversion, `ConversionShows`; the other steps leave buffer and frame alone.
* **AudioPathProofs**. A device's last fitting range exists (`LastExists`, by the
  well-founded order of the naturals), so what `choose_config` takes fits and is f32
  when an f32 range does. Everything after the choice rests on `EncoderFits`: the
  encoder at work is the one for the configuration of the chunk at hand, which
  `PacketsHonest` needs for a step that writes and cannot say by itself. A packet is
  written for a chunk of its own (`OwnChunk`), which bounds their number.
* **LiveViewProofs**. `LiveInv` says that a client is in one line, once (`OnePlace`),
  and on the track only from its answer to the close of its session, a failed
  connection included (`ViewersAreLive`); the lemmas
  about lines (an append or a removal moves one client) carry it through the accept
  queue. `ImplementsEncoderSafely` is the safety half of `ImplementsEncoder`: every
  step of the composition is a step of `VideoEncoder` or leaves it alone.
  `EncoderKeepsItsWord` uses it: what `VideoEncoderProofs` shows of one step of the encoder
  (cited through an instance of that module, which `SameEncoder` identifies with
  `LiveView`'s `Encoder`) carries `EncoderInv` over the whole composition.
* **CaptureProbeProofs**. `NeverRegresses` is not inductive: that the next stamp is later
  than all before needs to know when the ticker ticks next (`Ticked`: a whole number of
  periods after its start, no fewer than the items sent), when the anchor was read
  (`Anchored`), that a chunk's stamp is that of its number until the product wraps
  (`StampedByNumber`, by `ExactStamp`: the division leaves no rest, and a product that has
  not wrapped had not before, `StillUnwrapped`), and that the last stamp a watcher compared is behind
  everything it has yet to read, published or not (`LastIsBehind`), lags included.
  `DriftIsWholePeriods` follows from the first three. The lemmas on quotients (`Quotient`,
  `NoPeriods`, `NextTick`) give the ticker that skips; `SquareMoves`, `StepsApart` and
  `NextSquareDiffers` the moving square, for every size and frame number.

Every invariant that a passing run checks is also proved, as are `FramesDiffer` and the
safety half of both refinements. Only model-checked: all liveness, and with it the
fairness half of `ImplementsContract` and `ImplementsEncoder`, which are out of the proof
system's reach.

## Not modelled

Command-line parsing; the HTTP upgrade and the web client; JSON, SDP and ICE contents;
the samples of the simulated tone; the selection of a device by name or index; what
openh264, Opus, zune-jpeg, cpal, nokhwa and webrtc do inside, among it which viewers a
failing write to the shared track has reached. A task that panics is modelled where the
code looks at it: in an opening and in an encoder. `serve()` does not watch the accept
loop's task. Terminal output and logging are left out throughout.

## Plan

What is left is to prove more of what holds between components: that the stages which
`LiveView` keeps of a session are those of `SignalingSession`, and that the encoder that
`ServeMode` watches is `VideoEncoder`'s task. Liveness stays with TLC.
