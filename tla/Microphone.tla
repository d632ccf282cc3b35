----------------------------- MODULE Microphone -----------------------------
(***************************************************************************)
(* The microphone's data path (joy-capture microphone.rs): the real-time    *)
(* callback pushes samples one by one into a lock-free ring buffer, and the *)
(* drain task slices what it finds there into chunks, stamps them by        *)
(* counting frames and publishes them.  The two run on different threads:   *)
(* the drain may pop between any two pushes of one callback.                *)
(*                                                                          *)
(* A sample is its number in the order of capture; its channel is that      *)
(* number modulo Channels.                                                  *)
(***************************************************************************)
EXTENDS Integers, Sequences

CONSTANTS
    Channels,     \* channels the device opened with
    RingCap,      \* capacity of the ring, in samples
    ChunkFrames,  \* AudioConfig::chunk_frames
    Rate,         \* sample_rate
    Nanos,        \* time units of a second (1_000_000_000)
    Wrap,         \* 2^64: frames_drained * Nanos is an u64 product
    MaxBurst,     \* bound: frames in one callback
    MaxSamples    \* bound: samples captured

ChunkSamples == ChunkFrames * Channels

ASSUME SizeAssumption ==
    /\ Channels \in Nat \ {0} /\ ChunkFrames \in Nat \ {0} /\ RingCap \in Nat
    /\ ChunkSamples \in Nat \ {0} /\ ChunkSamples <= RingCap
ASSUME ClockAssumption ==
    /\ Rate \in Nat \ {0} /\ Nanos \in Nat \ {0} /\ Wrap \in Nat \ {0}
ASSUME BoundAssumption == MaxBurst \in Nat /\ MaxSamples \in Nat

VARIABLES
    captured,  \* samples the device has handed to callbacks and they pushed or lost
    burst,     \* samples the running callback still has to push
    lost,      \* its local count of failed pushes
    ring,      \* the ring buffer
    dropped,   \* the shared counter of failed pushes
    stop,      \* the stop flag
    drain,     \* control state of the drain task
    drained,   \* frames_drained
    reported,  \* reported_drops
    chunk      \* the last chunk published: frames drained before it, its stamp, its samples

capture == <<captured, burst, lost, ring, dropped>>
task    == <<drain, drained, reported, chunk>>
vars    == <<captured, burst, lost, ring, dropped, stop, drain, drained, reported, chunk>>

Chunk == [frame : Nat, ts : Nat, samples : Seq(Nat)]

TypeOK ==
    /\ captured \in Nat /\ burst \in Nat /\ lost \in Nat /\ dropped \in Nat
    /\ ring \in Seq(Nat) /\ Len(ring) <= RingCap
    /\ stop \in BOOLEAN
    /\ drain \in {"top", "ticking", "draining", "over"}
    /\ drained \in Nat /\ reported \in Nat
    /\ chunk \in Chunk

Init ==
    /\ captured = 0 /\ burst = 0 /\ lost = 0 /\ dropped = 0
    /\ ring = <<>>
    /\ stop = FALSE
    /\ drain = "top" /\ drained = 0 /\ reported = 0
    /\ chunk = [frame |-> 0, ts |-> 0, samples |-> <<>>]

----------------------------------------------------------------------------
(* The callback of build_stream_typed *)

CallbackStarts ==
    /\ burst = 0 /\ lost = 0
    /\ \E n \in 1..MaxBurst :
         /\ captured + n * Channels <= MaxSamples
         /\ burst' = n * Channels
    /\ UNCHANGED <<captured, lost, ring, dropped, stop, task>>

\* producer.try_push: a full ring refuses the newest sample.
WrongHasRoom == Len(ring) <= RingCap
HasRoom      == Len(ring) < RingCap
PushesSample ==
    /\ burst > 0 /\ HasRoom
    /\ ring' = Append(ring, captured)
    /\ captured' = captured + 1 /\ burst' = burst - 1
    /\ UNCHANGED <<lost, dropped, stop, task>>
LosesSample ==
    /\ burst > 0 /\ ~HasRoom
    /\ captured' = captured + 1 /\ burst' = burst - 1 /\ lost' = lost + 1
    /\ UNCHANGED <<ring, dropped, stop, task>>

\* dropped.fetch_add(lost), after the last sample.
WrongCounted == lost
Counted      == dropped + lost
CallbackEnds ==
    /\ burst = 0 /\ lost > 0
    /\ dropped' = Counted /\ lost' = 0
    /\ UNCHANGED <<captured, burst, ring, stop, task>>

----------------------------------------------------------------------------
(* drain_loop *)

\* The u64 arithmetic of a chunk's timestamp, relative to the anchor; the product
\* wraps in a release build.
WrongStamp(frames) == (((frames + ChunkFrames) * Nanos) % Wrap) \div Rate
Stamp(frames)      == ((frames * Nanos) % Wrap) \div Rate

\* while !stop: the flag is read, then a tick is awaited.
DrainStops ==
    /\ drain = "top" /\ stop
    /\ drain' = "over"
    /\ UNCHANGED <<capture, stop, drained, reported, chunk>>
DrainLoops ==
    /\ drain = "top" /\ ~stop
    /\ drain' = "ticking"
    /\ UNCHANGED <<capture, stop, drained, reported, chunk>>
DrainTicks ==
    /\ drain = "ticking"
    /\ drain' = "draining"
    /\ UNCHANGED <<capture, stop, drained, reported, chunk>>

\* One turn of the inner loop: pop_slice, stamp, count, publish.
WrongHasChunk == Len(ring) > ChunkSamples
HasChunk      == Len(ring) >= ChunkSamples
WrongRest     == SubSeq(ring, ChunkSamples, Len(ring))
Rest          == SubSeq(ring, ChunkSamples + 1, Len(ring))
DrainPublishes ==
    /\ drain = "draining" /\ HasChunk
    /\ ring' = Rest
    /\ chunk' = [frame |-> drained, ts |-> Stamp(drained),
                 samples |-> SubSeq(ring, 1, ChunkSamples)]
    /\ drained' = drained + ChunkFrames
    /\ UNCHANGED <<captured, burst, lost, dropped, stop, drain, reported>>

\* The ring holds less than a chunk; the drops since the last pass are reported.
DrainReports ==
    /\ drain = "draining" /\ ~HasChunk
    /\ reported' = IF dropped > reported THEN dropped ELSE reported
    /\ drain' = "top"
    /\ UNCHANGED <<capture, stop, drained, chunk>>

\* The source value is dropped. The stream thread sees the flag up to 100 ms later:
\* callbacks may go on.
SourceDropped ==
    /\ ~stop /\ stop' = TRUE
    /\ UNCHANGED <<capture, task>>

----------------------------------------------------------------------------

Finished ==
    /\ drain = "over" /\ burst = 0 /\ lost = 0
    /\ UNCHANGED vars

CallbackSteps == PushesSample \/ LosesSample \/ CallbackEnds
DrainSteps    == DrainStops \/ DrainLoops \/ DrainTicks \/ DrainPublishes \/ DrainReports
Next == CallbackStarts \/ CallbackSteps \/ DrainSteps \/ SourceDropped \/ Finished

\* A started callback runs to its end, and the task is scheduled and its ticks come.
\* Nothing is assumed of the device, which may stop delivering.
Spec == Init /\ [][Next]_vars /\ WF_vars(CallbackSteps) /\ WF_vars(DrainSteps)

----------------------------------------------------------------------------
(* What must hold *)

\* Every captured sample is in the ring, was published, or is counted as dropped:
\* no interleaving of a callback with the drain loses one silently or counts it twice.
Accounting ==
    captured = Len(ring) + drained * Channels + dropped + lost

\* The last chunk followed by the ring is in order of capture, with no sample twice.
Pending == chunk.samples \o ring
InOrder == \A i, j \in 1..Len(Pending) : i < j => Pending[i] < Pending[j]

\* What a chunk's stamp is wrong by, as long as its product fits 64 bits. Let sample 0
\* be captured at the anchor. The stamp then puts no sample of the chunk later than it was
\* captured, and none earlier by as much as the samples lost so far and one unit of rounding.
\* (microphone.rs has an overflow shift later stamps "late by the amount lost": the amount
\* is right, but a count that misses samples runs behind them.) Times are in units of a
\* Rate * Channels part of a nanosecond, in which one sample is Nanos long.
DriftIsLoss ==
    chunk.frame * Nanos < Wrap =>
        \A i \in 1..Len(chunk.samples) :
            LET stamped == chunk.ts * (Rate * Channels) + (i - 1) * Nanos
                taken   == chunk.samples[i] * Nanos
            IN  /\ stamped <= taken
                /\ taken < stamped + Rate * Channels + (dropped + lost) * Nanos

\* What it rests on: the stamp is that of the frames drained before the chunk, and that
\* count is behind the samples by no more than the losses.
Stamped == chunk.ts = Stamp(chunk.frame)
ChunkDrift ==
    \A i \in 1..Len(chunk.samples) :
        LET counted == chunk.frame * Channels + i - 1 IN
        counted <= chunk.samples[i] /\ chunk.samples[i] <= counted + dropped + lost

\* The same of the samples still in the ring, which makes ChunkDrift inductive.
RingDrift ==
    \A i \in 1..Len(ring) :
        LET counted == drained * Channels + i - 1 IN
        counted <= ring[i] /\ ring[i] <= counted + dropped + lost

\* The inductive invariant: InOrder by its three parts, and that what was published
\* had been captured.
RingOrder  == \A i, j \in 1..Len(ring) : i < j => ring[i] < ring[j]
ChunkOrder == \A i, j \in 1..Len(chunk.samples) : i < j => chunk.samples[i] < chunk.samples[j]
ChunkPast  == \A i \in 1..Len(chunk.samples) : chunk.samples[i] < captured
ChunkFirst == \A i \in 1..Len(chunk.samples), j \in 1..Len(ring) : chunk.samples[i] < ring[j]
MicrophoneInv ==
    /\ TypeOK /\ Accounting /\ RingDrift /\ ChunkDrift /\ Stamped
    /\ RingOrder /\ ChunkOrder /\ ChunkPast /\ ChunkFirst

\* A whole chunk never stays in the ring while the source lives.
ChunksFlow ==
    \A n \in 0..MaxSamples :
        (Len(ring) >= ChunkSamples /\ drained = n) ~> (drained > n \/ stop)

\* "Interleaved by channel (all channels of frame 0, then frame 1, ...)" (audio.rs).
Interleaved ==
    \A i \in 1..Len(chunk.samples) : chunk.samples[i] % Channels = (i - 1) % Channels

\* "Chunk timestamps ... increase strictly monotonically" (audio.rs).
StampsIncrease ==
    [][chunk'.frame > chunk.frame => chunk'.ts > chunk.ts]_vars
=============================================================================
