----------------------------- MODULE AudioPath ------------------------------
(***************************************************************************)
(* From a microphone's capabilities to Opus packets: the configuration the  *)
(* stream thread picks (joy-capture microphone.rs choose_config and         *)
(* build_stream), the bounded drop-oldest fan-out its chunks go through,    *)
(* and the shared audio encoder task (joy-media encode/audio.rs).           *)
(*                                                                          *)
(* cpal, the broadcast channel and the Opus encoder are external.           *)
(***************************************************************************)
EXTENDS Integers, Sequences

CONSTANTS
    Devices,      \* what a device may offer: [ranges : Seq(Range), default : Config or NoConfig]
    Request,      \* AudioConfig: [rate, channels]
    ChunkFrames,  \* AudioConfig::chunk_frames
    FanOutCap,    \* AUDIO_CHANNEL_CAPACITY
    MaxChunks     \* bound: chunks published

Format   == {"f32", "i16", "u16", "i32", "other"}
Range    == [channels : Nat, min : Nat, max : Nat, format : Format]
Config   == [rate : Nat, channels : Nat, format : Format]
NoConfig == [rate |-> 0, channels |-> 0, format |-> "other"]
NoEncoder == [rate |-> 0, channels |-> 0]

ASSUME DeviceAssumption ==
    \A d \in Devices : d.ranges \in Seq(Range) /\ d.default \in Config
ASSUME RequestAssumption ==
    Request \in [rate : Nat \ {0}, channels : Nat \ {0}] /\ ChunkFrames \in Nat \ {0}
ASSUME BoundAssumption == FanOutCap \in Nat \ {0} /\ MaxChunks \in Nat

VARIABLES
    device,     \* the device find_device() resolved
    source,     \* "choosing" | "building" | "capturing" | "dropped", or why open() failed
    config,     \* what choose_config() picked
    published,  \* number of chunks sent on the fan-out
    next,       \* number of the chunk the encoder's receiver reads next
    task,       \* control state of run_audio_encoder
    encoder,    \* the Opus encoder's parameters, or NoEncoder
    written     \* packets written, 20 ms of RTP clock each

sourceVars == <<device, source, config, published>>
taskVars   == <<next, task, encoder, written>>
vars       == <<device, source, config, published, next, task, encoder, written>>

TypeOK ==
    /\ device \in Devices
    /\ source \in {"choosing", "building", "capturing", "dropped", "unsupported", "failed"}
    /\ config \in Config
    /\ published \in 0..MaxChunks /\ next \in 0..published
    /\ task \in {"receiving", "building", "checking", "writing", "failed", "closed"}
    /\ encoder \in [rate : Nat, channels : Nat]
    /\ written \in 0..next

Init ==
    /\ device \in Devices
    /\ source = "choosing" /\ config = NoConfig
    /\ published = 0 /\ next = 0
    /\ task = "receiving" /\ encoder = NoEncoder
    /\ written = 0

----------------------------------------------------------------------------
(* The stream thread *)

\* matches_request of choose_config: the indices of the ranges that fit.
Matching ==
    {i \in 1..Len(device.ranges) :
        LET r == device.ranges[i] IN
        r.channels = Request.channels /\ r.min <= Request.rate /\ Request.rate <= r.max}

\* max_by_key on "is f32": the last range that is, or else the last one.
Last(S)       == CHOOSE i \in S : \A j \in S : j <= i
F32           == {i \in Matching : device.ranges[i].format = "f32"}
WrongChosen   == Last(Matching)
Chosen        == IF F32 # {} THEN Last(F32) ELSE Last(Matching)

\* A matching range at the requested rate, or else the device's default if it has one.
ChoosesConfig ==
    /\ source = "choosing"
    /\ LET picked == IF Matching # {}
                     THEN [rate |-> Request.rate, channels |-> Request.channels,
                           format |-> device.ranges[Chosen].format]
                     ELSE device.default
       IN  /\ config' = picked
           /\ source' = IF picked = NoConfig THEN "failed" ELSE "building"
    /\ UNCHANGED <<device, published, taskVars>>

\* build_stream: four sample formats are supported.
StreamFormat == {"f32", "i16", "u16", "i32"}
BuildsStream ==
    /\ source = "building" /\ config.format \in StreamFormat
    /\ source' = "capturing"
    /\ UNCHANGED <<device, config, published, taskVars>>
StreamRefused ==
    /\ source = "building" /\ config.format \notin StreamFormat
    /\ source' = "unsupported"
    /\ UNCHANGED <<device, config, published, taskVars>>

\* cpal cannot build or play the stream.
DeviceFails ==
    /\ source = "building" /\ config.format \in StreamFormat
    /\ source' = "failed"
    /\ UNCHANGED <<device, config, published, taskVars>>

\* The drain task publishes ChunkFrames frames at the rate and channels of the device.
Publishes ==
    /\ source = "capturing" /\ published < MaxChunks
    /\ published' = published + 1
    /\ UNCHANGED <<device, source, config, taskVars>>

\* The source value is dropped: the fan-out closes.
SourceDropped ==
    /\ source = "capturing" /\ source' = "dropped"
    /\ UNCHANGED <<device, config, published, taskVars>>

----------------------------------------------------------------------------
(* run_audio_encoder *)

\* rx.recv() returned the next chunk.
Receives ==
    /\ task = "receiving" /\ next < published /\ published - next <= FanOutCap
    /\ next' = next + 1
    /\ task' = IF encoder = NoEncoder
                  \/ encoder # [rate |-> config.rate, channels |-> config.channels]
               THEN "building" ELSE "checking"
    /\ UNCHANGED <<sourceVars, encoder, written>>

\* rx.recv() returned Lagged(n): the receiver goes on at the oldest chunk kept. Nothing
\* is written for the chunks skipped, and the RTP clock does not move.
Lags ==
    /\ task = "receiving" /\ published - next > FanOutCap
    /\ next' = published - FanOutCap
    /\ UNCHANGED <<sourceVars, task, encoder, written>>

\* rx.recv() returned Closed, after the chunks still kept.
SeesClosed ==
    /\ task = "receiving" /\ next = published /\ source = "dropped"
    /\ task' = "closed"
    /\ UNCHANGED <<sourceVars, next, encoder, written>>

\* build_encoder: the rates and channel counts Opus and the pipeline support; anything
\* else, or a failing Opus constructor, ends the task.
OpusRates == {8000, 16000, 24000, 48000}
BuildsEncoder ==
    /\ task = "building"
    /\ \/ /\ config.rate \in OpusRates /\ config.channels \in {1, 2}
          /\ task' = "checking"
          /\ encoder' = [rate |-> config.rate, channels |-> config.channels]
       \/ task' = "failed" /\ UNCHANGED encoder
    /\ UNCHANGED <<sourceVars, next, written>>

\* The chunk must be rate / 50 frames; then encode_float, which may fail.
WrongRightLength == TRUE
RightLength      == ChunkFrames = config.rate \div 50
ChecksLength ==
    /\ task = "checking"
    /\ task' \in (IF RightLength THEN {"writing", "failed"} ELSE {"failed"})
    /\ UNCHANGED <<sourceVars, next, encoder, written>>

\* write_sample of CHUNK_DURATION, or its failure.
Writes ==
    /\ task = "writing"
    /\ \/ task' = "receiving" /\ written' = written + 1
       \/ task' = "failed" /\ UNCHANGED written
    /\ UNCHANGED <<sourceVars, next, encoder>>

----------------------------------------------------------------------------

Finished ==
    /\ source \in {"unsupported", "failed", "dropped"} \/ task = "failed" \/ published = MaxChunks
    /\ UNCHANGED vars

Next ==
    \/ ChoosesConfig \/ BuildsStream \/ StreamRefused \/ DeviceFails \/ Publishes \/ SourceDropped
    \/ Receives \/ Lags \/ SeesClosed \/ BuildsEncoder \/ ChecksLength \/ Writes \/ Finished

Spec == Init /\ [][Next]_vars

----------------------------------------------------------------------------
(* What must hold *)

\* A packet advances the RTP clock by the 20 ms it is written with, and holds exactly
\* that much audio: no device configuration, honored or fallen back to, gets packets of
\* another length out (encode/audio.rs, "fail the task loudly rather than degrade
\* silently").
PacketsHonest ==
    written > 0 => /\ ChunkFrames * 50 = config.rate
                   /\ config.rate \in OpusRates /\ config.channels \in {1, 2}

\* A device with an f32 range that fits the request is asked for it, in whatever order
\* it lists its ranges, and whatever its other formats are.
F32Honored ==
    F32 # {} =>
        /\ source # "unsupported"
        /\ source # "choosing" =>
             config = [rate |-> Request.rate, channels |-> Request.channels, format |-> "f32"]

\* Each packet written has a chunk of its own that was read, besides the one at hand.
AtHand   == IF task \in {"receiving", "closed"} THEN 0 ELSE 1
OwnChunk == written + AtHand <= next

\* The encoder at work is the one for the chunk at hand, and only a stream that runs, or
\* ran, publishes.
EncoderFits ==
    /\ task \in {"checking", "writing"} =>
         /\ encoder = [rate |-> config.rate, channels |-> config.channels]
         /\ config.rate \in OpusRates /\ config.channels \in {1, 2}
    /\ task = "writing" => RightLength
    /\ encoder # NoEncoder => encoder.rate \in OpusRates /\ encoder.channels \in {1, 2}
    /\ published > 0 => source \in {"capturing", "dropped"}

\* All of it: what the stream thread chose still holds when a packet is written, however
\* many chunks were skipped in between.
AudioInv == TypeOK /\ F32Honored /\ EncoderFits /\ PacketsHonest /\ OwnChunk
=============================================================================
