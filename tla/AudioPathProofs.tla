-------------------------- MODULE AudioPathProofs --------------------------
(***************************************************************************)
(* Proofs about AudioPath, for every set of devices with any ranges in any  *)
(* order, every request and chunk size, and every capacity of the fan-out.  *)
(***************************************************************************)
EXTENDS AudioPath, WellFoundedInduction, TLAPS

USE DeviceAssumption, RequestAssumption, BoundAssumption

\* A set of indices that is not empty has a last one: a least distance from the end.
LEMMA LastExists ==
    ASSUME NEW n \in Nat, NEW S, S \subseteq 1..n, S # {}
    PROVE  Last(S) \in S
<1> DEFINE T == {n - i : i \in S}
<1>0. \A i \in S : n - i \in Nat
  BY SMT
<1>1. T \subseteq Nat /\ T # {}
  BY <1>0, Zenon
<1>2. PICK x \in T : \A y \in T : ~ (<<y, x>> \in OpToRel(<, Nat))
  BY <1>1, NatLessThanWellFounded, WFMin
<1>3. \A y \in T : ~ (y < x)
  BY <1>1, <1>2 DEF OpToRel
<1>4. \E i \in S : \A j \in S : j <= i
  <2>1. PICK i \in S : x = n - i
    BY <1>2
  <2>2. \A j \in S : ~ (n - j < n - i)
    BY <1>3, <2>1
  <2> QED BY <2>1, <2>2
<1> QED BY <1>4 DEF Last

\* Whatever the device lists, what choose_config picks is a configuration; an f32 range
\* that fits is the one picked.
LEMMA ChosenFits ==
    ASSUME TypeOK, Matching # {}
    PROVE  /\ Chosen \in Matching
           /\ device.ranges[Chosen] \in Range
           /\ F32 # {} => device.ranges[Chosen].format = "f32"
<1>1. device.ranges \in Seq(Range)
  BY DEF TypeOK
<1>2. Matching \subseteq 1..Len(device.ranges) /\ F32 \subseteq Matching
  BY DEF Matching, F32
<1>3. Chosen \in Matching /\ (F32 # {} => Chosen \in F32)
  <2>1. Len(device.ranges) \in Nat
    BY <1>1
  <2>2. CASE F32 # {}
    BY <1>2, <2>1, <2>2, LastExists DEF Chosen
  <2>3. CASE F32 = {}
    BY <1>2, <2>1, <2>3, LastExists DEF Chosen
  <2> QED BY <2>2, <2>3
<1> QED BY <1>1, <1>2, <1>3 DEF F32

\* The choice is made before anything was published, so before any packet.
LEMMA ChoiceStep ==
    ASSUME AudioInv, ChoosesConfig
    PROVE  AudioInv'
<1> USE DEF AudioInv
<1>1. published = 0 /\ next = 0 /\ written = 0 /\ task \in {"receiving", "closed", "failed"}
  <2>1. published = 0
    BY DEF ChoosesConfig, EncoderFits, TypeOK
  <2>2. next = 0 /\ written = 0
    BY <2>1 DEF TypeOK
  <2>3. AtHand = 0
    BY <2>2 DEF OwnChunk, AtHand
  <2> QED BY <2>1, <2>2, <2>3 DEF AtHand
<1>2. config' \in Config /\ source' \in {"failed", "building"}
  <2>1. CASE Matching # {}
    <3>1. device.ranges[Chosen] \in Range
      BY <2>1, ChosenFits
    <3> QED BY <2>1, <3>1 DEF ChoosesConfig, Config, Range
  <2>2. CASE Matching = {}
    BY <2>2 DEF ChoosesConfig, TypeOK
  <2> QED BY <2>1, <2>2
<1>3. F32' # {} =>
        /\ config' = [rate |-> Request.rate, channels |-> Request.channels, format |-> "f32"]
        /\ source' = "building"
  <2> SUFFICES ASSUME F32' # {}
               PROVE  /\ config' = [rate |-> Request.rate, channels |-> Request.channels,
                                    format |-> "f32"]
                      /\ source' = "building"
    OBVIOUS
  <2>1. F32 # {}
    BY DEF F32, Matching, ChoosesConfig
  <2>2. Matching # {} /\ device.ranges[Chosen].format = "f32"
    BY <2>1, ChosenFits DEF F32
  <2> QED BY <2>2 DEF ChoosesConfig, NoConfig
<1>4. UNCHANGED <<device, published, next, task, encoder, written>>
  BY DEF ChoosesConfig, taskVars
<1>5. TypeOK'
  BY <1>2, <1>4 DEF TypeOK
<1>6. F32Honored'
  BY <1>3 DEF F32Honored
<1>7. EncoderFits' /\ PacketsHonest' /\ OwnChunk'
  BY <1>1, <1>4 DEF EncoderFits, PacketsHonest, OwnChunk, AtHand
<1> QED BY <1>5, <1>6, <1>7

\* Building, publishing and dropping leave the encoder's side alone.
LEMMA SourceStep ==
    ASSUME AudioInv,
           BuildsStream \/ StreamRefused \/ DeviceFails \/ Publishes \/ SourceDropped
    PROVE  AudioInv'
<1> USE DEF AudioInv
<1>1. UNCHANGED <<device, config, next, task, encoder, written>>
  BY DEF BuildsStream, StreamRefused, DeviceFails, Publishes, SourceDropped, taskVars
<1>2. source # "choosing" /\ published' \in published..MaxChunks
  BY DEF BuildsStream, StreamRefused, DeviceFails, Publishes, SourceDropped, TypeOK
<1>3. TypeOK'
  BY <1>1, <1>2 DEF TypeOK, BuildsStream, StreamRefused, DeviceFails, Publishes, SourceDropped
<1>4. F32Honored'
  BY <1>1, <1>2 DEF F32Honored, F32, Matching, StreamFormat,
       BuildsStream, StreamRefused, DeviceFails, Publishes, SourceDropped
<1>5. EncoderFits'
  BY <1>1 DEF EncoderFits, RightLength, BuildsStream, StreamRefused, DeviceFails, Publishes,
       SourceDropped, TypeOK
<1>6. PacketsHonest' /\ OwnChunk'
  BY <1>1 DEF PacketsHonest, OwnChunk, AtHand
<1> QED BY <1>3, <1>4, <1>5, <1>6

\* The encoder task: packets are written only after the encoder was built for the rate
\* and channels at hand and the length was checked against them.
LEMMA TaskStep ==
    ASSUME AudioInv, Receives \/ Lags \/ SeesClosed \/ BuildsEncoder \/ ChecksLength \/ Writes
    PROVE  AudioInv'
<1> USE DEF AudioInv, sourceVars
<1>1. UNCHANGED sourceVars
  BY DEF Receives, Lags, SeesClosed, BuildsEncoder, ChecksLength, Writes
<1>2. F32Honored'
  BY <1>1 DEF F32Honored, F32, Matching
<1>3. CASE Receives
  <2>1. TypeOK' /\ OwnChunk' /\ PacketsHonest'
    BY <1>3 DEF Receives, TypeOK, OwnChunk, AtHand, PacketsHonest
  <2>2. EncoderFits'
    <3>1. task' = "checking" =>
            /\ encoder = [rate |-> config.rate, channels |-> config.channels]
            /\ config.rate \in OpusRates /\ config.channels \in {1, 2}
      BY <1>3 DEF Receives, EncoderFits
    <3>2. task' \in {"checking", "building"}
      BY <1>3 DEF Receives
    <3> QED BY <1>3, <3>1, <3>2 DEF Receives, EncoderFits
  <2> QED BY <1>2, <2>1, <2>2
<1>4. CASE Lags
  <2>1. next' = published - FanOutCap /\ next < next'
    BY <1>4 DEF Lags, TypeOK
  <2>2. TypeOK'
    BY <1>4, <2>1 DEF Lags, TypeOK
  <2>3. OwnChunk'
    <3>1. AtHand = 0 /\ AtHand' = 0 /\ written' = written
      BY <1>4 DEF Lags, AtHand
    <3>2. written \in Int /\ next \in Int /\ next' \in Int
      BY <2>2 DEF TypeOK
    <3> QED BY <2>1, <3>1, <3>2 DEF OwnChunk
  <2>4. EncoderFits' /\ PacketsHonest'
    BY <1>4 DEF Lags, EncoderFits, PacketsHonest, RightLength
  <2> QED BY <1>2, <2>2, <2>3, <2>4
<1>5. CASE SeesClosed \/ BuildsEncoder \/ ChecksLength
  <2>1. /\ UNCHANGED <<next, written>>
        /\ task \in {"receiving", "closed"} <=> task' \in {"receiving", "closed"}
        /\ task' \in {"closed", "checking", "failed", "writing"}
    BY <1>5 DEF SeesClosed, BuildsEncoder, ChecksLength
  <2>2. encoder' \in [rate : Nat, channels : Nat]
    BY <1>5 DEF SeesClosed, BuildsEncoder, ChecksLength, TypeOK, Config
  <2>3. TypeOK'
    BY <1>1, <2>1, <2>2 DEF TypeOK
  <2>4. PacketsHonest' /\ OwnChunk'
    BY <1>1, <2>1 DEF PacketsHonest, OwnChunk, AtHand
  <2>5. EncoderFits'
    BY <1>5 DEF SeesClosed, BuildsEncoder, ChecksLength, EncoderFits, RightLength
  <2> QED BY <1>2, <2>3, <2>4, <2>5
<1>6. CASE Writes
  <2>1. ChunkFrames * 50 = config.rate /\ config.rate \in OpusRates /\ config.channels \in {1, 2}
    BY <1>6 DEF Writes, EncoderFits, RightLength, OpusRates
  <2>2. TypeOK' /\ OwnChunk'
    BY <1>6 DEF Writes, TypeOK, OwnChunk, AtHand
  <2>3. EncoderFits' /\ PacketsHonest'
    BY <1>6, <2>1 DEF Writes, EncoderFits, PacketsHonest
  <2> QED BY <1>2, <2>2, <2>3
<1> QED BY <1>3, <1>4, <1>5, <1>6

\* The invariant of the audio path holds: for any devices, whatever was chosen is what the
\* packets written later are made of (microphone.rs choose_config, encode/audio.rs).
THEOREM AudioInvariant == Spec => []AudioInv
<1>1. Init => AudioInv
  BY DEF Init, AudioInv, TypeOK, Config, Format, NoConfig, NoEncoder, F32Honored, EncoderFits,
     PacketsHonest, OwnChunk, AtHand
<1>2. AudioInv /\ [Next]_vars => AudioInv'
  <2> SUFFICES ASSUME AudioInv, [Next]_vars PROVE AudioInv'
    OBVIOUS
  <2>1. CASE UNCHANGED vars
    BY <2>1 DEF vars, AudioInv, TypeOK, F32Honored, F32, Matching, EncoderFits, RightLength,
       PacketsHonest, OwnChunk, AtHand
  <2>2. CASE Finished
    BY <2>1, <2>2 DEF Finished
  <2> QED BY <2>1, <2>2, ChoiceStep, SourceStep, TaskStep DEF Next
<1> QED BY <1>1, <1>2, PTL DEF Spec

\* No packet leaves whose length is not the 20 ms it is clocked with, for any device.
THEOREM PacketsAreHonest == Spec => []PacketsHonest
BY AudioInvariant, PTL DEF AudioInv
=============================================================================
