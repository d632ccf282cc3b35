-------------------------- MODULE MicrophoneProofs --------------------------
(***************************************************************************)
(* Proofs about Microphone, for every number of channels, ring capacity,    *)
(* chunk length and bound: what the ring and the drain task do to samples.  *)
(***************************************************************************)
EXTENDS Microphone, SequenceTheorems, TLAPS

\* A chunk is a positive number of samples, and popping one accounts for its frames.
LEMMA ChunkSize ==
    /\ ChunkSamples \in Nat /\ ChunkSamples >= 1 /\ ChunkSamples <= RingCap
    /\ \A n \in Nat :
         /\ n * Channels \in Nat
         /\ (n + ChunkFrames) * Channels = n * Channels + ChunkSamples
<1>1. ChunkSamples \in Nat /\ ChunkSamples >= 1 /\ ChunkSamples <= RingCap
  BY SizeAssumption
<1>2. ASSUME NEW n \in Nat
      PROVE  /\ n * Channels \in Nat
             /\ (n + ChunkFrames) * Channels = n * Channels + ChunkSamples
  BY SizeAssumption DEF ChunkSamples
<1> QED BY <1>1, <1>2

\* A timestamp is a natural number, also when its product has wrapped.
LEMMA StampType == ASSUME NEW n \in Nat PROVE Stamp(n) \in Nat
<1>1. PICK p \in Nat : p = n * Nanos
  BY ClockAssumption
<1>2. PICK q \in Nat : q = p % Wrap
  BY ClockAssumption
<1>3. q \div Rate \in Nat
  BY ClockAssumption
<1> QED BY <1>1, <1>2, <1>3 DEF Stamp

\* What pop_slice takes and what it leaves.
LEMMA PopSlice ==
    ASSUME ring \in Seq(Nat), HasChunk
    PROVE  LET head == SubSeq(ring, 1, ChunkSamples) IN
           /\ Rest \in Seq(Nat) /\ Len(Rest) = Len(ring) - ChunkSamples
           /\ \A i \in 1..Len(Rest) : Rest[i] = ring[i + ChunkSamples]
           /\ head \in Seq(Nat) /\ Len(head) = ChunkSamples
           /\ \A i \in 1..ChunkSamples : head[i] = ring[i]
<1>1. /\ Len(ring) \in Nat /\ ChunkSamples \in Nat /\ ChunkSamples >= 1
      /\ ChunkSamples <= Len(ring) /\ \A i \in 1..Len(ring) : ring[i] \in Nat
  BY ChunkSize, LenProperties DEF HasChunk
<1>2. /\ SubSeq(ring, 1, ChunkSamples) \in Seq(Nat)
      /\ Len(SubSeq(ring, 1, ChunkSamples)) = ChunkSamples
      /\ \A i \in 1..ChunkSamples : SubSeq(ring, 1, ChunkSamples)[i] = ring[i]
  <2>1. \A i \in 1..ChunkSamples : ring[i] \in Nat
    BY <1>1
  <2> QED BY <1>1, <2>1, SubSeqProperties
<1>3. /\ Rest \in Seq(Nat) /\ Len(Rest) = Len(ring) - ChunkSamples
      /\ \A i \in 1..Len(Rest) : Rest[i] = ring[i + ChunkSamples]
  <2>1. \A i \in ChunkSamples + 1..Len(ring) : ring[i] \in Nat
    BY <1>1
  <2> QED BY <1>1, <2>1, SubSeqProperties DEF Rest
<1> QED BY <1>2, <1>3

----------------------------------------------------------------------------

\* A sample pushed has the number that the samples before it account for.
LEMMA PushStep == MicrophoneInv /\ PushesSample => MicrophoneInv'
<1> SUFFICES ASSUME MicrophoneInv, PushesSample PROVE MicrophoneInv'
  OBVIOUS
<1>1. PICK c \in Nat : c = drained * Channels
  BY ChunkSize DEF MicrophoneInv, TypeOK
<1>2. /\ ring' = Append(ring, captured) /\ captured' = captured + 1
      /\ burst' \in Nat /\ UNCHANGED <<lost, dropped, stop, drain, drained, reported, chunk>>
  BY DEF PushesSample, task, MicrophoneInv, TypeOK
<1>3. /\ ring \in Seq(Nat) /\ Len(ring) \in Nat /\ captured \in Nat /\ Len(ring) < RingCap
      /\ captured = Len(ring) + c + dropped + lost /\ lost \in Nat /\ dropped \in Nat
  BY <1>1, SizeAssumption DEF MicrophoneInv, TypeOK, Accounting, PushesSample, HasRoom
<1>4. /\ ring' \in Seq(Nat) /\ Len(ring') = Len(ring) + 1
      /\ \A i \in 1..Len(ring) : ring'[i] = ring[i]
      /\ ring'[Len(ring) + 1] = captured
  BY <1>2, <1>3, AppendProperties
<1>5. \A i \in 1..Len(ring) : c + i - 1 <= ring[i] /\ ring[i] <= c + i - 1 + dropped + lost
  BY <1>1 DEF MicrophoneInv, RingDrift
<1>6. \A i \in 1..Len(ring) : ring[i] \in Nat /\ ring[i] < captured
  BY <1>3, <1>5, LenProperties
<1>7. \A i \in 1..Len(chunk.samples) : chunk.samples[i] \in Nat /\ chunk.samples[i] < captured
  BY LenProperties DEF MicrophoneInv, TypeOK, Chunk, ChunkPast
<1>8. TypeOK'
  BY <1>2, <1>3, <1>4, SizeAssumption DEF MicrophoneInv, TypeOK
<1>9. Accounting'
  BY <1>1, <1>2, <1>3, <1>4, SMTT(20) DEF Accounting
<1>10. RingDrift'
  <2>1. \A i \in 1..Len(ring') : c + i - 1 <= ring'[i] /\ ring'[i] <= c + i - 1 + dropped + lost
    <3> TAKE i \in 1..Len(ring')
    <3>1. CASE i \in 1..Len(ring)
      BY <1>4, <1>5, <3>1
    <3>2. CASE i = Len(ring) + 1
      BY <1>3, <1>4, <3>2
    <3> QED BY <1>3, <1>4, <3>1, <3>2
  <2> QED BY <1>1, <1>2, <2>1 DEF RingDrift
<1>11. ChunkDrift' /\ Stamped' /\ ChunkOrder'
  BY <1>2 DEF MicrophoneInv, ChunkDrift, Stamped, Stamp, ChunkOrder
<1>12. RingOrder'
  <2>1. ASSUME NEW i \in 1..Len(ring'), NEW j \in 1..Len(ring'), i < j
        PROVE  ring'[i] < ring'[j]
    <3>1. i \in 1..Len(ring) /\ (j \in 1..Len(ring) \/ j = Len(ring) + 1)
      BY <1>3, <1>4, <2>1, SMTT(20)
    <3>2. ring'[i] = ring[i] /\ ring[i] < captured
      BY <1>4, <1>6, <3>1
    <3>3. CASE j \in 1..Len(ring)
      BY <1>4, <2>1, <3>1, <3>2, <3>3 DEF MicrophoneInv, RingOrder
    <3>4. CASE j = Len(ring) + 1
      BY <1>4, <3>2, <3>4
    <3> QED BY <3>1, <3>3, <3>4
  <2> QED BY <2>1 DEF RingOrder
<1>13. ChunkPast'
  BY <1>2, <1>3, <1>7 DEF ChunkPast
<1>14. ChunkFirst'
  <2>1. ASSUME NEW i \in 1..Len(chunk.samples), NEW j \in 1..Len(ring')
        PROVE  chunk.samples[i] < ring'[j]
    <3>1. CASE j \in 1..Len(ring)
      BY <1>4, <3>1 DEF MicrophoneInv, ChunkFirst
    <3>2. CASE j = Len(ring) + 1
      BY <1>4, <1>7, <3>2
    <3> QED BY <1>3, <1>4, <3>1, <3>2
  <2> QED BY <1>2, <2>1 DEF ChunkFirst
<1> QED BY <1>8, <1>9, <1>10, <1>11, <1>12, <1>13, <1>14 DEF MicrophoneInv

\* The other steps of a callback move samples between counters.
LEMMA CountStep ==
    MicrophoneInv /\ (CallbackStarts \/ LosesSample \/ CallbackEnds) => MicrophoneInv'
<1> SUFFICES ASSUME MicrophoneInv, CallbackStarts \/ LosesSample \/ CallbackEnds
             PROVE  MicrophoneInv'
  OBVIOUS
<1>1. PICK c \in Nat : c = drained * Channels
  BY ChunkSize DEF MicrophoneInv, TypeOK
<1>2. UNCHANGED <<ring, stop, drain, drained, reported, chunk>>
  BY DEF CallbackStarts, LosesSample, CallbackEnds, task
<1>3. PICK e \in Nat : /\ captured' = captured + e
                      /\ dropped' + lost' = (dropped + lost) + e
                      /\ burst' \in Nat /\ lost' \in Nat /\ dropped' \in Nat
  <2>1. CASE CallbackStarts
    <3>1. \A n \in 1..MaxBurst : n * Channels \in Nat
      BY ChunkSize, BoundAssumption
    <3>2. /\ captured' = captured + 0 /\ dropped' + lost' = (dropped + lost) + 0
          /\ burst' \in Nat /\ lost' \in Nat /\ dropped' \in Nat
      BY <2>1, <3>1 DEF CallbackStarts, MicrophoneInv, TypeOK
    <3> QED BY <3>2
  <2>2. CASE LosesSample
    <3>1. /\ captured' = captured + 1 /\ dropped' + lost' = (dropped + lost) + 1
          /\ burst' \in Nat /\ lost' \in Nat /\ dropped' \in Nat
      BY <2>2 DEF LosesSample, MicrophoneInv, TypeOK
    <3> QED BY <3>1
  <2>3. CASE CallbackEnds
    <3>1. /\ captured' = captured + 0 /\ dropped' + lost' = (dropped + lost) + 0
          /\ burst' \in Nat /\ lost' \in Nat /\ dropped' \in Nat
      BY <2>3 DEF CallbackEnds, Counted, MicrophoneInv, TypeOK
    <3> QED BY <3>1
  <2> QED BY <2>1, <2>2, <2>3
<1>4. /\ Len(ring) \in Nat /\ \A i \in 1..Len(ring) : ring[i] \in Nat
      /\ Len(chunk.samples) \in Nat
      /\ \A i \in 1..Len(chunk.samples) : chunk.samples[i] \in Nat
      /\ lost \in Nat /\ dropped \in Nat /\ captured \in Nat
  BY LenProperties DEF MicrophoneInv, TypeOK, Chunk
<1>5. TypeOK'
  BY <1>2, <1>3 DEF MicrophoneInv, TypeOK
<1>6. Accounting'
  <2>1. captured = Len(ring) + c + dropped + lost
    BY <1>1 DEF MicrophoneInv, Accounting
  <2>2. captured + e = Len(ring) + c + ((dropped + lost) + e)
    BY <1>4, <2>1
  <2>3. Len(ring) + c + dropped' + lost' = Len(ring) + c + (dropped' + lost')
    BY <1>3, <1>4
  <2> QED BY <1>1, <1>2, <1>3, <2>2, <2>3 DEF Accounting
<1>7. RingDrift'
  <2>1. \A i \in 1..Len(ring) : c + i - 1 <= ring[i] /\ ring[i] <= c + i - 1 + dropped + lost
    BY <1>1 DEF MicrophoneInv, RingDrift
  <2>2. \A i \in 1..Len(ring) : c + i - 1 <= ring[i] /\ ring[i] <= c + i - 1 + dropped' + lost'
    <3> TAKE i \in 1..Len(ring)
    <3>1. c + i - 1 <= ring[i] /\ ring[i] <= c + i - 1 + dropped + lost /\ ring[i] \in Nat
      BY <1>4, <2>1
    <3>2. ring[i] <= c + i - 1 + ((dropped + lost) + e)
      BY <1>4, <3>1
    <3> QED BY <1>3, <3>1, <3>2
  <2> QED BY <1>1, <1>2, <2>2 DEF RingDrift
<1>8. ChunkDrift'
  <2>1. PICK d \in Nat : d = chunk.frame * Channels
    BY ChunkSize DEF MicrophoneInv, TypeOK, Chunk
  <2>2. \A i \in 1..Len(chunk.samples) :
          d + i - 1 <= chunk.samples[i] /\ chunk.samples[i] <= d + i - 1 + dropped + lost
    BY <2>1 DEF MicrophoneInv, ChunkDrift
  <2>3. \A i \in 1..Len(chunk.samples) :
          d + i - 1 <= chunk.samples[i] /\ chunk.samples[i] <= d + i - 1 + dropped' + lost'
    <3> TAKE i \in 1..Len(chunk.samples)
    <3>1. /\ d + i - 1 <= chunk.samples[i] /\ chunk.samples[i] <= d + i - 1 + dropped + lost
          /\ chunk.samples[i] \in Nat
      BY <1>4, <2>2
    <3>2. chunk.samples[i] <= d + i - 1 + ((dropped + lost) + e)
      BY <1>4, <3>1
    <3> QED BY <1>3, <3>1, <3>2
  <2> QED BY <1>2, <2>1, <2>3 DEF ChunkDrift
<1>9. ChunkPast'
  <2>1. ASSUME NEW i \in 1..Len(chunk.samples) PROVE chunk.samples[i] < captured'
    <3>1. chunk.samples[i] < captured /\ chunk.samples[i] \in Nat
      BY <1>4 DEF MicrophoneInv, ChunkPast
    <3> QED BY <1>3, <1>4, <3>1
  <2> QED BY <1>2, <2>1 DEF ChunkPast
<1>10. RingOrder' /\ ChunkOrder' /\ ChunkFirst' /\ Stamped'
  BY <1>2 DEF MicrophoneInv, RingOrder, ChunkOrder, ChunkFirst, Stamped, Stamp
<1> QED BY <1>5, <1>6, <1>7, <1>8, <1>9, <1>10 DEF MicrophoneInv

\* A chunk takes the oldest samples of the ring with their drift.
LEMMA PublishStep == MicrophoneInv /\ DrainPublishes => MicrophoneInv'
<1> SUFFICES ASSUME MicrophoneInv, DrainPublishes PROVE MicrophoneInv'
  OBVIOUS
<1>1. PICK c \in Nat : c = drained * Channels
  BY ChunkSize DEF MicrophoneInv, TypeOK
<1>2. PICK k \in Nat \ {0} : k = ChunkSamples
  BY ChunkSize
<1> DEFINE head == SubSeq(ring, 1, ChunkSamples)
<1>3. /\ ring \in Seq(Nat) /\ Len(ring) \in Nat /\ k <= Len(ring) /\ Len(ring) <= RingCap
      /\ drained \in Nat /\ captured \in Nat /\ lost \in Nat /\ dropped \in Nat
      /\ captured = Len(ring) + c + dropped + lost
      /\ \A i \in 1..Len(ring) : ring[i] \in Nat
  BY <1>1, <1>2, LenProperties DEF DrainPublishes, HasChunk, MicrophoneInv, TypeOK, Accounting
<1>4. /\ ring' = Rest /\ chunk' = [frame |-> drained, ts |-> Stamp(drained), samples |-> head]
      /\ drained' = drained + ChunkFrames
      /\ UNCHANGED <<captured, burst, lost, dropped, stop, drain, reported>>
  BY DEF DrainPublishes
<1>5. /\ ring' \in Seq(Nat) /\ Len(ring') = Len(ring) - k
      /\ \A i \in 1..Len(ring') : ring'[i] = ring[i + k]
      /\ head \in Seq(Nat) /\ Len(head) = k
      /\ \A i \in 1..k : head[i] = ring[i]
  BY <1>2, <1>3, <1>4, PopSlice DEF DrainPublishes
<1>6. chunk'.samples = head /\ chunk'.frame = drained
  BY <1>4
<1> HIDE DEF head
<1>7. drained' * Channels = c + k
  BY <1>1, <1>2, <1>3, <1>4, ChunkSize
<1>8. \A i \in 1..Len(ring) : c + i - 1 <= ring[i] /\ ring[i] <= c + i - 1 + dropped + lost
  BY <1>1 DEF MicrophoneInv, RingDrift
<1>9. TypeOK'
  <2>1. chunk' \in Chunk
    BY <1>3, <1>4, <1>5, StampType DEF Chunk
  <2>2. drained' \in Nat
    BY <1>3, <1>4, SizeAssumption
  <2>3. Len(ring') <= RingCap
    BY <1>3, <1>5, SizeAssumption
  <2> QED BY <1>4, <1>5, <2>1, <2>2, <2>3 DEF MicrophoneInv, TypeOK
<1>10. Accounting'
  BY <1>3, <1>4, <1>5, <1>7 DEF Accounting
<1>11. RingDrift'
  <2>1. \A i \in 1..Len(ring') :
          (c + k) + i - 1 <= ring'[i] /\ ring'[i] <= (c + k) + i - 1 + dropped + lost
    <3> TAKE i \in 1..Len(ring')
    <3>1. i + k \in 1..Len(ring) /\ ring'[i] = ring[i + k]
      BY <1>3, <1>5
    <3> QED BY <1>3, <1>8, <3>1
  <2> QED BY <1>4, <1>7, <2>1 DEF RingDrift
<1>12. ChunkDrift'
  <2>1. \A i \in 1..Len(head) : c + i - 1 <= head[i] /\ head[i] <= c + i - 1 + dropped + lost
    <3> TAKE i \in 1..Len(head)
    <3>1. i \in 1..Len(ring) /\ head[i] = ring[i]
      BY <1>3, <1>5
    <3> QED BY <1>8, <3>1
  <2> QED BY <1>1, <1>4, <1>6, <2>1 DEF ChunkDrift
<1>13. RingOrder'
  <2>1. \A i \in 1..Len(ring') : i + k \in 1..Len(ring)
    BY <1>3, <1>5
  <2>2. \A i, j \in 1..Len(ring') : i < j => i + k < j + k
    BY <1>3, <1>5
  <2> QED BY <1>5, <2>1, <2>2 DEF MicrophoneInv, RingOrder
<1>14. ChunkOrder'
  <2>1. \A i \in 1..Len(head) : i \in 1..Len(ring) /\ head[i] = ring[i]
    BY <1>3, <1>5
  <2> QED BY <1>6, <2>1 DEF MicrophoneInv, RingOrder, ChunkOrder
<1>15. ChunkPast'
  <2>1. \A i \in 1..Len(ring) : ring[i] < captured
    <3> TAKE i \in 1..Len(ring)
    <3>1. ring[i] <= c + i - 1 + dropped + lost /\ ring[i] \in Nat
      BY <1>3, <1>8
    <3> QED BY <1>3, <3>1
  <2>2. \A i \in 1..Len(head) : i \in 1..Len(ring) /\ head[i] = ring[i]
    BY <1>3, <1>5
  <2> QED BY <1>4, <1>6, <2>1, <2>2 DEF ChunkPast
<1>16. ChunkFirst'
  <2>1. ASSUME NEW i \in 1..Len(head), NEW j \in 1..Len(ring') PROVE head[i] < ring'[j]
    <3>1. /\ i \in 1..Len(ring) /\ j + k \in 1..Len(ring) /\ i < j + k
          /\ head[i] = ring[i] /\ ring'[j] = ring[j + k]
      BY <1>3, <1>5, SMTT(20)
    <3> QED BY <3>1 DEF MicrophoneInv, RingOrder
  <2> QED BY <1>6, <2>1 DEF ChunkFirst
<1>17. Stamped'
  BY <1>4 DEF Stamped, Stamp
<1> QED BY <1>9, <1>10, <1>11, <1>12, <1>13, <1>14, <1>15, <1>16, <1>17 DEF MicrophoneInv

----------------------------------------------------------------------------

\* Samples are accounted for, kept in order and stamped with bounded drift.
THEOREM MicrophoneInvariant == Spec => []MicrophoneInv
<1>1. Init => MicrophoneInv
  <2> SUFFICES ASSUME Init PROVE MicrophoneInv
    OBVIOUS
  <2>1. TypeOK /\ ring = <<>> /\ chunk.samples = <<>>
    <3>1. chunk \in Chunk /\ chunk.samples = <<>>
      BY DEF Init, Chunk
    <3>2. ring \in Seq(Nat) /\ Len(ring) = 0
      BY DEF Init
    <3>3. /\ captured \in Nat /\ burst \in Nat /\ lost \in Nat /\ dropped \in Nat
          /\ drained \in Nat /\ reported \in Nat /\ stop \in BOOLEAN
          /\ drain \in {"top", "ticking", "draining", "over"} /\ ring = <<>>
      BY DEF Init
    <3> QED BY <3>1, <3>2, <3>3, SizeAssumption DEF TypeOK
  <2>2. Accounting
    <3>1. drained * Channels = 0
      BY SizeAssumption DEF Init
    <3> QED BY <3>1 DEF Init, Accounting
  <2>3. Stamped
    <3>1. chunk.ts = 0 /\ chunk.frame = 0
      BY DEF Init
    <3>2. 0 * Nanos = 0 /\ 0 % Wrap = 0 /\ 0 \div Rate = 0
      BY ClockAssumption
    <3> QED BY <3>1, <3>2 DEF Stamped, Stamp
  <2> QED BY <2>1, <2>2, <2>3 DEF MicrophoneInv, RingDrift, ChunkDrift, RingOrder, ChunkOrder,
             ChunkPast, ChunkFirst
<1>2. MicrophoneInv /\ [Next]_vars => MicrophoneInv'
  <2> SUFFICES ASSUME MicrophoneInv, [Next]_vars PROVE MicrophoneInv'
    OBVIOUS
  <2>1. CASE CallbackStarts \/ CallbackSteps
    BY <2>1, PushStep, CountStep DEF CallbackSteps
  <2>2. CASE DrainPublishes
    BY <2>2, PublishStep
  <2>3. ASSUME \/ DrainStops \/ DrainLoops \/ DrainTicks \/ DrainReports \/ SourceDropped
               \/ Finished \/ UNCHANGED vars
        PROVE  MicrophoneInv'
    <3>1. UNCHANGED <<captured, burst, lost, ring, dropped, drained, chunk>>
      BY <2>3 DEF DrainStops, DrainLoops, DrainTicks, DrainReports, SourceDropped, Finished,
                  capture, task, vars
    <3>2. TypeOK'
      BY <2>3, <3>1 DEF DrainStops, DrainLoops, DrainTicks, DrainReports, SourceDropped,
                        Finished, capture, task, vars, MicrophoneInv, TypeOK
    <3> QED BY <3>1, <3>2 DEF MicrophoneInv, Accounting, RingDrift, ChunkDrift, Stamped, Stamp,
               RingOrder, ChunkOrder, ChunkPast, ChunkFirst
  <2> QED BY <2>1, <2>2, <2>3 DEF Next, DrainSteps
<1> QED BY <1>1, <1>2, PTL DEF Spec

\* The variables have their types.
THEOREM TypeCorrect == Spec => []TypeOK
<1>1. MicrophoneInv => TypeOK
  BY DEF MicrophoneInv
<1> QED BY <1>1, MicrophoneInvariant, PTL

\* No sample is lost without being counted, in any interleaving.
THEOREM SamplesAccounted == Spec => []Accounting
<1>1. MicrophoneInv => Accounting
  BY DEF MicrophoneInv
<1> QED BY <1>1, MicrophoneInvariant, PTL

\* Samples reach the fan-out in order of capture, each at most once.
THEOREM SamplesInOrder == Spec => []InOrder
<1>1. MicrophoneInv => InOrder
  <2> SUFFICES ASSUME MicrophoneInv PROVE InOrder
    OBVIOUS
  <2> DEFINE s == chunk.samples
  <2>1. s \in Seq(Nat) /\ ring \in Seq(Nat) /\ Len(s) \in Nat /\ Len(ring) \in Nat
    BY LenProperties DEF MicrophoneInv, TypeOK, Chunk
  <2>2. /\ Len(Pending) = Len(s) + Len(ring)
        /\ \A i \in 1..Len(s) : Pending[i] = s[i]
        /\ \A i \in Len(s) + 1..Len(s) + Len(ring) :
             Pending[i] = ring[i - Len(s)] /\ i - Len(s) \in 1..Len(ring)
    <3> HIDE DEF s
    <3>1. Pending = s \o ring
      BY DEF Pending, s
    <3> QED BY <2>1, <3>1, ConcatProperties
  <2>3. /\ \A i, j \in 1..Len(s) : i < j => s[i] < s[j]
        /\ \A i, j \in 1..Len(ring) : i < j => ring[i] < ring[j]
        /\ \A i \in 1..Len(s), j \in 1..Len(ring) : s[i] < ring[j]
    BY DEF MicrophoneInv, ChunkOrder, RingOrder, ChunkFirst
  <2> HIDE DEF s
  <2> SUFFICES ASSUME NEW i \in 1..Len(s) + Len(ring), NEW j \in 1..Len(s) + Len(ring), i < j
               PROVE  Pending[i] < Pending[j]
    BY <2>2 DEF InOrder
  <2>4. CASE j <= Len(s)
    BY <2>1, <2>2, <2>3, <2>4
  <2>5. CASE i > Len(s)
    <3>1. /\ i \in Len(s) + 1..Len(s) + Len(ring) /\ j \in Len(s) + 1..Len(s) + Len(ring)
          /\ i - Len(s) < j - Len(s)
      BY <2>1, <2>5
    <3>2. /\ Pending[i] = ring[i - Len(s)] /\ i - Len(s) \in 1..Len(ring)
          /\ Pending[j] = ring[j - Len(s)] /\ j - Len(s) \in 1..Len(ring)
      BY <2>2, <3>1
    <3> QED BY <2>3, <3>1, <3>2
  <2>6. CASE i <= Len(s) /\ j > Len(s)
    BY <2>1, <2>2, <2>3, <2>6, SMTT(20)
  <2> QED BY <2>1, <2>4, <2>5, <2>6
<1> QED BY <1>1, MicrophoneInvariant, PTL

\* A stamp whose product does not wrap is the exact one, but for less than a nanosecond.
LEMMA StampRounds ==
    ASSUME NEW n \in Nat, n * Nanos < Wrap
    PROVE  Stamp(n) * Rate <= n * Nanos /\ n * Nanos < Stamp(n) * Rate + Rate
<1> DEFINE f == n * Nanos  q == f \div Rate  r == f % Rate
<1>1. f \in Nat /\ f < Wrap /\ Wrap \in Nat \ {0} /\ Rate \in Nat \ {0}
  BY ClockAssumption
<1>2. Stamp(n) = (f % Wrap) \div Rate
  BY DEF Stamp
<1> HIDE DEF f
<1>3. f % Wrap = f
  BY <1>1
<1>4. q \in Nat /\ r \in Nat /\ r < Rate /\ f = Rate * q + r
  BY <1>1
<1> HIDE DEF q, r
<1>5. q * Rate = Rate * q /\ Rate * q \in Nat
  BY <1>1, <1>4
<1>6. Stamp(n) = q
  BY <1>2, <1>3 DEF q
<1>7. q * Rate <= f /\ f < q * Rate + Rate
  BY <1>1, <1>4, <1>5
<1> QED BY <1>6, <1>7 DEF f

\* The samples of a chunk against its stamp: what the count of frames is behind by, in
\* time, and the rounding.
LEMMA StampDrift ==
    ASSUME NEW n \in Nat, n * Nanos < Wrap, NEW k \in Nat, NEW s \in Nat, NEW l \in Nat,
           n * Channels + k <= s, s <= n * Channels + k + l
    PROVE  LET stamped == Stamp(n) * (Rate * Channels) + k * Nanos IN
           stamped <= s * Nanos /\ s * Nanos < stamped + Rate * Channels + l * Nanos
<1> DEFINE t == Stamp(n)  f == n * Nanos  a == t * Rate
<1>1. /\ Channels \in Nat \ {0} /\ Rate \in Nat \ {0} /\ Nanos \in Nat \ {0}
      /\ t \in Nat /\ a <= f /\ f < a + Rate
  BY SizeAssumption, ClockAssumption, StampRounds, StampType
<1>2. t * (Rate * Channels) = a * Channels /\ a \in Nat /\ f \in Nat
  BY <1>1
<1>3. (n * Channels) * Nanos = f * Channels
  BY <1>1
<1> HIDE DEF t, f, a
<1>4. a * Channels <= f * Channels
  <2>1. (f - a) * Channels >= 0
    BY <1>1, <1>2
  <2>2. (f - a) * Channels = f * Channels - a * Channels
    BY <1>1, <1>2
  <2> QED BY <1>1, <1>2, <2>1, <2>2
<1>5. f * Channels < a * Channels + Rate * Channels
  <2>1. (a + Rate - f) * Channels > 0
    BY <1>1, <1>2
  <2>2. (a + Rate - f) * Channels = a * Channels + Rate * Channels - f * Channels
    BY <1>1, <1>2
  <2> QED BY <1>1, <1>2, <2>1, <2>2
<1> DEFINE c == n * Channels
<1>6. c \in Nat /\ c + k <= s /\ s <= c + k + l
  BY <1>1
<1>7. c * Nanos = f * Channels
  BY <1>3
<1> HIDE DEF c
<1>8. f * Channels + k * Nanos <= s * Nanos
  <2>1. (s - c - k) * Nanos >= 0
    BY <1>1, <1>6
  <2>2. (s - c - k) * Nanos = s * Nanos - c * Nanos - k * Nanos
    BY <1>1, <1>6
  <2> QED BY <1>1, <1>2, <1>6, <1>7, <2>1, <2>2
<1>9. s * Nanos <= f * Channels + k * Nanos + l * Nanos
  <2>1. (c + k + l - s) * Nanos >= 0
    BY <1>1, <1>6
  <2>2. (c + k + l - s) * Nanos = c * Nanos + k * Nanos + l * Nanos - s * Nanos
    BY <1>1, <1>6
  <2> QED BY <1>1, <1>2, <1>6, <1>7, <2>1, <2>2
<1> DEFINE x == a * Channels  y == f * Channels  u == k * Nanos  v == l * Nanos
           w == Rate * Channels  z == s * Nanos
<1>10. x \in Int /\ y \in Int /\ u \in Int /\ v \in Int /\ w \in Int /\ z \in Int
  BY <1>1, <1>2
<1>11. x <= y /\ y < x + w /\ y + u <= z /\ z <= y + u + v
  BY <1>4, <1>5, <1>8, <1>9
<1>12. t * w + u = x + u
  BY <1>2
<1> HIDE DEF x, y, u, v, w, z
<1>13. x + u <= z /\ z < x + u + w + v
  BY <1>10, <1>11
<1> QED BY <1>12, <1>13 DEF t, u, v, w, z

\* A chunk's stamp is early by no more than the samples lost and never late, for as long
\* as the 64-bit product does not wrap.
THEOREM DriftBounded == Spec => []DriftIsLoss
<1>1. MicrophoneInv => DriftIsLoss
  <2> SUFFICES ASSUME MicrophoneInv, chunk.frame * Nanos < Wrap,
                      NEW i \in 1..Len(chunk.samples)
               PROVE  LET stamped == chunk.ts * (Rate * Channels) + (i - 1) * Nanos
                          taken   == chunk.samples[i] * Nanos
                      IN  /\ stamped <= taken
                          /\ taken < stamped + Rate * Channels + (dropped + lost) * Nanos
    BY DEF DriftIsLoss
  <2> DEFINE n == chunk.frame  k == i - 1  s == chunk.samples[i]  l == dropped + lost
  <2>1. n \in Nat /\ k \in Nat /\ s \in Nat /\ l \in Nat /\ n * Nanos < Wrap
    BY LenProperties DEF MicrophoneInv, TypeOK, Chunk
  <2>2. n * Channels + k <= s /\ s <= n * Channels + k + l
    <3>1. PICK d \in Nat : d = n * Channels
      BY <2>1, ChunkSize
    <3>2. d + i - 1 <= s /\ s <= d + i - 1 + dropped + lost
      BY <3>1 DEF MicrophoneInv, ChunkDrift
    <3>3. dropped \in Nat /\ lost \in Nat
      BY DEF MicrophoneInv, TypeOK
    <3> QED BY <2>1, <3>1, <3>2, <3>3
  <2>3. chunk.ts = Stamp(n)
    BY DEF MicrophoneInv, Stamped
  <2> HIDE DEF n, k, s, l
  <2>4. LET stamped == Stamp(n) * (Rate * Channels) + k * Nanos IN
        stamped <= s * Nanos /\ s * Nanos < stamped + Rate * Channels + l * Nanos
    BY <2>1, <2>2, StampDrift
  <2> QED BY <2>3, <2>4 DEF k, s, l
<1> QED BY <1>1, MicrophoneInvariant, PTL
=============================================================================
