------------------------- MODULE VideoEncoderProofs -------------------------
(***************************************************************************)
(* Proofs about VideoEncoder, for every set of viewers, every capacity of   *)
(* the request channel, every choice of GOP lengths and frame timing.       *)
(***************************************************************************)
EXTENDS VideoEncoder, TLAPS

USE KeyCapAssumption, IdrAssumption, TimeAssumption

\* A viewer's step, whichever it is, leaves the encoder alone and loses no request.
LEMMA ViewerStep ==
    ASSUME EncoderInv, NEW v \in Viewer,
           Joins(v) \/ Asks(v) \/ AsksAgain(v) \/ Loses(v) \/ Leaves(v)
    PROVE  EncoderInv'
<1> USE DEF EncoderInv, Over, encoderVars, clockVars
<1>1. UNCHANGED <<task, encoderVars, clockVars>>
  BY DEF Joins, Asks, AsksAgain, Loses, Leaves, ViewerMoves
<1>2. keyq' \in 0..KeyCap /\ (keyq > 0 => keyq' > 0)
  BY DEF TypeOK, Joins, Asks, AsksAgain, Loses, Leaves, AfterRequest
<1>3. PICK s \in ViewState : view' = [view EXCEPT ![v] = s]
  BY DEF Joins, Asks, AsksAgain, Loses, Leaves, ViewerMoves, ViewState
<1>4. TypeOK'
  BY <1>1, <1>2, <1>3 DEF TypeOK
<1>5. SampleAtHand' /\ RtpClockHonest'
  BY <1>1 DEF SampleAtHand, RtpClockHonest
<1>6. NoLostRequest'
  <2>1. CASE Asks(v) \/ AsksAgain(v)
    <3>1. Over \/ keyq' > 0
      BY <2>1 DEF Asks, AsksAgain, AfterRequest, TypeOK
    <3> QED BY <1>1, <3>1 DEF NoLostRequest
  <2>2. CASE Joins(v) \/ Loses(v) \/ Leaves(v)
    <3>1. \A w \in Viewer : view'[w] = "asked" => view[w] = "asked"
      BY <2>2, <1>4 DEF TypeOK, Joins, Loses, Leaves, ViewerMoves
    <3> QED BY <1>1, <1>2, <3>1 DEF NoLostRequest
  <2> QED BY <2>1, <2>2
<1> QED BY <1>4, <1>5, <1>6

\* A step of the encoder task keeps its types.
LEMMA EncoderTypeStep ==
    ASSUME EncoderInv, EncoderSteps \/ SourceCloses \/ EncoderFails
    PROVE  TypeOK'
<1> USE DEF EncoderInv, TypeOK, TaskState, ViewState, encoderVars, clockVars
<1>1. ASSUME NEW dt \in Gaps, Receives(dt) PROVE TypeOK'
  BY <1>1 DEF Receives
<1>2. CASE Drains
  BY <1>2 DEF Drains
<1>3. CASE EmitsNothing
  BY <1>3 DEF EmitsNothing, ForceAfterNothing, AgeAfterNothing
<1>4. CASE Encodes
  <2>1. age' \in -1..MaxAge /\ owed' \in Int /\ clamped' \in BOOLEAN
    BY <1>4 DEF Encodes, Clamp
  <2>2. sinceIdr' \in -1..idrInterval'
    BY <1>4 DEF Encodes
  <2> QED BY <1>4, <2>1, <2>2 DEF Encodes
<1>5. CASE Writes
  BY <1>5 DEF Writes
<1>6. CASE SourceCloses \/ EncoderFails
  <2>1. /\ keyq' \in 0..KeyCap /\ age' \in -1..MaxAge
        /\ sinceIdr' \in -1..idrInterval' /\ idrInterval' \in IdrIntervals
    BY <1>6 DEF SourceCloses, EncoderFails, Returns
  <2> QED BY <1>6, <2>1 DEF SourceCloses, EncoderFails, Returns
<1> QED BY <1>1, <1>2, <1>3, <1>4, <1>5, <1>6 DEF EncoderSteps

\* A step of the encoder task loses no request and keeps the RTP clock.
LEMMA EncoderStep ==
    ASSUME EncoderInv, EncoderSteps \/ SourceCloses \/ EncoderFails
    PROVE  SampleAtHand' /\ NoLostRequest' /\ RtpClockHonest'
<1> USE DEF EncoderInv, SampleAtHand, NoLostRequest, RtpClockHonest, Over, encoderVars,
            clockVars
<1>1. ASSUME NEW dt \in Gaps, Receives(dt)
      PROVE  SampleAtHand' /\ NoLostRequest' /\ RtpClockHonest'
  <2>1. RtpClockHonest'
    BY <1>1 DEF Receives, TypeOK
  <2> QED BY <1>1, <2>1 DEF Receives
<1>2. CASE Drains
  BY <1>2 DEF Drains, TypeOK
<1>3. CASE EmitsNothing
  BY <1>3 DEF EmitsNothing, ForceAfterNothing, AgeAfterNothing
<1>4. CASE Encodes
  <2>1. RtpClockHonest'
    <3>1. CASE age = -1 \/ clamped'
      BY <1>4, <3>1 DEF Encodes
    <3>2. CASE age # -1 /\ ~clamped'
      <4>1. ~clamped /\ Clamp(age) = age
        BY <1>4, <3>2 DEF Encodes, TypeOK
      <4>2. age' = 0 /\ owed' = owed - age /\ owed = age
        BY <1>4, <3>2, <4>1 DEF Encodes
      <4> QED BY <4>2 DEF TypeOK
    <3> QED BY <3>1, <3>2
  <2>2. SampleAtHand'
    BY <1>4 DEF Encodes
  <2>3. NoLostRequest'
    BY <1>4 DEF Encodes, IdrDue
  <2> QED BY <2>1, <2>2, <2>3
<1>5. CASE Writes
  <2>1. \A v \in Viewer : view'[v] = "asked" => view[v] = "asked" /\ sample # "idr"
    BY <1>5 DEF Writes, TypeOK
  <2> QED BY <1>5, <2>1 DEF Writes
<1>6. CASE SourceCloses \/ EncoderFails
  BY <1>6 DEF SourceCloses, EncoderFails, Returns
<1> QED BY <1>1, <1>2, <1>3, <1>4, <1>5, <1>6 DEF EncoderSteps

\* What the encoder starts with.
LEMMA InitEncoder ==
    ASSUME Init
    PROVE  EncoderInv
<1>1. TypeOK
  <2>1. view \in [Viewer -> ViewState]
    BY DEF Init, ViewState
  <2>2. keyq \in 0..KeyCap /\ age \in -1..MaxAge
    BY DEF Init
  <2>6. idrInterval \in IdrIntervals /\ sinceIdr \in -1..idrInterval
    BY DEF Init
  <2>3. task \in TaskState /\ sample \in {"none", "idr", "p"}
    BY DEF Init, TaskState
  <2>4. owed \in Int
    BY DEF Init
  <2>5. force \in BOOLEAN /\ clamped \in BOOLEAN
    BY Zenon DEF Init
  <2> QED BY <2>1, <2>2, <2>3, <2>4, <2>5, <2>6 DEF TypeOK
<1>2. SampleAtHand /\ NoLostRequest
  BY DEF Init, SampleAtHand, NoLostRequest
<1>3. RtpClockHonest
  BY DEF Init, RtpClockHonest
<1> QED BY <1>1, <1>2, <1>3 DEF EncoderInv

\* Every step of the encoder, a viewer or nobody keeps the invariant.
LEMMA StepEncoder ==
    ASSUME EncoderInv, [Next]_vars
    PROVE  EncoderInv'
<1>1. CASE EncoderSteps \/ SourceCloses \/ EncoderFails
  BY <1>1, EncoderTypeStep, EncoderStep DEF EncoderInv
<1>2. ASSUME NEW v \in Viewer,
             Joins(v) \/ Asks(v) \/ AsksAgain(v) \/ Loses(v) \/ Leaves(v)
      PROVE  EncoderInv'
  BY <1>2, ViewerStep
<1>3. CASE UNCHANGED vars
  BY <1>3 DEF vars, encoderVars, clockVars, EncoderInv, TypeOK, SampleAtHand,
              NoLostRequest, RtpClockHonest, Over
<1> QED BY <1>1, <1>2, <1>3 DEF Next, Finished

\* EncoderInv holds in every reachable state of the encoder, its requests and viewers.
THEOREM EncoderInvariant == Spec => []EncoderInv
<1>1. Init => EncoderInv
  BY InitEncoder
<1>2. EncoderInv /\ [Next]_vars => EncoderInv'
  BY StepEncoder
<1> QED BY <1>1, <1>2, PTL DEF Spec

\* The request channel holds at most its capacity, and the encoder's state its types.
THEOREM TypeCorrect == Spec => []TypeOK
<1>1. EncoderInv => TypeOK
  BY DEF EncoderInv
<1> QED BY <1>1, EncoderInvariant, PTL

\* A viewer that asked for a keyframe and cannot decode yet has one on the way, for
\* every number of viewers and even a request channel of capacity one.
THEOREM NoRequestLost == Spec => []NoLostRequest
<1>1. EncoderInv => NoLostRequest
  BY DEF EncoderInv
<1> QED BY <1>1, EncoderInvariant, PTL

\* The durations written add up to the capture time of the last frame written.
THEOREM RtpClockIsHonest == Spec => []RtpClockHonest
<1>1. EncoderInv => RtpClockHonest
  BY DEF EncoderInv
<1> QED BY <1>1, EncoderInvariant, PTL
=============================================================================
