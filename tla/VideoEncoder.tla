---------------------------- MODULE VideoEncoder ----------------------------
(***************************************************************************)
(* The shared video encoder task of joy-media encode/video.rs, the keyframe *)
(* requests of encode/mod.rs that session tasks send it from other threads, *)
(* and what the viewers of the shared track can decode.                     *)
(*                                                                          *)
(* The encoder (openh264), the track and the viewers are external: see      *)
(* Encodes, Writes and the viewer actions for what is assumed of them.      *)
(***************************************************************************)
EXTENDS Integers, FiniteSets

CONSTANTS
    Viewer,         \* the clients that may watch
    KeyCap,         \* capacity of the keyframe request channel (4 in mod.rs)
    IdrIntervals,   \* the settings of idr_interval_frames, 0 for no periodic IDR
    Gaps,           \* time from one received frame to the next
    MinDuration,    \* MIN_SAMPLE_DURATION
    MaxDuration,    \* MAX_SAMPLE_DURATION
    MaxAge          \* bound of the model: the longest time without a written sample

ASSUME KeyCapAssumption == KeyCap \in Nat \ {0}
ASSUME IdrAssumption    == IdrIntervals \subseteq Nat
ASSUME TimeAssumption   ==
    /\ Gaps \subseteq Nat /\ MinDuration \in Nat /\ MaxDuration \in Nat /\ MaxAge \in Nat
    /\ MinDuration <= MaxDuration

VARIABLES
    idrInterval,    \* VideoEncodeConfig::idr_interval_frames of this run
    view,       \* what each viewer has: see ViewState
    keyq,       \* number of requests in the keyframe channel
    task,       \* control state of run_video_encoder
    force,      \* force_intra_frame() was called and no IDR was emitted since
    sinceIdr,   \* frames emitted since the last IDR, -1 before the first
    sample,     \* the encoded frame at hand: "idr" | "p" | "none"
    age,        \* capture time from prev_written_ts to the frame at hand, -1 for None
    owed,       \* history: capture time not yet covered by written durations
    clamped     \* history: a duration was clamped

encoderVars == <<idrInterval, force, sinceIdr, sample>>
clockVars   == <<age, owed, clamped>>
vars == <<view, keyq, task, encoderVars, clockVars>>

\* A viewer joins when its peer connection is connected, has asked once its session
\* task handled that event, and decodes from the first IDR on. One that lost packets
\* cannot decode: the agent discards its RTCP feedback (peer.rs).
ViewState == {"away", "joined", "asked", "decoding", "lost"}
TaskState == {"receiving", "draining", "encoding", "writing", "closed", "failed"}
Over == task \in {"closed", "failed"}

TypeOK ==
    /\ view \in [Viewer -> ViewState]
    /\ keyq \in 0..KeyCap
    /\ task \in TaskState
    /\ force \in BOOLEAN
    /\ idrInterval \in IdrIntervals
    /\ sinceIdr \in -1..idrInterval
    /\ sample \in {"none", "idr", "p"}
    /\ age \in -1..MaxAge /\ owed \in Int
    /\ clamped \in BOOLEAN

Init ==
    /\ view = [v \in Viewer |-> "away"]
    /\ keyq = 0
    /\ task = "receiving"
    /\ idrInterval \in IdrIntervals
    /\ force = FALSE
    /\ sinceIdr = -1
    /\ sample = "none"
    /\ age = -1 /\ owed = 0 /\ clamped = FALSE

----------------------------------------------------------------------------
(* The viewers and their session tasks *)

ViewerMoves(v, from, to) ==
    /\ view[v] \in from
    /\ view' = [view EXCEPT ![v] = to]
    /\ UNCHANGED <<task, encoderVars, clockVars>>

Joins(v) == ViewerMoves(v, {"away"}, "joined") /\ UNCHANGED keyq
Loses(v) == ViewerMoves(v, {"decoding"}, "lost") /\ UNCHANGED keyq
Leaves(v) == ViewerMoves(v, ViewState \ {"away"}, "away") /\ UNCHANGED keyq

\* KeyframeRequester::request(): try_send, dropped when the channel is full or closed.
\* (The Wrong... operators are faulty variants that the properties must notice.)
WrongNoRequest == keyq
WrongNoLimit   == keyq + 1
AfterRequest   == IF keyq < KeyCap /\ ~Over THEN keyq + 1 ELSE keyq

\* The session handles Connected: the first, or a later one of a viewer that an IDR
\* reached already or that comes back from a disconnection.
Asks(v) ==
    /\ ViewerMoves(v, {"joined"}, "asked")
    /\ keyq' = AfterRequest
AsksAgain(v) ==
    /\ ViewerMoves(v, {"decoding"}, "decoding") \/ ViewerMoves(v, {"lost"}, "asked")
    /\ keyq' = AfterRequest

----------------------------------------------------------------------------
(* run_video_encoder *)

\* rx.recv() returned a frame, captured dt after the one received before. (Lagged
\* frames are skipped: a larger dt.)
Receives(dt) ==
    /\ task = "receiving"
    /\ age + dt <= MaxAge
    /\ task' = "draining"
    /\ IF age = -1 THEN UNCHANGED clockVars
       ELSE /\ age' = age + dt
            /\ owed' = IF clamped THEN 0 ELSE owed + dt
            /\ UNCHANGED clamped
    /\ UNCHANGED <<view, keyq, encoderVars>>

\* The task returns, and what it owns is dropped with it: the encoder, prev_written_ts
\* and the receiver of the requests.
Returns(outcome) ==
    /\ task' = outcome
    /\ keyq' = 0 /\ sample' = "none" /\ force' = FALSE /\ sinceIdr' = -1 /\ age' = -1
    /\ UNCHANGED <<view, idrInterval, owed, clamped>>

\* rx.recv() returned Closed.
SourceCloses == task = "receiving" /\ Returns("closed")

\* All queued requests collapse into one force_intra_frame().
Drains ==
    /\ task = "draining"
    /\ force' = (force \/ keyq > 0)
    /\ keyq' = 0
    /\ task' = "encoding"
    /\ UNCHANGED <<view, idrInterval, sinceIdr, sample, clockVars>>

\* No sample for this frame: to_i420 failed, rate control skipped it, or the bitstream
\* is empty. openh264 is assumed to keep a forced or due IDR for the next frame.
WrongForceAfterNothing == FALSE
ForceAfterNothing      == force
WrongAgeAfterNothing   == 0
AgeAfterNothing        == age
EmitsNothing ==
    /\ task = "encoding"
    /\ task' = "receiving"
    /\ force' = ForceAfterNothing
    /\ age' = AgeAfterNothing
    /\ UNCHANGED <<view, keyq, idrInterval, sinceIdr, sample, owed, clamped>>

\* Duration of the sample: from the previous written sample, within the bounds.
Clamp(d) == IF d < MinDuration THEN MinDuration ELSE IF d > MaxDuration THEN MaxDuration ELSE d

\* encode() emits an IDR when one is forced or due, and may emit one at any time (a
\* change of resolution re-initializes the encoder). prev_written_ts is set here.
WrongIdrDue == force \/ sinceIdr = -1
IdrDue      == force \/ sinceIdr = -1 \/ sinceIdr + 1 = idrInterval
Encodes ==
    /\ task = "encoding"
    /\ task' = "writing"
    /\ \/ sample' = "idr" /\ force' = FALSE /\ sinceIdr' = 0
       \/ /\ ~IdrDue
          /\ sample' = "p"
          /\ sinceIdr' = IF sinceIdr < idrInterval THEN sinceIdr + 1 ELSE sinceIdr
          /\ UNCHANGED force
    /\ age' = 0
    /\ clamped' = (clamped \/ (age # -1 /\ Clamp(age) # age))
    /\ owed' = IF age = -1 \/ clamped' THEN 0 ELSE owed - Clamp(age)
    /\ UNCHANGED <<view, keyq, idrInterval>>

\* encode() fails, or write_sample() does.
EncoderFails == task \in {"encoding", "writing"} /\ Returns("failed")

\* write_sample(): every connected viewer gets the sample; an IDR makes it decodable.
Writes ==
    /\ task = "writing"
    /\ task' = "receiving"
    /\ view' = [v \in Viewer |-> IF sample = "idr" /\ view[v] # "away"
                                 THEN "decoding" ELSE view[v]]
    /\ sample' = "none"
    /\ UNCHANGED <<keyq, idrInterval, force, sinceIdr, clockVars>>

----------------------------------------------------------------------------

Finished == Over /\ UNCHANGED vars

EncoderSteps ==
    \/ \E dt \in Gaps : Receives(dt)
    \/ Drains \/ EmitsNothing \/ Encodes \/ Writes

Next ==
    \/ \E v \in Viewer : Joins(v) \/ Asks(v) \/ AsksAgain(v) \/ Loses(v) \/ Leaves(v)
    \/ EncoderSteps \/ SourceCloses \/ EncoderFails \/ Finished

\* The scheduler runs the encoder and the session tasks; the source keeps delivering
\* frames; and the encoder does not skip, nor the converter refuse, every frame for ever.
Fairness ==
    /\ WF_vars(EncoderSteps) /\ SF_vars(Encodes)
    /\ \A v \in Viewer : WF_vars(Asks(v))
Spec == Init /\ [][Next]_vars /\ Fairness

----------------------------------------------------------------------------
(* What must hold *)

\* A sample is at hand exactly while it is being written.
SampleAtHand == ~Over => (sample # "none" <=> task = "writing")

\* No request is lost: while a viewer that asked cannot decode, a request is queued,
\* an IDR is forced, or the sample at hand is one. (encode/mod.rs: "if the request
\* queue is full an IDR is already on the way".) Requests land in any gap between the
\* drain, the encode, its failures and the write, and are dropped on a full queue.
NoLostRequest ==
    ~Over => \A v \in Viewer : view[v] = "asked" => keyq > 0 \/ force \/ sample = "idr"

\* The RTP clock, the sum of the written durations, keeps up with the capture clock
\* unless a gap is out of bounds: what it owes is the age of the last written sample,
\* whatever frames were skipped, empty, unconvertible or lagged in between.
RtpClockHonest ==
    (~clamped /\ age # -1) => owed = age

\* The inductive invariant behind the two.
EncoderInv == TypeOK /\ SampleAtHand /\ NoLostRequest /\ RtpClockHonest

\* A fresh viewer decodes the stream soon, unless it leaves or the encoder ends: its
\* request is enough, no periodic IDR is needed: it holds with idr_interval_frames 0 too.
FreshViewerDecodes ==
    \A v \in Viewer :
        view[v] \in {"joined", "asked"} ~> (view[v] \in {"decoding", "lost", "away"} \/ Over)

\* A viewer that lost packets recovers, though its feedback is discarded: the GOP
\* ceiling, where one is set, forces an IDR.
LostViewerRecovers ==
    \A v \in Viewer :
        (idrInterval > 0 /\ view[v] = "lost") ~> (view[v] \in {"decoding", "away"} \/ Over)
=============================================================================
