------------------------------ MODULE LiveView ------------------------------
(***************************************************************************)
(* Clients coming and going while the agent serves: the pumps of            *)
(* signaling/ws.rs, the accept queue they share, the accept loop and the    *)
(* session tasks of peer.rs, composed with the shared encoder of            *)
(* VideoEncoder, whose viewers are the sessions' connected peers.           *)
(*                                                                          *)
(* What one pump and one session say to each other is SignalingSession;     *)
(* here a session keeps only the stages at which it affects the others.     *)
(***************************************************************************)
EXTENDS Integers, Sequences

CONSTANTS
    Viewer,         \* places for clients: one that left may be taken again
    Followed,       \* the clients that the liveness properties follow: they are all alike
    AcceptCap,      \* ACCEPT_QUEUE_CAPACITY (16 in ws.rs)
    KeyCap, IdrIntervals, Gaps, MinDuration, MaxDuration, MaxAge  \* see VideoEncoder

ASSUME AcceptAssumption == AcceptCap \in Nat \ {0}
ASSUME FollowedAssumption == Followed \subseteq Viewer
ASSUME EncoderAssumption ==
    /\ KeyCap \in Nat \ {0} /\ IdrIntervals \subseteq Nat /\ Gaps \subseteq Nat
    /\ MinDuration \in Nat /\ MaxDuration \in Nat /\ MaxAge \in Nat
    /\ MinDuration <= MaxDuration

VARIABLES
    here,       \* the clients that have not left
    pump,       \* pump[c]: "none" | "offering" (accept_tx.send waits) | "pumping"
    offers,     \* the offering pumps in the order in which they wait
    queue,      \* the accept queue
    hub,        \* "running" | "aborted": the accept loop
    session,    \* session[c]: the stage of handle_session, see Stage
    view, keyq, task, idrInterval, force, sinceIdr, sample, age, owed, clamped

sessionVars == <<here, pump, offers, queue, hub, session>>
viewVars    == <<view, keyq, task, idrInterval, force, sinceIdr, sample, age, owed, clamped>>
vars == <<sessionVars, viewVars>>

Encoder == INSTANCE VideoEncoder
Over == Encoder!Over

\* "loop" before the offer is answered, "answered" after, "failed" when the peer
\* connection has reported that it is.
InLoop == {"loop", "answered", "failed"}
InTask == InLoop \cup {"setup", "closing"}
Stage  == InTask \cup {"none", "queued"}

Init ==
    /\ here = {} /\ pump = [c \in Viewer |-> "none"] /\ offers = <<>>
    /\ queue = <<>> /\ hub = "running"
    /\ session = [c \in Viewer |-> "none"]
    /\ Encoder!Init

Turns(c, stage) == session' = [session EXCEPT ![c] = stage]
Moves(c, from, to) ==
    /\ session[c] \in from /\ Turns(c, to)
    /\ UNCHANGED <<here, pump, offers, queue, hub>>

----------------------------------------------------------------------------
(* The clients and their pumps *)

\* A client is upgraded, and its pump offers a session.
Connects(c) ==
    /\ hub = "running" /\ pump[c] = "none" /\ session[c] = "none"
    /\ here' = here \cup {c}
    /\ pump' = [pump EXCEPT ![c] = "offering"]
    /\ offers' = Append(offers, c)
    /\ UNCHANGED <<queue, hub, session, viewVars>>

\* The client closes or loses its socket, or breaks the protocol (its pump then ends).
ClientLeaves(c) ==
    /\ c \in here /\ here' = here \ {c}
    /\ UNCHANGED <<pump, offers, queue, hub, session, viewVars>>

\* accept_tx.send: pumps that wait for room are served in turn. An offering pump does
\* not read its socket, so whether its client is still there makes no difference.
QueueRoom == Len(queue) < AcceptCap
SessionQueued ==
    /\ offers # <<>> /\ hub = "running" /\ QueueRoom
    /\ LET c == Head(offers)
       IN  Turns(c, "queued") /\ pump' = [pump EXCEPT ![c] = "pumping"]
           /\ queue' = Append(queue, c)
    /\ offers' = Tail(offers)
    /\ UNCHANGED <<here, hub, viewVars>>

\* accept_tx.send fails: the accept loop is gone, and the client is refused.
OfferFails ==
    /\ offers # <<>> /\ hub = "aborted"
    /\ pump' = [pump EXCEPT ![Head(offers)] = "none"]
    /\ here' = here \ {Head(offers)}
    /\ offers' = Tail(offers)
    /\ UNCHANGED <<queue, hub, session, viewVars>>

\* The pump returns: its client left, or the session was dropped and it closes the socket.
PumpReturns(c) ==
    /\ pump[c] = "pumping" /\ (c \notin here \/ session[c] = "none")
    /\ pump' = [pump EXCEPT ![c] = "none"]
    /\ here' = here \ {c}
    /\ UNCHANGED <<offers, queue, hub, session, viewVars>>

----------------------------------------------------------------------------
(* The accept loop, and the end of serve mode *)

\* The loop is back at accept() at once: the session runs in a task of its own.
WrongAccepting == hub = "running" /\ \A c \in Viewer : session[c] \notin InTask
Accepting      == hub = "running"
HubAccepts ==
    /\ Accepting /\ queue # <<>>
    /\ Turns(Head(queue), "setup")
    /\ queue' = Tail(queue)
    /\ UNCHANGED <<here, pump, offers, hub, viewVars>>

\* serve() ends: the accept loop is aborted and what is queued dropped with it. (The
\* encoder it also aborts may end at any time, see VideoEncoder.)
ServeEnds ==
    /\ hub = "running" /\ hub' = "aborted"
    /\ session' = [c \in Viewer |-> IF session[c] = "queued" THEN "none" ELSE session[c]]
    /\ queue' = <<>>
    /\ UNCHANGED <<here, pump, offers, viewVars>>

----------------------------------------------------------------------------
(* The session tasks *)

SetsUp(c)     == Moves(c, {"setup"}, "loop") /\ UNCHANGED viewVars
SetupFails(c) == Moves(c, {"setup"}, "none") /\ UNCHANGED viewVars

\* The client's offer is answered.
Answers(c) == Moves(c, {"loop"}, "answered") /\ UNCHANGED viewVars

\* session_loop returns: the pump returned, the peer connection failed, or the client
\* broke the protocol or its offer could not be answered.
SeesEnd(c) ==
    /\ pump[c] = "none" \/ session[c] = "failed"
    /\ Moves(c, InLoop, "closing") /\ UNCHANGED viewVars
BreaksOff(c) == Moves(c, {"loop", "answered"}, "closing") /\ UNCHANGED viewVars

\* session_loop sees Connected, which may have been followed by a failure: the request
\* that becomes the IDR this viewer starts at.
WrongRequested == keyq
Requested      == Encoder!AfterRequest
SeesConnected(c) ==
    /\ session[c] \in {"answered", "failed"}
    /\ Encoder!ViewerMoves(c, {"joined"}, "asked") /\ keyq' = Requested
    /\ UNCHANGED sessionVars

\* pc.close(): the peer is detached from the shared track, and the session dropped. (It
\* is taken to return: the state channel has room, see HeldUp in SignalingSession.)
WrongCloses(c) == UNCHANGED viewVars
Closes(c)      == IF view[c] = "away" THEN UNCHANGED viewVars ELSE Encoder!Leaves(c)
SessionReturns(c) ==
    /\ Moves(c, {"closing"}, "none")
    /\ Closes(c)

----------------------------------------------------------------------------
(* The peer connections (webrtc): they connect once the offer is answered, may lose *)
(* packets or the path for a while (a repeated Connected), or fail.                 *)

PeerConnects(c) == session[c] = "answered" /\ Encoder!Joins(c) /\ UNCHANGED sessionVars
PeerWavers(c) ==
    /\ session[c] = "answered"
    /\ Encoder!Loses(c) \/ Encoder!AsksAgain(c)
    /\ UNCHANGED sessionVars
\* One that fails stays bound to the track until its session closes it.
PeerFails(c) == Moves(c, {"answered"}, "failed") /\ UNCHANGED viewVars

----------------------------------------------------------------------------

EncoderSteps == Encoder!EncoderSteps /\ UNCHANGED sessionVars
EncoderEnds  == (Encoder!SourceCloses \/ Encoder!EncoderFails) /\ UNCHANGED sessionVars
Finished     == Over /\ UNCHANGED vars

SessionSteps(c) ==
    SetsUp(c) \/ SetupFails(c) \/ SeesConnected(c) \/ SeesEnd(c) \/ SessionReturns(c)
Next ==
    \/ \E c \in Viewer : \/ Connects(c) \/ ClientLeaves(c) \/ PumpReturns(c)
                         \/ SessionSteps(c) \/ Answers(c) \/ BreaksOff(c)
                         \/ PeerConnects(c) \/ PeerWavers(c) \/ PeerFails(c)
    \/ SessionQueued \/ OfferFails \/ HubAccepts \/ ServeEnds
    \/ EncoderSteps \/ EncoderEnds \/ Finished

\* Every task that can run does: the accept loop, the pumps, and each session task. A
\* pump whose client is there but does not read its socket may never return. For the
\* encoder see VideoEncoder.
Fairness ==
    /\ WF_vars(SessionQueued \/ OfferFails) /\ WF_vars(HubAccepts)
    /\ \A c \in Viewer :
         WF_vars(SessionSteps(c)) /\ WF_vars(c \notin here /\ PumpReturns(c))
    /\ WF_vars(EncoderSteps) /\ SF_vars(Encoder!Encodes /\ UNCHANGED sessionVars)
Spec == Init /\ [][Next]_vars /\ Fairness

\* A client sends an offer that is answered, and its peer connection connects or fails:
\* the agent has no timeout for either.
ClientsOffer ==
    \A c \in Followed :
        /\ WF_vars(Answers(c))
        /\ WF_vars(view[c] = "away" /\ (PeerConnects(c) \/ PeerFails(c)))

----------------------------------------------------------------------------
(* What must hold *)

Elements(s) == {s[i] : i \in 1..Len(s)}
Distinct(s) == \A i, j \in 1..Len(s) : s[i] = s[j] => i = j

TypeOK ==
    /\ here \subseteq Viewer
    /\ pump \in [Viewer -> {"none", "offering", "pumping"}]
    /\ offers \in Seq(Viewer) /\ queue \in Seq(Viewer) /\ Len(queue) <= AcceptCap
    /\ hub \in {"running", "aborted"}
    /\ session \in [Viewer -> Stage]
    /\ view \in [Viewer -> Encoder!ViewState]

\* A session is in one place: on offer, in the queue, in a task or dropped. Nothing is
\* queued behind an accept loop that is gone.
OnePlace ==
    /\ \A c \in Viewer : (pump[c] = "offering") <=> c \in Elements(offers)
    /\ \A c \in Viewer : (session[c] = "queued") <=> c \in Elements(queue)
    /\ \A c \in Elements(offers) : session[c] = "none"
    /\ Distinct(offers) /\ Distinct(queue)
    /\ hub = "aborted" => queue = <<>>

\* Nobody is left on the shared track: a peer connection is bound to it only while the
\* session that answered it is alive, however that session ends.
ViewersAreLive ==
    \A c \in Viewer : view[c] # "away" => session[c] \in {"answered", "failed", "closing"}

LiveInv == TypeOK /\ OnePlace /\ ViewersAreLive

\* A client that stays decodes the video, with no periodic IDR and whoever else comes,
\* goes or fails in between; unless its session ends, serve mode does, or the encoder.
ClientSeesVideo == ClientsOffer =>
    \A c \in Followed :
        c \in here ~> \/ view[c] \in {"decoding", "lost"} \/ c \notin here
                      \/ (pump[c] = "pumping" /\ session[c] = "none")
                      \/ hub = "aborted" \/ Over

\* A client that leaves takes its session down wherever it is, though nobody notices
\* while its pump waits for room in a full accept queue (ws.rs): the wait is short, as
\* the accept loop waits for no session.
LeaverLetsGo ==
    \A c \in Followed :
        c \notin here ~> c \in here \/ (pump[c] = "none" /\ session[c] = "none" /\ view[c] = "away")

\* The sessions are the viewers that VideoEncoder assumes: every step the composed
\* system takes is one of its, and every Connected is handled.
ImplementsEncoder == Encoder!Spec
=============================================================================
