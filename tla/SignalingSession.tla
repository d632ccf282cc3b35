-------------------------- MODULE SignalingSession --------------------------
(***************************************************************************)
(* One client of the agent: the WebSocket pump of joy-media signaling/ws.rs *)
(* and the session task of peer.rs, joined by the two bounded channels of a *)
(* SignalingSession (signaling/mod.rs), next to the client itself and the   *)
(* webrtc peer connection the session owns.                                 *)
(*                                                                          *)
(* Every `.await` of the code is a control state, so other tasks run there. *)
(* A channel is a sequence; its sender is dropped when the task owning it   *)
(* is over, its receiver likewise.                                          *)
(***************************************************************************)
EXTENDS Naturals, Sequences

CONSTANTS
    InCap,          \* capacity of the client -> session channel (32 in ws.rs)
    OutCap,         \* capacity of the session -> client channel (32 in ws.rs)
    StateCap,       \* capacity of the peer-state channel (8 in peer.rs)
    ClientMessage,  \* the messages a client may send, [type |-> ..., v |-> version]
    MaxPeerEvents   \* state changes a peer connection reports before it is closed

PROTOCOL_VERSION == 1

ASSUME CapacityAssumption ==
    /\ InCap \in Nat \ {0}
    /\ StateCap \in Nat \ {0}
    /\ OutCap \in Nat /\ OutCap >= 2
ASSUME BoundAssumption ==
    /\ ClientMessage \subseteq
         [type : {"offer", "answer", "candidate", "error"}, v : Nat]
    /\ MaxPeerEvents \in Nat

VARIABLES
    client,     \* "up" | "gone": sent Close, reset, or otherwise ended the socket
    delivered,  \* history: the frames that reached the client
    pump,       \* control state of pump()
    inbound,    \* the client message pump() is forwarding, or NoInbound
    outbound,   \* the agent message pump() is writing, or NoMsg
    inq,        \* in_tx / in_rx
    outq,       \* out_tx / out_rx
    hub,        \* "running" | "aborted": the accept loop StreamHub::run
    session,    \* control state of handle_session()
    reply,      \* the message session.tx.send() is sending, or NoMsg
    answered,   \* the local of session_loop
    peer,       \* connection state of the RTCPeerConnection, or "none"
    report,     \* the state the change callback is still sending, or NoMsg
    stateq,     \* state_tx / state_rx
    raised,     \* number of state changes reported so far
    requested   \* a keyframe was requested since the peer last connected

pumpVars    == <<pump, inbound, outbound>>
sessionVars == <<session, reply, answered>>
peerVars    == <<peer, report, stateq, raised, requested>>
vars == <<client, delivered, pumpVars, inq, outq, hub, sessionVars, peerVars>>

----------------------------------------------------------------------------
(* Messages, control states, and what a dropped channel half means *)

NoMsg == "none"
NoInbound == [type |-> "none", v |-> 0]
ErrorCodes == {"bad_version", "bad_message", "renegotiation_unsupported", "peer_failed"}
AgentMessage  == {"answer"} \cup ErrorCodes

PumpState    == {"accepting", "select", "forwarding", "writing", "rejecting",
                 "closing", "done"}
SessionState == {"absent", "queued", "setup", "loop", "answering", "sending",
                 "closing", "gone"}
PeerState    == {"new", "connecting", "connected", "disconnected", "failed", "closed"}

\* The states an open peer connection can report next.
Successors(s) ==
    CASE s = "new"          -> {"connecting"}
      [] s = "connecting"   -> {"connected", "failed", "closed"}
      [] s = "connected"    -> {"disconnected", "failed", "closed"}
      [] s = "disconnected" -> {"connected", "failed", "closed"}
      [] OTHER              -> {}

\* A send on a channel whose receiver was dropped fails; a receive on a drained
\* channel whose sender was dropped returns None. The session task owns in_rx and
\* out_tx, the pump in_tx and out_rx.
SessionDropped == session = "gone"
PumpReturned   == pump = "done"

\* Room for one more message in each channel. The Wrong... operators here and below
\* are faulty variants, used only to show that the properties notice them.
WrongInRoom    == Len(inq) <= InCap
InRoom         == Len(inq) < InCap
OutRoom        == Len(outq) < OutCap
WrongStateRoom == stateq = <<>>
StateRoom      == Len(stateq) < StateCap

TypeOK ==
    /\ client \in {"up", "gone"} /\ hub \in {"running", "aborted"}
    /\ delivered \in Seq(AgentMessage \cup {"close"})
    /\ pump \in PumpState
    /\ inbound \in ClientMessage \cup {NoInbound}
    /\ outbound \in AgentMessage \cup {NoMsg}
    /\ inq \in Seq(ClientMessage) /\ Len(inq) <= InCap
    /\ outq \in Seq(AgentMessage) /\ Len(outq) <= OutCap
    /\ session \in SessionState
    /\ reply \in AgentMessage \cup {NoMsg}
    /\ answered \in BOOLEAN
    /\ peer \in PeerState \cup {"none"}
    /\ report \in PeerState \cup {NoMsg}
    /\ stateq \in Seq(PeerState) /\ Len(stateq) <= StateCap
    /\ raised \in 0..MaxPeerEvents
    /\ requested \in BOOLEAN

Init ==
    /\ client = "up" /\ delivered = <<>>
    /\ pump = "accepting" /\ inbound = NoInbound /\ outbound = NoMsg
    /\ inq = <<>> /\ outq = <<>>
    /\ hub = "running"
    /\ session = "absent" /\ reply = NoMsg /\ answered = FALSE
    /\ peer = "none" /\ report = NoMsg /\ stateq = <<>> /\ raised = 0
    /\ requested = FALSE

----------------------------------------------------------------------------
(* The client: it sends any frame at any time (PumpReads, PumpReadsUndecodable), *)
(* until it sends Close, or its socket is reset or ends.                         *)

ClientLeaves ==
    /\ client = "up"
    /\ client' = "gone"
    /\ UNCHANGED <<delivered, pumpVars, inq, outq, hub, sessionVars, peerVars>>

----------------------------------------------------------------------------
(* pump(): one task per WebSocket *)

\* Where the pump goes after the bad_message error, and after None from out_rx.
WrongAfterReject == "select"
AfterReject      == "closing"
WrongAfterNone   == "select"
AfterNone        == "closing"

\* accept_tx.send(session): the session waits in the accept queue, unless the peer
\* manager is gone and the client is refused.
PumpOffersSession ==
    /\ pump = "accepting"
    /\ IF hub = "running"
         THEN pump' = "select" /\ session' = "queued"
         ELSE pump' = "closing" /\ session' = "gone"
    /\ UNCHANGED <<client, delivered, inbound, outbound, inq, outq, hub, reply, answered, peerVars>>

\* select!, out_rx.recv(): a message, which the pump now writes to the socket.
PumpTakesOut ==
    /\ pump = "select" /\ outq # <<>>
    /\ pump' = "writing"
    /\ outbound' = Head(outq)
    /\ outq' = Tail(outq)
    /\ UNCHANGED <<client, delivered, inbound, inq, hub, sessionVars, peerVars>>

\* select!, out_rx.recv(): None, the session was dropped.
PumpSeesSessionDropped ==
    /\ pump = "select" /\ outq = <<>> /\ SessionDropped
    /\ pump' = AfterNone
    /\ UNCHANGED <<client, delivered, inbound, outbound, inq, outq, hub, sessionVars, peerVars>>

\* select!, socket.recv(): a text frame that decodes to m. (Binary, ping and pong
\* frames are ignored: a stuttering step.)
PumpReads(m) ==
    /\ pump = "select" /\ client = "up"
    /\ pump' = "forwarding"
    /\ inbound' = m
    /\ UNCHANGED <<client, delivered, outbound, inq, outq, hub, sessionVars, peerVars>>

\* select!, socket.recv(): a text frame that does not decode.
PumpReadsUndecodable ==
    /\ pump = "select" /\ client = "up"
    /\ pump' = "rejecting"
    /\ UNCHANGED <<client, delivered, inbound, outbound, inq, outq, hub, sessionVars, peerVars>>

\* select!, socket.recv(): a Close frame, an error, or the end of the stream.
PumpReadsEnd ==
    /\ pump = "select" /\ client = "gone"
    /\ pump' = "done"
    /\ UNCHANGED <<client, delivered, inbound, outbound, inq, outq, hub, sessionVars, peerVars>>

\* in_tx.send(message): waits for room, and fails once the session is dropped.
PumpForwards ==
    /\ pump = "forwarding"
    /\ \/ /\ ~SessionDropped /\ InRoom
          /\ inq' = Append(inq, inbound)
          /\ pump' = "select"
       \/ /\ SessionDropped
          /\ pump' = "closing"
          /\ UNCHANGED inq
    /\ inbound' = NoInbound
    /\ UNCHANGED <<client, delivered, outbound, outq, hub, sessionVars, peerVars>>

\* socket.send(Text) to a client that is there. Nothing bounds how long a client
\* that does not read its socket delays this step.
PumpWrites ==
    /\ pump = "writing" /\ client = "up"
    /\ delivered' = Append(delivered, outbound)
    /\ pump' = "select"
    /\ outbound' = NoMsg
    /\ UNCHANGED <<client, inbound, inq, outq, hub, sessionVars, peerVars>>

\* socket.send(Text) to a client that left: an error, or buffered in vain.
PumpWritesInVain ==
    /\ pump = "writing" /\ client = "gone"
    /\ pump' \in {"select", "done"}
    /\ outbound' = NoMsg
    /\ UNCHANGED <<client, delivered, inbound, inq, outq, hub, sessionVars, peerVars>>

\* The last frames of a pump, their failures ignored: bad_message for an undecodable
\* frame, then Close, and the pump returns.
PumpFinishes ==
    /\ pump \in {"rejecting", "closing"}
    /\ LET frame == IF pump = "rejecting" THEN "bad_message" ELSE "close"
       IN  delivered' = IF client = "up" THEN Append(delivered, frame) ELSE delivered
    /\ pump' = IF pump = "rejecting" THEN AfterReject ELSE "done"
    /\ UNCHANGED <<client, inbound, outbound, inq, outq, hub, sessionVars, peerVars>>

----------------------------------------------------------------------------
(* StreamHub::run, and the end of serve mode *)

\* accept() returns the session and a task is spawned for it.
HubAccepts ==
    /\ hub = "running" /\ session = "queued"
    /\ session' = "setup"
    /\ UNCHANGED <<client, delivered, pumpVars, inq, outq, hub, reply, answered, peerVars>>

\* serve() aborts the accept loop: a session still queued is dropped with it, the
\* tasks already spawned go on.
HubAborts ==
    /\ hub = "running"
    /\ hub' = "aborted"
    /\ IF session = "queued"
         THEN session' = "gone" /\ inq' = <<>>
         ELSE UNCHANGED <<session, inq>>
    /\ UNCHANGED <<client, delivered, pumpVars, outq, reply, answered, peerVars>>

----------------------------------------------------------------------------
(* handle_session(), session_loop() and answer() *)

\* new_peer_connection, add_track twice, on_peer_connection_state_change.
SessionSetsUp ==
    /\ session = "setup"
    /\ session' = "loop"
    /\ peer' = "new"
    /\ UNCHANGED <<client, delivered, pumpVars, inq, outq, hub, reply, answered,
                   report, stateq, raised, requested>>

\* new_peer_connection fails, or add_track does and leaves the connection unclosed.
SessionSetupFails ==
    /\ session = "setup"
    /\ session' = "gone"
    /\ peer' \in {"none", "new"}
    /\ inq' = <<>>
    /\ UNCHANGED <<client, delivered, pumpVars, outq, hub, reply, answered,
                   report, stateq, raised, requested>>

\* The error a client message earns in session_loop, NoMsg for none.
WrongErrorFor(m) ==
    IF m.v # PROTOCOL_VERSION THEN "bad_version"
    ELSE IF m.type \in {"answer", "error"} THEN "bad_message" ELSE NoMsg
ErrorFor(m) ==
    IF m.v # PROTOCOL_VERSION THEN "bad_version"
    ELSE CASE m.type = "offer" -> IF answered THEN "renegotiation_unsupported" ELSE NoMsg
           [] m.type \in {"answer", "error"} -> "bad_message"
           [] m.type = "candidate" -> NoMsg

\* select!, session.rx.recv(): a message. An error is sent before the loop returns,
\* the first offer is answered, a candidate goes to the peer connection.
SessionReceives ==
    /\ session = "loop" /\ inq # <<>>
    /\ LET m == Head(inq)
           e == ErrorFor(m)
       IN  /\ reply' = e
           /\ session' = IF e # NoMsg THEN "sending"
                         ELSE IF m.type = "offer" THEN "answering" ELSE "loop"
           /\ answered' = (answered \/ (e = NoMsg /\ m.type = "offer"))
    /\ inq' = Tail(inq)
    /\ UNCHANGED <<client, delivered, pumpVars, outq, hub, peerVars>>

\* select!, session.rx.recv(): None, the client closed the transport.
WrongAfterClientGone == "loop"
AfterClientGone      == "closing"
SessionSeesClientGone ==
    /\ session = "loop" /\ inq = <<>> /\ PumpReturned
    /\ session' = AfterClientGone
    /\ UNCHANGED <<client, delivered, pumpVars, inq, outq, hub, reply, answered, peerVars>>

\* answer(): the descriptions are exchanged and the local candidates gathered, or
\* one of the steps fails and the session ends, with nothing said to the client.
SessionAnswers ==
    /\ session = "answering"
    /\ \/ session' = "sending" /\ reply' = "answer"
       \/ session' = "closing" /\ UNCHANGED reply
    /\ UNCHANGED <<client, delivered, pumpVars, inq, outq, hub, answered, peerVars>>

\* After the answer the loop goes on, after an error it returns.
WrongAfterSend(m) == "loop"
AfterSend(m)      == IF m = "answer" THEN "loop" ELSE "closing"

\* session.tx.send(reply): waits for room, and fails once the pump returned. After
\* a failed send the loop returns.
SessionSends ==
    /\ session = "sending"
    /\ \/ /\ ~PumpReturned /\ OutRoom
          /\ outq' = Append(outq, reply)
          /\ session' = AfterSend(reply)
       \/ /\ PumpReturned
          /\ session' = "closing"
          /\ UNCHANGED outq
    /\ reply' = NoMsg
    /\ UNCHANGED <<client, delivered, pumpVars, inq, hub, answered, peerVars>>

\* connected asks the encoder for a keyframe, failed and closed end the loop.
WrongAsksForKeyframe(s) == s = "connecting"
AsksForKeyframe(s)      == s = "connected"
WrongEndsLoop(s)        == s = "closed"
EndsLoop(s)             == s \in {"failed", "closed"}

\* select!, state_rx.recv(): a state the peer connection reported.
SessionSeesState ==
    /\ session = "loop" /\ stateq # <<>>
    /\ stateq' = Tail(stateq)
    /\ requested' = (requested \/ AsksForKeyframe(Head(stateq)))
    /\ session' = IF EndsLoop(Head(stateq)) THEN "closing" ELSE "loop"
    /\ UNCHANGED <<client, delivered, pumpVars, inq, outq, hub, reply, answered,
                   peer, report, raised>>

\* pc.close().await: the connection reports that it is closed, once the change
\* callback is free.
SessionClosesPeer ==
    /\ session = "closing" /\ peer # "closed" /\ report = NoMsg
    /\ peer' = "closed" /\ report' = "closed"
    /\ UNCHANGED <<client, delivered, pumpVars, inq, outq, hub, sessionVars,
                   stateq, raised, requested>>

\* close() has returned: the session and the state channel are dropped.
SessionReturns ==
    /\ session = "closing" /\ peer = "closed" /\ report = NoMsg
    /\ session' = "gone"
    /\ inq' = <<>> /\ stateq' = <<>>
    /\ UNCHANGED <<client, delivered, pumpVars, outq, hub, reply, answered,
                   peer, report, raised, requested>>

----------------------------------------------------------------------------
(* The peer connection (webrtc), which runs once an offer was applied, and its  *)
(* change callback: state_tx.send(state) waits for room in the state channel.   *)

\* The connection goes on changing after the loop has returned, until close() has
\* closed it.
PeerChanges ==
    /\ answered /\ session \in {"answering", "loop", "sending", "closing"}
    /\ report = NoMsg /\ raised < MaxPeerEvents
    /\ \E s \in Successors(peer) :
         /\ peer' = s /\ report' = s
         /\ requested' = (requested /\ s # "connected")
    /\ raised' = raised + 1
    /\ UNCHANGED <<client, delivered, pumpVars, inq, outq, hub, sessionVars, stateq>>

PeerReports ==
    /\ report # NoMsg /\ StateRoom
    /\ stateq' = Append(stateq, report)
    /\ report' = NoMsg
    /\ UNCHANGED <<client, delivered, pumpVars, inq, outq, hub, sessionVars,
                   peer, raised, requested>>

\* The one state a session never leaves: the loop has returned, nobody reads the state
\* channel any more, it is full to the last slot, and the change callback, which
\* pc.close() waits for, holds one more state. The code has no way out of it.
HeldUp ==
    session = "closing" /\ Len(stateq) = StateCap /\ report # NoMsg

----------------------------------------------------------------------------

\* Nothing is left to run: the socket is closed and the session dropped, or the session
\* is held up, and with it a pump that waits for room in its channel.
Finished ==
    /\ (pump = "done" /\ session = "gone") \/ HeldUp
    /\ UNCHANGED vars

PumpReadsFrame ==
    (\E m \in ClientMessage : PumpReads(m)) \/ PumpReadsUndecodable
PumpSteps ==
    \/ PumpOffersSession \/ PumpTakesOut \/ PumpSeesSessionDropped
    \/ PumpReadsEnd \/ PumpForwards \/ PumpWritesInVain
SessionSteps ==
    \/ SessionSetsUp \/ SessionSetupFails \/ SessionReceives
    \/ SessionSeesClientGone \/ SessionAnswers \/ SessionSends
    \/ SessionSeesState \/ SessionClosesPeer \/ SessionReturns

Next ==
    \/ ClientLeaves \/ PumpReadsFrame \/ PumpWrites \/ PumpFinishes \/ PumpSteps
    \/ HubAccepts \/ HubAborts \/ SessionSteps
    \/ PeerChanges \/ PeerReports \/ Finished

\* The tokio scheduler runs every task that can run: weak fairness of each task.
\* select! polls its branches in random order, so the session takes a state that is
\* ready again and again however many messages its client sends: strong fairness of
\* that branch. Nothing is assumed of the client: not that it sends or leaves, nor
\* that it reads what is written to it. answer() is assumed to return.
Fairness ==
    /\ WF_vars(PumpSteps \/ (client = "gone" /\ PumpFinishes))
    /\ WF_vars(HubAccepts)
    /\ WF_vars(SessionSteps)
    /\ SF_vars(SessionSeesState)
    /\ WF_vars(PeerReports)

Spec == Init /\ [][Next]_vars /\ Fairness

\* A client that keeps reading its socket while it is there: the premise of the two
\* properties that need one.
ClientReads == WF_vars(PumpWrites \/ PumpFinishes)

----------------------------------------------------------------------------
(* The inductive invariant behind the safety properties, part by part *)

\* A task holds a message while it sends one.
HoldsMessage ==
    /\ pump = "forwarding" => inbound \in ClientMessage
    /\ pump = "writing" => outbound \in AgentMessage
    /\ session = "sending" => reply \in AgentMessage

\* The session has said nothing yet: it is before, or at, its answer.
NothingSaid ==
    \/ session \in {"absent", "queued", "setup", "answering"}
    \/ session \in {"loop", "sending"} /\ ~answered
    \/ session = "sending" /\ reply = "answer"
Conversing == pump \in {"accepting", "select", "forwarding"}
SilentSoFar ==
    /\ NothingSaid => outq = <<>> /\ pump # "writing" /\ (Conversing => delivered = <<>>)
    /\ session = "answering" \/ (session = "sending" /\ reply = "answer") => answered
    /\ session \in {"absent", "queued", "setup"} => ~answered
    /\ pump = "accepting" => session = "absent"

\* A session says at most two things, an answer and then an error.
TwoMessages ==
    /\ session \in {"loop", "sending"} => Len(outq) <= 1
    /\ Len(outq) <= 2

\* The answer is ahead of everything else wherever it is.
AnswerLeads ==
    /\ \A i \in 1..Len(outq) :
         outq[i] = "answer" => i = 1 /\ pump # "writing" /\ (Conversing => delivered = <<>>)
    /\ pump = "writing" /\ outbound = "answer" => delivered = <<>>
    /\ \A i \in 1..Len(delivered) : delivered[i] = "answer" => i = 1

\* The Close frame is the last thing a pump does.
CloseEnds ==
    \A i \in 1..Len(delivered) :
        delivered[i] = "close" => pump = "done" /\ i = Len(delivered)

\* A session says one error at most and says it last, wherever the error is on its
\* way to the client, and the pump adds one only to hang up right after it.
BeforeError == session \notin {"closing", "gone"}
Listening   == pump \notin {"closing", "done"}
Faultless   == Listening => \A i \in 1..Len(delivered) : delivered[i] \notin ErrorCodes
WritesError == pump = "writing" /\ outbound \in ErrorCodes
ErrorsEnd ==
    /\ BeforeError => /\ \A i \in 1..Len(outq) : outq[i] \notin ErrorCodes
                      /\ ~WritesError /\ Faultless
    /\ \A i \in 1..Len(outq) :
         outq[i] \in ErrorCodes => i = Len(outq) /\ ~WritesError /\ Faultless
    /\ WritesError => Faultless
    /\ Listening => \A i, j \in 1..Len(delivered) :
                      delivered[i] \in ErrorCodes /\ delivered[j] \in ErrorCodes => i = j

\* The pump hangs up on a client only because its session is over, or because it has
\* just told the client that its frame does not decode.
ClosesForCause ==
    pump = "closing" => \/ client = "gone" \/ session = "gone"
                        \/ delivered # <<>> /\ delivered[Len(delivered)] = "bad_message"

\* All of it: what session_loop and pump() maintain together at every await.
SessionInv ==
    /\ TypeOK /\ HoldsMessage /\ SilentSoFar /\ TwoMessages /\ AnswerLeads
    /\ CloseEnds /\ ErrorsEnd /\ ClosesForCause

----------------------------------------------------------------------------
(* What must hold *)

\* The wire order a client can rely on (signaling/mod.rs): at most one answer, and
\* no error before it; nothing after the Close frame. Two tasks write to the socket's
\* queue and the pump also writes on its own, so the order is not that of any task.
WireOrder ==
    \A i \in 1..Len(delivered) :
        /\ delivered[i] = "answer" => i = 1
        /\ delivered[i] = "close" => i = Len(delivered)

\* The session never waits for room in its channel to the client, so that it and a
\* pump waiting for room in the other channel can never wait for each other: the
\* capacity, at least 2, covers all a session ever sends.
SessionNeverWaits ==
    session = "sending" => OutRoom

\* A session that no client or peer needs any more is dropped, or held up.
TornDown == session = "gone" \/ HeldUp

\* A client that is gone takes its media session down, whatever the session was
\* doing (the doc of SignalingSession: "the media session tied to this signaling
\* session should be torn down"), with the one exception of HeldUp.
ClientGoneEndsSession ==
    (client = "gone" /\ session # "absent") ~> TornDown

\* A peer connection that failed ends its session, even if the client never leaves,
\* never reads and floods the signaling channel.
PeerFailureEndsSession ==
    (peer \in {"failed", "closed"}) ~> TornDown

\* Teardown does not hang on a state channel that has room, by one slot or by many:
\* the connection may change once more after the loop returned, and pc.close() reports
\* the end, all into a channel nobody reads any more; only HeldUp stops it.
CloseReturns ==
    session = "closing" ~> TornDown

\* Every viewer that connects gets a keyframe requested for it, unless it loses the
\* connection or the session first.
ConnectedRequestsKeyframe ==
    (peer = "connected" /\ ~requested)
        ~> (requested \/ peer # "connected" \/ session \in {"closing", "gone"})

\* With a client that reads its socket, an error is followed by the end of the
\* connection: it is terminal (signaling/mod.rs, SignalMessage::Error).
ErrorIsTerminal == ClientReads =>
    ((\E i \in 1..Len(delivered) : delivered[i] \in ErrorCodes)
        ~> (pump = "done" /\ session = "gone") \/ HeldUp)

\* With a client that reads its socket, a dropped session closes the connection.
SessionEndClosesSocket == ClientReads =>
    (session = "gone" ~> pump = "done")

\* The session implements the client's contract: the conversation on the socket is
\* one it allows, and the media session is the session task from its setup to the
\* moment it is dropped. The contract's exception is HeldUp.
MediaSession ==
    CASE session \in {"absent", "queued", "setup"} -> "none"
      [] session = "gone"                          -> "over"
      [] OTHER                                     -> "open"
Contract == INSTANCE SignalingContract WITH media <- MediaSession, held <- HeldUp
ImplementsContract == Contract!Spec

\* "a terminal protocol error; the agent closes the session immediately after sending
\* it" (signaling/mod.rs): when the agent has closed the socket of a client that is
\* still there, an error the session sent was told to it.
ErrorReachesClient ==
    (pump = "done" /\ client = "up" /\ \E i \in 1..Len(outq) : outq[i] \in ErrorCodes)
        => \E i \in 1..Len(delivered) : delivered[i] \in ErrorCodes
=============================================================================
