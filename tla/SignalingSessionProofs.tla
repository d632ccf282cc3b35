----------------------- MODULE SignalingSessionProofs -----------------------
(***************************************************************************)
(* Proofs about SignalingSession, for every capacity the assumptions allow, *)
(* every set of client messages and every number of peer events.            *)
(*                                                                          *)
(* SessionInv is the inductive invariant. Its parts are taken one at a time *)
(* (one lemma each), and each lemma goes through the actions.               *)
(***************************************************************************)
EXTENDS SignalingSession, TLAPS

USE CapacityAssumption, BoundAssumption

\* An empty channel is a channel with room.
LEMMA EmptyChannels ==
    /\ <<>> \in Seq(ClientMessage) /\ <<>> \in Seq(AgentMessage)
    /\ <<>> \in Seq(PeerState) /\ <<>> \in Seq(AgentMessage \cup {"close"})
    /\ Len(<<>>) = 0 /\ 1..Len(<<>>) = {}
  OBVIOUS

\* A client message earns one of the documented errors or none, never the answer.
LEMMA ErrorForType ==
    ASSUME NEW m \in ClientMessage
    PROVE  ErrorFor(m) \in {"bad_version", "bad_message", "renegotiation_unsupported", NoMsg}
<1>1. m.type \in {"offer", "answer", "candidate", "error"}
  OBVIOUS
<1> QED BY <1>1 DEF ErrorFor

----------------------------------------------------------------------------
(* Types *)

\* Every step of every task keeps the types, and a task that sends holds a message.
LEMMA TypeStep ==
    ASSUME TypeOK, HoldsMessage, [Next]_vars
    PROVE  TypeOK' /\ HoldsMessage'
<1> USE DEF TypeOK, HoldsMessage, AgentMessage, ErrorCodes, PumpState, SessionState,
            PeerState, NoMsg, NoInbound, pumpVars, sessionVars, peerVars
<1>1. CASE ClientLeaves
  BY <1>1 DEF ClientLeaves
<1>2. CASE PumpSteps
  <2>1. CASE PumpOffersSession
    BY <2>1 DEF PumpOffersSession
  <2>2. CASE PumpTakesOut
    BY <2>2 DEF PumpTakesOut
  <2>3. CASE PumpSeesSessionDropped
    BY <2>3 DEF PumpSeesSessionDropped, AfterNone
  <2>4. CASE PumpReadsEnd
    BY <2>4 DEF PumpReadsEnd
  <2>5. CASE PumpForwards
    <3>1. InRoom /\ inq' = Append(inq, inbound)
            => inq' \in Seq(ClientMessage) /\ Len(inq') <= InCap
      BY <2>5 DEF PumpForwards, InRoom
    <3> QED BY <2>5, <3>1 DEF PumpForwards
  <2>6. CASE PumpWritesInVain
    BY <2>6 DEF PumpWritesInVain
  <2> QED BY <1>2, <2>1, <2>2, <2>3, <2>4, <2>5, <2>6 DEF PumpSteps
<1>3. CASE PumpReadsFrame
  <2>1. ASSUME NEW m \in ClientMessage, PumpReads(m) PROVE TypeOK' /\ HoldsMessage'
    BY <2>1 DEF PumpReads
  <2>2. CASE PumpReadsUndecodable
    BY <2>2 DEF PumpReadsUndecodable
  <2> QED BY <1>3, <2>1, <2>2 DEF PumpReadsFrame
<1>4. CASE PumpWrites
  BY <1>4 DEF PumpWrites
<1>5. CASE PumpFinishes
  BY <1>5 DEF PumpFinishes, AfterReject
<1>6. CASE HubAccepts
  BY <1>6 DEF HubAccepts
<1>7. CASE HubAborts
  <2>1. CASE session = "queued"
    BY <1>7, <2>1, EmptyChannels DEF HubAborts
  <2>2. CASE session # "queued"
    BY <1>7, <2>2 DEF HubAborts
  <2> QED BY <2>1, <2>2
<1>8. CASE SessionSteps
  <2>1. CASE SessionSetsUp
    BY <2>1 DEF SessionSetsUp
  <2>2. CASE SessionSetupFails
    BY <2>2, EmptyChannels DEF SessionSetupFails
  <2>3. CASE SessionReceives
    <3>1. /\ Head(inq) \in ClientMessage
          /\ Tail(inq) \in Seq(ClientMessage) /\ Len(Tail(inq)) <= InCap
      BY <2>3 DEF SessionReceives
    <3>2. ErrorFor(Head(inq)) \in AgentMessage \cup {NoMsg}
      BY <3>1, ErrorForType
    <3>3. /\ session' \in SessionState /\ answered' \in BOOLEAN
          /\ session' = "sending" => reply' # NoMsg
      BY <2>3 DEF SessionReceives
    <3> QED BY <2>3, <3>1, <3>2, <3>3 DEF SessionReceives
  <2>4. CASE SessionSeesClientGone
    BY <2>4 DEF SessionSeesClientGone, AfterClientGone
  <2>5. CASE SessionAnswers
    BY <2>5 DEF SessionAnswers
  <2>6. CASE SessionSends
    <3>1. OutRoom /\ outq' = Append(outq, reply)
            => outq' \in Seq(AgentMessage) /\ Len(outq') <= OutCap
      BY <2>6 DEF SessionSends, OutRoom
    <3> QED BY <2>6, <3>1 DEF SessionSends, AfterSend
  <2>7. CASE SessionSeesState
    BY <2>7 DEF SessionSeesState, AsksForKeyframe, EndsLoop
  <2>8. CASE SessionClosesPeer
    BY <2>8 DEF SessionClosesPeer
  <2>9. CASE SessionReturns
    BY <2>9, EmptyChannels DEF SessionReturns
  <2> QED BY <1>8, <2>1, <2>2, <2>3, <2>4, <2>5, <2>6, <2>7, <2>8, <2>9 DEF SessionSteps
<1>9. CASE PeerChanges
  <2>1. Successors(peer) \subseteq PeerState
    BY DEF Successors
  <2> QED BY <1>9, <2>1 DEF PeerChanges
<1>10. CASE PeerReports
  BY <1>10 DEF PeerReports, StateRoom
<1>11. CASE UNCHANGED vars
  BY <1>11 DEF vars
<1> QED BY <1>1, <1>2, <1>3, <1>4, <1>5, <1>6, <1>7, <1>8, <1>9, <1>10, <1>11
        DEF Next, Finished

----------------------------------------------------------------------------
(* The rest of the invariant *)

\* What a session has said so far: nothing until its answer, one message in the loop,
\* two when it is over.
LEMMA SaidStep ==
    ASSUME SessionInv, [Next]_vars
    PROVE  SilentSoFar' /\ TwoMessages'
<1> USE DEF SessionInv, TypeOK, HoldsMessage, SilentSoFar, TwoMessages, NothingSaid,
            Conversing, pumpVars, sessionVars, peerVars
<1>1. CASE PumpSteps
  <2>1. CASE PumpOffersSession
    BY <2>1 DEF PumpOffersSession
  <2>2. CASE PumpTakesOut
    <3>1. Len(outq') = Len(outq) - 1
      BY <2>2 DEF PumpTakesOut
    <3>2. ~NothingSaid /\ ~NothingSaid'
      BY <2>2 DEF PumpTakesOut
    <3> QED BY <2>2, <3>1, <3>2 DEF PumpTakesOut
  <2>3. CASE PumpSeesSessionDropped
    BY <2>3 DEF PumpSeesSessionDropped, AfterNone
  <2>4. CASE PumpReadsEnd
    BY <2>4 DEF PumpReadsEnd
  <2>5. CASE PumpForwards
    BY <2>5 DEF PumpForwards
  <2>6. CASE PumpWritesInVain
    BY <2>6 DEF PumpWritesInVain
  <2> QED BY <1>1, <2>1, <2>2, <2>3, <2>4, <2>5, <2>6 DEF PumpSteps
<1>2. CASE PumpReadsFrame
  BY <1>2 DEF PumpReadsFrame, PumpReads, PumpReadsUndecodable
<1>3. CASE PumpWrites
  BY <1>3 DEF PumpWrites
<1>4. CASE PumpFinishes
  BY <1>4 DEF PumpFinishes, AfterReject
<1>5. CASE HubAccepts \/ HubAborts
  <2>1. CASE HubAccepts
    BY <2>1 DEF HubAccepts
  <2>2. CASE HubAborts
    BY <2>2 DEF HubAborts
  <2> QED BY <1>5, <2>1, <2>2
<1>6. CASE SessionSteps
  <2>1. CASE SessionSetsUp \/ SessionSetupFails
    BY <2>1, SMTT(20) DEF SessionSetsUp, SessionSetupFails
  <2>2. CASE SessionReceives
    <3>1. Head(inq) \in ClientMessage
      BY <2>2 DEF SessionReceives
    <3>2. ErrorFor(Head(inq)) # "answer" /\ NoMsg # "answer"
      BY <3>1, ErrorForType DEF NoMsg
    <3>3. ErrorFor(Head(inq)) = NoMsg /\ Head(inq).type = "offer" => ~answered
      BY DEF ErrorFor, NoMsg
    <3>4. CASE ErrorFor(Head(inq)) # NoMsg
      <4>1. session' = "sending"
        BY <2>2, <3>4 DEF SessionReceives
      <4>2. reply' # "answer"
        BY <2>2, <3>2 DEF SessionReceives
      <4>3. answered' = answered
        BY <2>2, <3>4 DEF SessionReceives
      <4> QED BY <2>2, <4>1, <4>2, <4>3 DEF SessionReceives
    <3>5. CASE ErrorFor(Head(inq)) = NoMsg /\ Head(inq).type = "offer"
      BY <2>2, <3>3, <3>5 DEF SessionReceives
    <3>6. CASE ErrorFor(Head(inq)) = NoMsg /\ Head(inq).type # "offer"
      BY <2>2, <3>6 DEF SessionReceives
    <3> QED BY <3>4, <3>5, <3>6
  <2>3. CASE SessionSeesClientGone \/ SessionSeesState
    BY <2>3 DEF SessionSeesClientGone, AfterClientGone, SessionSeesState, EndsLoop
  <2>4. CASE SessionAnswers
    BY <2>4, EmptyChannels DEF SessionAnswers
  <2>5. CASE SessionSends
    <3>1. CASE PumpReturned
      BY <2>5, <3>1 DEF SessionSends
    <3>2. CASE ~PumpReturned
      <4>1. Len(outq') = Len(outq) + 1
        BY <2>5, <3>2 DEF SessionSends
      <4>2. reply = "answer" => Len(outq) = 0
        BY <2>5, EmptyChannels DEF SessionSends
      <4> QED BY <2>5, <3>2, <4>1, <4>2 DEF SessionSends, AfterSend, NoMsg
    <3> QED BY <3>1, <3>2
  <2>6. CASE SessionClosesPeer \/ SessionReturns
    BY <2>6 DEF SessionClosesPeer, SessionReturns
  <2> QED BY <1>6, <2>1, <2>2, <2>3, <2>4, <2>5, <2>6 DEF SessionSteps
<1>7. CASE ClientLeaves \/ PeerChanges \/ PeerReports \/ UNCHANGED vars
  BY <1>7 DEF ClientLeaves, PeerChanges, PeerReports, vars
<1> QED BY <1>1, <1>2, <1>3, <1>4, <1>5, <1>6, <1>7 DEF Next, Finished

\* The answer stays ahead of every other frame, in the channel and on the socket.
LEMMA AnswerStep ==
    ASSUME SessionInv, [Next]_vars
    PROVE  AnswerLeads'
<1> USE DEF SessionInv, AnswerLeads, Conversing, pumpVars, sessionVars, peerVars
<1>1. CASE PumpSteps
  <2>1. CASE PumpOffersSession
    BY <2>1 DEF PumpOffersSession
  <2>2. CASE PumpTakesOut
    <3>1. /\ outbound' = outq[1]
          /\ \A i \in 1..Len(outq') : outq'[i] = outq[i + 1] /\ i + 1 \in 1..Len(outq)
      BY <2>2 DEF PumpTakesOut, TypeOK
    <3>2. \A i \in 1..Len(outq') : outq'[i] # "answer"
      BY <3>1
    <3> QED BY <2>2, <3>1, <3>2 DEF PumpTakesOut, TypeOK
  <2>3. CASE PumpSeesSessionDropped
    BY <2>3 DEF PumpSeesSessionDropped, AfterNone
  <2>4. CASE PumpReadsEnd
    BY <2>4 DEF PumpReadsEnd
  <2>5. CASE PumpForwards
    BY <2>5 DEF PumpForwards
  <2>6. CASE PumpWritesInVain
    BY <2>6 DEF PumpWritesInVain
  <2> QED BY <1>1, <2>1, <2>2, <2>3, <2>4, <2>5, <2>6 DEF PumpSteps
<1>2. CASE PumpReadsFrame
  BY <1>2 DEF PumpReadsFrame, PumpReads, PumpReadsUndecodable
<1>3. CASE PumpWrites
  <2>1. \A i \in 1..Len(outq) : outq[i] # "answer"
    BY <1>3 DEF PumpWrites
  <2>2. \A i \in 1..Len(delivered') :
          delivered'[i] = IF i <= Len(delivered) THEN delivered[i] ELSE outbound
    BY <1>3 DEF PumpWrites, TypeOK
  <2>3. outbound = "answer" => Len(delivered') = 1
    BY <1>3, EmptyChannels DEF PumpWrites, TypeOK
  <2>4. \A i \in 1..Len(delivered') : delivered'[i] = "answer" => i = 1
    BY <2>2, <2>3 DEF TypeOK
  <2> QED BY <1>3, <2>1, <2>4 DEF PumpWrites
<1>4. CASE PumpFinishes
  <2>1. PICK f \in {"bad_message", "close"} : delivered' \in {delivered, Append(delivered, f)}
    BY <1>4 DEF PumpFinishes
  <2>2. CASE delivered' = delivered
    BY <1>4, <2>2 DEF PumpFinishes, AfterReject
  <2>3. CASE delivered' = Append(delivered, f)
    <3>1. \A i \in 1..Len(delivered') :
            delivered'[i] = IF i <= Len(delivered) THEN delivered[i] ELSE f
      BY <2>3 DEF TypeOK
    <3>2. \A i \in 1..Len(delivered') : delivered'[i] = "answer" => i \in 1..Len(delivered)
      BY <3>1 DEF TypeOK
    <3> QED BY <1>4, <3>1, <3>2 DEF PumpFinishes, AfterReject
  <2> QED BY <2>1, <2>2, <2>3
<1>5. CASE HubAccepts \/ HubAborts
  BY <1>5 DEF HubAccepts, HubAborts
<1>6. CASE SessionSteps
  <2>1. CASE SessionSends
    <3>1. CASE PumpReturned
      BY <2>1, <3>1 DEF SessionSends
    <3>2. CASE ~PumpReturned /\ reply = "answer"
      <4>1. outq = <<>> /\ pump # "writing" /\ (Conversing => delivered = <<>>)
        BY <2>1, <3>2 DEF SessionSends, SilentSoFar, NothingSaid
      <4>2. Len(outq') = 1
        BY <2>1, <3>2, <4>1, EmptyChannels DEF SessionSends, TypeOK
      <4> QED BY <2>1, <3>2, <4>1, <4>2 DEF SessionSends
    <3>3. CASE ~PumpReturned /\ reply # "answer"
      <4>1. \A i \in 1..Len(outq') :
              outq'[i] = IF i <= Len(outq) THEN outq[i] ELSE reply
        BY <2>1, <3>3, SMTT(20) DEF SessionSends, TypeOK
      <4>2. \A i \in 1..Len(outq') : outq'[i] = "answer" => i \in 1..Len(outq)
        BY <3>3, <4>1 DEF TypeOK
      <4>3. UNCHANGED <<pump, outbound, delivered>>
        BY <2>1 DEF SessionSends
      <4> QED BY <4>1, <4>2, <4>3
    <3> QED BY <3>1, <3>2, <3>3
  <2>2. CASE ~SessionSends
    BY <1>6, <2>2 DEF SessionSteps, SessionSetsUp, SessionSetupFails, SessionReceives,
       SessionSeesClientGone, SessionAnswers, SessionSeesState, SessionClosesPeer,
       SessionReturns
  <2> QED BY <2>1, <2>2
<1>7. CASE ClientLeaves \/ PeerChanges \/ PeerReports \/ UNCHANGED vars
  BY <1>7 DEF ClientLeaves, PeerChanges, PeerReports, vars
<1> QED BY <1>1, <1>2, <1>3, <1>4, <1>5, <1>6, <1>7 DEF Next, Finished

\* Only a pump that returns writes the Close frame, and it writes nothing more.
LEMMA CloseStep ==
    ASSUME SessionInv, [Next]_vars
    PROVE  CloseEnds'
<1> USE DEF SessionInv, CloseEnds, pumpVars, sessionVars, peerVars
<1>1. CASE PumpWrites
  <2>1. outbound # "close"
    BY <1>1 DEF PumpWrites, HoldsMessage, AgentMessage, ErrorCodes
  <2>2. \A i \in 1..Len(delivered) : delivered[i] # "close"
    BY <1>1 DEF PumpWrites
  <2>3. \A i \in 1..Len(delivered') : delivered'[i] # "close"
    BY <1>1, <2>1, <2>2 DEF PumpWrites, TypeOK
  <2> QED BY <2>3
<1>2. CASE PumpFinishes
  <2>1. \A i \in 1..Len(delivered) : delivered[i] # "close"
    BY <1>2 DEF PumpFinishes
  <2>2. CASE pump = "rejecting"
    <3>1. \A i \in 1..Len(delivered') : delivered'[i] # "close"
      BY <1>2, <2>1, <2>2 DEF PumpFinishes, TypeOK
    <3> QED BY <3>1
  <2>3. CASE pump = "closing"
    <3>1. \A i \in 1..Len(delivered') : delivered'[i] = "close" => i = Len(delivered')
      BY <1>2, <2>1, <2>3 DEF PumpFinishes, TypeOK
    <3> QED BY <1>2, <2>3, <3>1 DEF PumpFinishes
  <2> QED BY <1>2, <2>2, <2>3 DEF PumpFinishes
<1>3. CASE PumpSteps \/ PumpReadsFrame
  <2>1. pump # "done" /\ UNCHANGED delivered
    BY <1>3 DEF PumpSteps, PumpReadsFrame, PumpReads, PumpReadsUndecodable,
       PumpOffersSession, PumpTakesOut, PumpSeesSessionDropped, PumpReadsEnd,
       PumpForwards, PumpWritesInVain
  <2> QED BY <2>1
<1>4. CASE ClientLeaves \/ HubAccepts \/ HubAborts \/ SessionSteps \/ PeerChanges
           \/ PeerReports \/ UNCHANGED vars
  <2>1. UNCHANGED <<pump, delivered>>
    BY <1>4 DEF ClientLeaves, HubAccepts, HubAborts, SessionSteps, PeerChanges,
       PeerReports, vars, SessionSetsUp, SessionSetupFails, SessionReceives,
       SessionSeesClientGone, SessionAnswers, SessionSends, SessionSeesState,
       SessionClosesPeer, SessionReturns
  <2> QED BY <2>1
<1> QED BY <1>1, <1>2, <1>3, <1>4 DEF Next, Finished

\* The error of a session is the last thing it says, and the only error but for the
\* bad_message with which the pump hangs up.
LEMMA ErrorStep ==
    ASSUME SessionInv, [Next]_vars
    PROVE  ErrorsEnd'
<1>0. TypeOK /\ HoldsMessage /\ ErrorsEnd
  BY DEF SessionInv
<1> USE DEF ErrorsEnd, BeforeError, Listening, Faultless, WritesError,
            pumpVars, sessionVars, peerVars
<1>1. CASE PumpSteps
  <2>1. CASE PumpOffersSession
    BY <1>0, <2>1 DEF PumpOffersSession, SessionInv, SilentSoFar
  <2>2. CASE PumpTakesOut
    <3>1. /\ outbound' = outq[1] /\ 1 \in 1..Len(outq)
          /\ \A i \in 1..Len(outq') : outq'[i] = outq[i + 1] /\ i + 1 \in 1..Len(outq)
          /\ Len(outq') = Len(outq) - 1
      BY <1>0, <2>2 DEF PumpTakesOut, TypeOK
    <3>2. pump = "select" /\ pump' = "writing" /\ UNCHANGED <<session, delivered>>
      BY <2>2 DEF PumpTakesOut
    <3>3. outq[1] \in ErrorCodes => Len(outq) = 1 /\ Faultless
      BY <1>0, <3>1
    <3>4. outq[1] \in ErrorCodes => \A i \in 1..Len(outq') : FALSE
      BY <3>1, <3>3
    <3>5. BeforeError => \A i \in 1..Len(outq') : outq'[i] \notin ErrorCodes
      BY <1>0, <3>1
    <3>6. BeforeError => outq[1] \notin ErrorCodes
      BY <1>0, <3>1
    <3>7. \A i \in 1..Len(outq') : outq'[i] \in ErrorCodes => i = Len(outq') /\ Faultless
      BY <1>0, <3>1
    <3> QED BY <1>0, <3>1, <3>2, <3>3, <3>4, <3>5, <3>6, <3>7
  <2>3. CASE PumpSeesSessionDropped
    BY <1>0, <2>3 DEF PumpSeesSessionDropped, AfterNone
  <2>4. CASE PumpReadsEnd
    BY <1>0, <2>4 DEF PumpReadsEnd
  <2>5. CASE PumpForwards
    BY <1>0, <2>5 DEF PumpForwards
  <2>6. CASE PumpWritesInVain
    BY <1>0, <2>6 DEF PumpWritesInVain
  <2> QED BY <1>1, <2>1, <2>2, <2>3, <2>4, <2>5, <2>6 DEF PumpSteps
<1>2. CASE PumpReadsFrame
  BY <1>0, <1>2 DEF PumpReadsFrame, PumpReads, PumpReadsUndecodable
<1>3. CASE PumpWrites
  <2>1. /\ pump = "writing" /\ pump' = "select" /\ UNCHANGED <<session, outq>>
        /\ delivered' = Append(delivered, outbound)
    BY <1>3 DEF PumpWrites
  <2>2. /\ Len(delivered) \in Nat /\ Len(delivered') = Len(delivered) + 1
        /\ \A i \in 1..Len(delivered') :
             delivered'[i] = IF i \in 1..Len(delivered) THEN delivered[i] ELSE outbound
        /\ \A i \in 1..Len(delivered') : i \in 1..Len(delivered) \/ i = Len(delivered')
    BY <1>0, <2>1 DEF TypeOK
  <2>3. CASE outbound \in ErrorCodes
    <3>1. Faultless /\ ~BeforeError
      BY <1>0, <2>1, <2>3
    <3>2. \A i \in 1..Len(delivered') : delivered'[i] \in ErrorCodes => i = Len(delivered')
      BY <2>1, <2>2, <3>1
    <3>3. \A i \in 1..Len(outq) : outq[i] \notin ErrorCodes
      BY <1>0, <2>1, <2>3
    <3> QED BY <2>1, <3>1, <3>2, <3>3
  <2>4. CASE outbound \notin ErrorCodes
    <3>1. \A i \in 1..Len(delivered') : delivered'[i] \in ErrorCodes
            => i \in 1..Len(delivered) /\ delivered'[i] = delivered[i]
      BY <2>2, <2>4
    <3>2. Faultless => Faultless'
      BY <2>1, <3>1
    <3> QED BY <1>0, <2>1, <3>1, <3>2
  <2> QED BY <2>3, <2>4
<1>4. CASE PumpFinishes
  <2>1. pump' \in {"closing", "done"} /\ pump \in {"rejecting", "closing"}
    BY <1>4 DEF PumpFinishes, AfterReject
  <2>2. UNCHANGED <<session, outq, outbound>>
    BY <1>4 DEF PumpFinishes
  <2> QED BY <1>0, <2>1, <2>2
<1>5. CASE HubAccepts \/ HubAborts
  BY <1>0, <1>5 DEF HubAccepts, HubAborts
<1>6. CASE SessionSteps
  <2>1. CASE SessionSends
    <3>1. CASE PumpReturned
      BY <1>0, <2>1, <3>1 DEF SessionSends, PumpReturned
    <3>2. CASE ~PumpReturned
      <4>1. /\ session = "sending" /\ session' = AfterSend(reply)
            /\ outq' = Append(outq, reply) /\ UNCHANGED <<pump, outbound, delivered>>
        BY <2>1, <3>2 DEF SessionSends
      <4>2. /\ Len(outq) \in Nat /\ Len(outq') = Len(outq) + 1
            /\ \A i \in 1..Len(outq') :
                 outq'[i] = IF i \in 1..Len(outq) THEN outq[i] ELSE reply
            /\ \A i \in 1..Len(outq') : i \in 1..Len(outq) \/ i = Len(outq')
        BY <1>0, <4>1 DEF TypeOK, HoldsMessage
      <4>3. /\ \A i \in 1..Len(outq) : outq[i] \notin ErrorCodes
            /\ ~WritesError /\ Faultless
        BY <1>0, <4>1
      <4>4. \A i \in 1..Len(outq') : outq'[i] \in ErrorCodes
              => reply \in ErrorCodes /\ i = Len(outq')
        BY <4>2, <4>3
      <4>5. reply \in ErrorCodes => session' = "closing"
        BY <4>1 DEF AfterSend, ErrorCodes
      <4> QED BY <1>0, <4>1, <4>3, <4>4, <4>5
    <3> QED BY <3>1, <3>2
  <2>2. CASE ~SessionSends
    <3>1. UNCHANGED <<outq, outbound, pump, delivered>> /\ (BeforeError' => BeforeError)
      BY <1>6, <2>2 DEF SessionSteps, SessionSetsUp, SessionSetupFails, SessionReceives,
         SessionSeesClientGone, SessionAnswers, SessionSeesState, SessionClosesPeer,
         SessionReturns
    <3> QED BY <1>0, <3>1
  <2> QED BY <2>1, <2>2
<1>7. CASE ClientLeaves \/ PeerChanges \/ PeerReports \/ UNCHANGED vars
  BY <1>0, <1>7 DEF ClientLeaves, PeerChanges, PeerReports, vars
<1> QED BY <1>1, <1>2, <1>3, <1>4, <1>5, <1>6, <1>7 DEF Next, Finished

\* The pump starts to hang up when its session is over or after a bad_message, and
\* neither a dropped session nor a client that left comes back.
LEMMA CauseStep ==
    ASSUME SessionInv, [Next]_vars
    PROVE  ClosesForCause'
<1>0. TypeOK /\ ClosesForCause
  BY DEF SessionInv
<1> USE DEF ClosesForCause, pumpVars, sessionVars, peerVars
<1>1. CASE PumpSteps \/ PumpReadsFrame \/ PumpWrites
  BY <1>1 DEF PumpSteps, PumpReadsFrame, PumpReads, PumpReadsUndecodable, PumpWrites,
     PumpOffersSession, PumpTakesOut, PumpSeesSessionDropped, PumpReadsEnd,
     PumpForwards, PumpWritesInVain, SessionDropped
<1>2. CASE PumpFinishes
  <2>1. CASE pump = "rejecting" /\ client = "up"
    <3>1. delivered' = Append(delivered, "bad_message")
      BY <1>2, <2>1 DEF PumpFinishes
    <3>2. /\ "bad_message" \in AgentMessage \cup {"close"}
          /\ delivered \in Seq(AgentMessage \cup {"close"})
      BY <1>0 DEF TypeOK, AgentMessage, ErrorCodes
    <3>3. Len(delivered') = Len(delivered) + 1 /\ Len(delivered) \in Nat
      BY <3>1, <3>2
    <3>4. delivered'[Len(delivered) + 1] = "bad_message"
      BY <3>1, <3>2
    <3> QED BY <3>3, <3>4, EmptyChannels
  <2>2. CASE pump = "closing" \/ client # "up"
    BY <1>0, <1>2, <2>2 DEF PumpFinishes, TypeOK
  <2> QED BY <1>0, <1>2, <2>1, <2>2 DEF PumpFinishes, TypeOK
<1>3. CASE ClientLeaves \/ HubAccepts \/ HubAborts \/ PeerChanges \/ PeerReports
           \/ UNCHANGED vars
  BY <1>0, <1>3 DEF ClientLeaves, HubAccepts, HubAborts, PeerChanges, PeerReports, vars
<1>4. CASE SessionSteps
  <2>1. session # "gone" /\ UNCHANGED <<client, delivered, pump>>
    BY <1>4 DEF SessionSteps, SessionSetsUp, SessionSetupFails, SessionReceives,
       SessionSeesClientGone, SessionAnswers, SessionSends, SessionSeesState,
       SessionClosesPeer, SessionReturns
  <2> QED BY <1>0, <2>1
<1> QED BY <1>1, <1>2, <1>3, <1>4 DEF Next, Finished

----------------------------------------------------------------------------
(* The client's contract *)

\* What the media session of the contract is, state by state of the session task.
LEMMA MediaCases ==
    ASSUME TypeOK
    PROVE  /\ session \in {"absent", "queued", "setup"} => MediaSession = "none"
           /\ session = "gone" => MediaSession = "over"
           /\ session \in {"loop", "answering", "sending", "closing"} => MediaSession = "open"
  BY DEF MediaSession, TypeOK, SessionState

\* A session that is held up stays so: nothing takes a state from the full channel, so
\* the callback stays where it is, and close() with it.
LEMMA HeldStays ==
    ASSUME TypeOK, SilentSoFar, [Next]_vars, HeldUp
    PROVE  HeldUp' /\ session' = session
<1> USE DEF HeldUp, pumpVars, sessionVars, peerVars
<1>1. session = "closing" /\ report # NoMsg /\ ~StateRoom
  BY DEF StateRoom, TypeOK
<1>2. CASE ClientLeaves \/ PumpReadsFrame \/ PumpWrites \/ PumpFinishes \/ PumpSteps
  <2>1. ~PumpOffersSession
    BY <1>1 DEF PumpOffersSession, SilentSoFar
  <2> QED BY <1>1, <1>2, <2>1
          DEF ClientLeaves, PumpReadsFrame, PumpReads, PumpReadsUndecodable, PumpWrites,
              PumpFinishes, PumpSteps, PumpOffersSession, PumpTakesOut,
              PumpSeesSessionDropped, PumpReadsEnd, PumpForwards, PumpWritesInVain
<1>3. CASE HubAccepts \/ HubAborts
  BY <1>1, <1>3 DEF HubAccepts, HubAborts
<1>4. CASE SessionSteps
  BY <1>1, <1>4 DEF SessionSteps, SessionSetsUp, SessionSetupFails, SessionReceives,
     SessionSeesClientGone, SessionAnswers, SessionSends, SessionSeesState,
     SessionClosesPeer, SessionReturns
<1>5. CASE PeerChanges \/ PeerReports
  BY <1>1, <1>5 DEF PeerChanges, PeerReports
<1>6. CASE UNCHANGED vars
  BY <1>6 DEF vars
<1> QED BY <1>2, <1>3, <1>4, <1>5, <1>6 DEF Next, Finished

\* A message the pump writes is one the contract lets the agent tell its client: the
\* answer first, an error after no other.
LEMMA WritesAreTold ==
    ASSUME SessionInv, SessionInv', PumpWrites
    PROVE  Contract!Next
<1>1. /\ pump = "writing" /\ client = "up" /\ delivered' = Append(delivered, outbound)
      /\ UNCHANGED <<client, session, stateq, report>>
  BY DEF PumpWrites, sessionVars, peerVars
<1>2. TypeOK /\ HoldsMessage /\ SilentSoFar /\ AnswerLeads /\ CloseEnds /\ ErrorsEnd
  BY DEF SessionInv
<1>3. ~Contract!Heard({"close"})
  BY <1>1, <1>2 DEF CloseEnds, Contract!Heard
<1>4. session \notin {"absent", "queued", "setup"}
  BY <1>1, <1>2 DEF SilentSoFar, NothingSaid
<1>5. MediaSession # "none" /\ MediaSession' = MediaSession /\ HeldUp' = HeldUp
  <2>1. MediaSession # "none"
    BY <1>2, <1>4, MediaCases DEF TypeOK, SessionState
  <2>2. MediaSession' = MediaSession
    BY <1>1 DEF MediaSession
  <2>3. HeldUp' = HeldUp
    BY <1>1 DEF HeldUp
  <2> QED BY <2>1, <2>2, <2>3
<1>6. Contract!Tell(outbound)
  BY <1>1, <1>3, <1>5 DEF Contract!Tell
<1>7. CASE outbound = "answer"
  <2>1. delivered = <<>>
    BY <1>1, <1>2, <1>7 DEF AnswerLeads
  <2> QED BY <1>5, <1>6, <1>7, <2>1 DEF Contract!TellAnswer, Contract!Next
<1>8. CASE outbound \in ErrorCodes
  <2>1. Contract!Errors = {}
    BY <1>1, <1>2, <1>8 DEF ErrorsEnd, WritesError, Faultless, Listening, Contract!Errors
  <2>2. Contract!TellError(outbound)
    BY <1>5, <1>6, <2>1 DEF Contract!TellError
  <2> QED BY <1>8, <2>2 DEF Contract!Next
<1> QED BY <1>1, <1>2, <1>7, <1>8 DEF HoldsMessage, AgentMessage

\* The last frames of a pump are ones the contract lets the agent tell its client, if
\* the client is still there.
LEMMA LastFramesAreTold ==
    ASSUME SessionInv, SessionInv', PumpFinishes
    PROVE  [Contract!Next]_(Contract!vars)
<1>1. TypeOK /\ CloseEnds /\ ErrorsEnd /\ ClosesForCause
  BY DEF SessionInv
<1>2. pump \in {"rejecting", "closing"} /\ UNCHANGED <<client, session, stateq, report>>
  BY DEF PumpFinishes, sessionVars, peerVars
<1>3. MediaSession' = MediaSession /\ HeldUp' = HeldUp
  BY <1>2 DEF MediaSession, HeldUp
<1>4. ~Contract!Heard({"close"})
  BY <1>1, <1>2 DEF CloseEnds, Contract!Heard
<1>5. CASE client # "up"
  BY <1>2, <1>3, <1>5 DEF PumpFinishes, Contract!vars
<1>6. CASE client = "up" /\ pump = "rejecting"
  <2>1. Contract!Tell("bad_message")
    BY <1>2, <1>3, <1>4, <1>6 DEF PumpFinishes, Contract!Tell
  <2>2. \A i, j \in Contract!Errors : i = j
    BY <1>1, <1>6 DEF ErrorsEnd, Listening, Contract!Errors
  <2>3. Contract!TellError("bad_message")
    BY <2>1, <2>2 DEF Contract!TellError
  <2> QED BY <2>3 DEF Contract!Next, ErrorCodes
<1>7. CASE client = "up" /\ pump = "closing"
  <2>1. Contract!Tell("close")
    BY <1>2, <1>3, <1>4, <1>7 DEF PumpFinishes, Contract!Tell
  <2>2. \/ MediaSession = "over"
        \/ delivered # <<>> /\ delivered[Len(delivered)] = "bad_message"
    BY <1>1, <1>7, MediaCases DEF ClosesForCause
  <2> QED BY <2>1, <2>2 DEF Contract!TellClose, Contract!Next
<1> QED BY <1>2, <1>5, <1>6, <1>7

\* A step that says nothing to the client opens its media session, ends it, holds it up
\* in its teardown, or is none of the contract's business.
LEMMA SilentStep ==
    ASSUME SessionInv, SessionInv', [Next]_vars, UNCHANGED <<client, delivered>>,
           \/ session' = session
           \/ session \in {"absent", "queued", "setup"} /\ session' \in {"queued", "setup"}
           \/ session = "setup" /\ session' = "loop"
           \/ session # "gone" /\ session' = "gone"
           \/ /\ session \in {"loop", "answering", "sending", "closing"}
              /\ session' \in {"loop", "answering", "sending", "closing"}
    PROVE  [Contract!Next]_(Contract!vars)
<1>1. TypeOK /\ TypeOK' /\ SilentSoFar
  BY DEF SessionInv
<1>2. /\ session' \in {"absent", "queued", "setup"} => MediaSession' = "none"
      /\ session' = "gone" => MediaSession' = "over"
      /\ session' \in {"loop", "answering", "sending", "closing"} => MediaSession' = "open"
  BY DEF MediaSession
<1>3. /\ HeldUp => HeldUp' /\ session' = session
      /\ HeldUp => session = "closing"
      /\ HeldUp' => session' = "closing"
      /\ HeldUp \in BOOLEAN /\ HeldUp' \in BOOLEAN
  BY <1>1, HeldStays DEF HeldUp
<1>4. CASE MediaSession' = MediaSession
  <2>1. CASE HeldUp' = HeldUp
    BY <1>4, <2>1 DEF Contract!vars
  <2>2. CASE ~HeldUp /\ HeldUp'
    <3>1. MediaSession = "open"
      BY <1>2, <1>3, <1>4, <2>2
    <3> QED BY <1>4, <2>2, <3>1 DEF Contract!Next, Contract!Hold
  <2> QED BY <1>3, <2>1, <2>2, Zenon
<1>5. CASE session = "setup" /\ session' = "loop"
  <2>1. MediaSession = "none" /\ MediaSession' = "open"
    BY <1>1, <1>2, <1>5, MediaCases
  <2>2. HeldUp' = HeldUp
    BY <1>3, <1>5
  <2> QED BY <2>1, <2>2 DEF Contract!Next, Contract!Open
<1>6. CASE session # "gone" /\ session' = "gone"
  <2>1. MediaSession # "over" /\ MediaSession' = "over"
    BY <1>1, <1>2, <1>6, MediaCases DEF TypeOK, SessionState
  <2>2. ~HeldUp /\ HeldUp' = HeldUp
    BY <1>3, <1>6
  <2> QED BY <2>1, <2>2 DEF Contract!Next, Contract!End
<1>7. CASE session' = session
  <2>1. MediaSession' = MediaSession
    BY <1>7 DEF MediaSession
  <2> QED BY <1>4, <2>1
<1> QED BY <1>1, <1>2, <1>4, <1>5, <1>6, <1>7, MediaCases

\* Every step of the client, the pump, the hub, the session and the peer connection
\* is one the client's contract allows, or one it does not see.
LEMMA ContractStep ==
    ASSUME SessionInv, SessionInv', [Next]_vars
    PROVE  [Contract!Next]_(Contract!vars)
<1> USE DEF pumpVars, sessionVars, peerVars
<1>1. CASE ClientLeaves
  <2>1. MediaSession' = MediaSession /\ HeldUp' = HeldUp
    BY <1>1 DEF ClientLeaves, MediaSession, HeldUp
  <2> QED BY <1>1, <2>1 DEF ClientLeaves, Contract!Next, Contract!Leave
<1>2. CASE PumpWrites
  BY <1>2, WritesAreTold
<1>3. CASE PumpFinishes
  BY <1>3, LastFramesAreTold
<1>4. CASE PumpSteps
  <2>1. CASE PumpOffersSession
    BY <2>1, SilentStep DEF PumpOffersSession, SessionInv, SilentSoFar
  <2>2. CASE ~PumpOffersSession
    BY <1>4, <2>2, SilentStep DEF PumpSteps, PumpTakesOut, PumpSeesSessionDropped,
       PumpReadsEnd, PumpForwards, PumpWritesInVain
  <2> QED BY <2>1, <2>2
<1>5. CASE PumpReadsFrame
  BY <1>5, SilentStep DEF PumpReadsFrame, PumpReads, PumpReadsUndecodable
<1>6. CASE HubAccepts \/ HubAborts
  BY <1>6, SilentStep DEF HubAccepts, HubAborts
<1>7. CASE SessionSteps
  <2>1. CASE SessionSetsUp \/ SessionSetupFails \/ SessionReturns
    BY <2>1, SilentStep DEF SessionSetsUp, SessionSetupFails, SessionReturns
  <2>2. CASE SessionReceives \/ SessionSeesClientGone \/ SessionAnswers \/ SessionSends
             \/ SessionSeesState \/ SessionClosesPeer
    <3>1. /\ session \in {"loop", "answering", "sending", "closing"}
          /\ session' \in {"loop", "answering", "sending", "closing"}
          /\ UNCHANGED <<client, delivered>>
      BY <2>2 DEF SessionReceives, SessionSeesClientGone, AfterClientGone, SessionAnswers,
         SessionSends, AfterSend, SessionSeesState, SessionClosesPeer
    <3> QED BY <3>1, SilentStep
  <2> QED BY <1>7, <2>1, <2>2 DEF SessionSteps
<1>8. CASE PeerChanges \/ PeerReports \/ UNCHANGED vars
  <2>1. UNCHANGED <<client, delivered, session>>
    BY <1>8 DEF PeerChanges, PeerReports, vars
  <2> QED BY <2>1, SilentStep
<1> QED BY <1>1, <1>2, <1>3, <1>4, <1>5, <1>6, <1>7, <1>8 DEF Next, Finished

----------------------------------------------------------------------------
(* The theorems *)

\* SessionInv, the invariant pump() and session_loop() maintain together, holds in
\* every reachable state of one client's session, whatever the client sends.
THEOREM SessionInvariant == Spec => []SessionInv
<1>1. Init => SessionInv
  <2> SUFFICES ASSUME Init PROVE SessionInv
    OBVIOUS
  <2> USE DEF Init
  <2>1. inq \in Seq(ClientMessage) /\ outq \in Seq(AgentMessage) /\ stateq \in Seq(PeerState)
    BY EmptyChannels
  <2>2. Len(inq) <= InCap /\ Len(outq) <= OutCap /\ Len(stateq) <= StateCap
    BY EmptyChannels
  <2>3. delivered \in Seq(AgentMessage \cup {"close"}) /\ raised \in 0..MaxPeerEvents
    BY EmptyChannels
  <2>4. TypeOK
    BY <2>1, <2>2, <2>3 DEF TypeOK, PumpState, SessionState, NoMsg, NoInbound
  <2>5. HoldsMessage /\ SilentSoFar
    BY DEF HoldsMessage, SilentSoFar, NothingSaid, NoMsg
  <2>6. TwoMessages /\ AnswerLeads /\ CloseEnds
    BY EmptyChannels DEF TwoMessages, AnswerLeads, CloseEnds
  <2>7. ErrorsEnd /\ ClosesForCause
    BY EmptyChannels DEF ErrorsEnd, ClosesForCause, BeforeError, Faultless, WritesError
  <2> QED BY <2>4, <2>5, <2>6, <2>7 DEF SessionInv
<1>2. SessionInv /\ [Next]_vars => SessionInv'
  <2> SUFFICES ASSUME SessionInv, [Next]_vars PROVE SessionInv'
    OBVIOUS
  <2> QED BY TypeStep, SaidStep, AnswerStep, CloseStep, ErrorStep, CauseStep DEF SessionInv
<1> QED BY <1>1, <1>2, PTL DEF Spec

\* The types of the channels and control states: no channel of a session ever holds
\* more than its capacity.
THEOREM TypeCorrect == Spec => []TypeOK
<1>1. SessionInv => TypeOK
  BY DEF SessionInv
<1> QED BY <1>1, SessionInvariant, PTL

\* session.tx.send() never has to wait, so the session task and the pump task are
\* never both waiting for room in the channel the other one empties.
THEOREM SessionNeverBlocks == Spec => []SessionNeverWaits
<1>1. SessionInv => SessionNeverWaits
  BY DEF SessionInv, TwoMessages, SessionNeverWaits, OutRoom, TypeOK
<1> QED BY <1>1, SessionInvariant, PTL

\* The frames a client receives are in the order the protocol promises.
THEOREM WireOrderHolds == Spec => []WireOrder
<1>1. SessionInv => WireOrder
  BY DEF SessionInv, AnswerLeads, CloseEnds, WireOrder
<1> QED BY <1>1, SessionInvariant, PTL

\* The session implements the safety part of the client's contract, for channels of
\* any capacity: whatever the client sends, the conversation on its socket is one the
\* contract allows, and its media session opens once and ends once. (That the session
\* of a client that is gone does end rests on fairness and stays with TLC.)
THEOREM ImplementsContractSafely == Spec => Contract!Init /\ [][Contract!Next]_(Contract!vars)
<1>1. Init => Contract!Init
  BY DEF Init, Contract!Init, MediaSession, HeldUp
<1>2. SessionInv /\ SessionInv' /\ [Next]_vars => [Contract!Next]_(Contract!vars)
  BY ContractStep
<1> QED BY <1>1, <1>2, SessionInvariant, PTL DEF Spec
=============================================================================
