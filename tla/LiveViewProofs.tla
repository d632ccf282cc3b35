--------------------------- MODULE LiveViewProofs ---------------------------
(***************************************************************************)
(* Proofs about LiveView, for every set of clients, every capacity of the   *)
(* accept queue and every setting of the encoder.                           *)
(***************************************************************************)
EXTENDS LiveView, TLAPS

EncoderProofs == INSTANCE VideoEncoderProofs

USE AcceptAssumption

\* What waits at the end of a line is in it, once if it was not in it before.
LEMMA LineAppend ==
    ASSUME NEW s \in Seq(Viewer), NEW c \in Viewer
    PROVE  /\ Append(s, c) \in Seq(Viewer)
           /\ Elements(Append(s, c)) = Elements(s) \cup {c}
           /\ Distinct(s) /\ c \notin Elements(s) => Distinct(Append(s, c))
<1>1. /\ Append(s, c) \in Seq(Viewer) /\ Len(Append(s, c)) = Len(s) + 1
      /\ \A i \in 1..Len(s) : Append(s, c)[i] = s[i]
      /\ Append(s, c)[Len(s) + 1] = c
      /\ Len(s) \in Nat
  OBVIOUS
<1>2. Elements(Append(s, c)) = Elements(s) \cup {c}
  <2>1. 1..(Len(s) + 1) = (1..Len(s)) \cup {Len(s) + 1}
    BY <1>1
  <2> QED BY <1>1, <2>1, Zenon DEF Elements
<1>3. ASSUME Distinct(s), c \notin Elements(s) PROVE Distinct(Append(s, c))
  <2>1. \A i \in 1..Len(s) : s[i] # c
    BY <1>3 DEF Elements
  <2> QED BY <1>1, <1>3, <2>1 DEF Distinct
<1> QED BY <1>1, <1>2, <1>3

\* Who is first leaves a line by being served.
LEMMA LineTail ==
    ASSUME NEW s \in Seq(Viewer), s # <<>>, Distinct(s)
    PROVE  /\ Tail(s) \in Seq(Viewer) /\ Distinct(Tail(s)) /\ Len(Tail(s)) = Len(s) - 1
           /\ Elements(Tail(s)) = Elements(s) \ {Head(s)}
           /\ Head(s) \in Viewer /\ Head(s) \in Elements(s)
<1>1. /\ Tail(s) \in Seq(Viewer) /\ Len(Tail(s)) = Len(s) - 1
      /\ \A i \in 1..(Len(s) - 1) : Tail(s)[i] = s[i + 1]
      /\ Len(s) \in Nat /\ Len(s) > 0 /\ Head(s) = s[1] /\ Head(s) \in Viewer
  OBVIOUS
<1>2. Distinct(Tail(s))
  BY <1>1 DEF Distinct
<1>3. Head(s) \in Elements(s)
  BY <1>1 DEF Elements
<1>4. ASSUME NEW x \in Elements(Tail(s)) PROVE x \in Elements(s) \ {Head(s)}
  <2>1. PICK i \in 1..(Len(s) - 1) : x = s[i + 1]
    BY <1>1 DEF Elements
  <2>2. i + 1 \in 1..Len(s) /\ 1 \in 1..Len(s) /\ i + 1 # 1
    BY <1>1
  <2> QED BY <1>1, <2>1, <2>2 DEF Elements, Distinct
<1>5. ASSUME NEW x \in Elements(s) \ {Head(s)} PROVE x \in Elements(Tail(s))
  <2>1. PICK i \in 1..Len(s) : x = s[i]
    BY DEF Elements
  <2>2. i - 1 \in 1..Len(Tail(s)) /\ Tail(s)[i - 1] = x
    BY <1>1, <2>1
  <2> QED BY <2>2 DEF Elements
<1> QED BY <1>1, <1>2, <1>3, <1>4, <1>5

\* The encoder brings nobody to the track and takes nobody off it.
LEMMA EncoderKeepsViewers ==
    ASSUME TypeOK, Encoder!EncoderSteps \/ Encoder!SourceCloses \/ Encoder!EncoderFails
    PROVE  /\ view' \in [Viewer -> Encoder!ViewState]
           /\ \A v \in Viewer : view'[v] = "away" <=> view[v] = "away"
<1>1. CASE Encoder!Writes
  BY <1>1 DEF Encoder!Writes, TypeOK, Encoder!ViewState
<1>2. CASE ~ Encoder!Writes
  <2>1. view' = view
    BY <1>2 DEF Encoder!EncoderSteps, Encoder!SourceCloses, Encoder!EncoderFails, Encoder!Returns,
         Encoder!Receives, Encoder!Drains, Encoder!EmitsNothing, Encoder!Encodes
  <2> QED BY <2>1 DEF TypeOK
<1> QED BY <1>1, <1>2

\* A session that moves from stage to stage of its task stays in its task or is over.
LEMMA MoveInTask ==
    ASSUME LiveInv, NEW c \in Viewer, NEW from \in SUBSET InTask, NEW to \in InTask \cup {"none"},
           Moves(c, from, to), view' \in [Viewer -> Encoder!ViewState]
    PROVE  /\ TypeOK' /\ OnePlace'
           /\ session[c] \in from /\ session'[c] = to
           /\ \A d \in Viewer \ {c} : session'[d] = session[d]
<1> USE DEF LiveInv, Moves, Turns
<1>1. /\ session' = [session EXCEPT ![c] = to] /\ session[c] \in from
      /\ UNCHANGED <<here, pump, offers, queue, hub>>
  OBVIOUS
<1>2. TypeOK'
  <2>1. session' \in [Viewer -> Stage]
    <3>1. session \in [Viewer -> Stage] /\ to \in Stage
      BY DEF TypeOK, Stage
    <3> QED BY <1>1, <3>1
  <2> QED BY <1>1, <2>1 DEF TypeOK
<1>3. session'[c] = to /\ \A d \in Viewer \ {c} : session'[d] = session[d]
  BY <1>1 DEF TypeOK
<1>4. OnePlace'
  <2>1. session[c] \notin {"none", "queued"} /\ to # "queued"
    BY DEF InTask, InLoop
  <2>2. Elements(offers) \subseteq Viewer
    BY DEF OnePlace, Elements, TypeOK
  <2> QED BY <1>1, <1>3, <2>1, <2>2 DEF OnePlace, Elements, Distinct
<1> QED BY <1>1, <1>2, <1>3, <1>4

\* Clients that come, leave or are refused, pumps that wait and return.
LEMMA ClientStep ==
    ASSUME LiveInv, NEW c \in Viewer, Connects(c) \/ ClientLeaves(c) \/ PumpReturns(c)
    PROVE  LiveInv'
<1> USE DEF LiveInv, viewVars
<1>1. UNCHANGED <<queue, hub, session, view>>
  BY DEF Connects, ClientLeaves, PumpReturns
<1>2. ViewersAreLive'
  BY <1>1 DEF ViewersAreLive
<1>3. CASE Connects(c)
  <2>1. /\ offers' = Append(offers, c) /\ pump' = [pump EXCEPT ![c] = "offering"]
        /\ pump[c] = "none" /\ session[c] = "none" /\ here' = here \cup {c}
    BY <1>3 DEF Connects
  <2>2. c \notin Elements(offers)
    BY <2>1 DEF OnePlace
  <2>3. /\ offers' \in Seq(Viewer) /\ Elements(offers') = Elements(offers) \cup {c}
        /\ Distinct(offers')
    BY <2>1, <2>2, LineAppend DEF TypeOK, OnePlace
  <2>4. TypeOK'
    BY <1>1, <2>1, <2>3 DEF TypeOK
  <2>5. OnePlace'
    BY <1>1, <2>1, <2>3 DEF OnePlace, TypeOK
  <2> QED BY <1>2, <2>4, <2>5
<1>4. CASE ClientLeaves(c)
  BY <1>1, <1>2, <1>4 DEF ClientLeaves, TypeOK, OnePlace
<1>5. CASE PumpReturns(c)
  <2>1. TypeOK'
    BY <1>1, <1>5 DEF PumpReturns, TypeOK
  <2>2. OnePlace'
    BY <1>1, <1>5 DEF PumpReturns, TypeOK, OnePlace
  <2> QED BY <1>2, <2>1, <2>2
<1> QED BY <1>3, <1>4, <1>5

\* The two lines: a session leaves one only to enter the next.
LEMMA LineStep ==
    ASSUME LiveInv, SessionQueued \/ OfferFails \/ HubAccepts \/ ServeEnds
    PROVE  LiveInv'
<1> USE DEF LiveInv, viewVars
<1>1. view' = view
  BY DEF SessionQueued, OfferFails, HubAccepts, ServeEnds
<1>2. CASE SessionQueued
  <2> DEFINE c == Head(offers)
  <2>1. /\ offers # <<>> /\ offers' = Tail(offers) /\ queue' = Append(queue, c)
        /\ session' = [session EXCEPT ![c] = "queued"] /\ pump' = [pump EXCEPT ![c] = "pumping"]
        /\ Len(queue) < AcceptCap /\ hub = "running" /\ UNCHANGED <<here, hub>>
    BY <1>2 DEF SessionQueued, QueueRoom, Turns
  <2>2. /\ offers' \in Seq(Viewer) /\ Distinct(offers')
        /\ Elements(offers') = Elements(offers) \ {c}
        /\ c \in Viewer /\ c \in Elements(offers)
    BY <2>1, LineTail DEF TypeOK, OnePlace
  <2>3. session[c] = "none" /\ c \notin Elements(queue)
    BY <2>2 DEF OnePlace
  <2>4. /\ queue' \in Seq(Viewer) /\ Distinct(queue') /\ Len(queue') <= AcceptCap
        /\ Elements(queue') = Elements(queue) \cup {c}
    BY <2>1, <2>2, <2>3, LineAppend DEF TypeOK, OnePlace
  <2>5. TypeOK'
    BY <1>1, <2>1, <2>2, <2>4 DEF TypeOK, Stage
  <2>6. OnePlace'
    BY <2>1, <2>2, <2>3, <2>4 DEF OnePlace, TypeOK
  <2>7. ViewersAreLive'
    BY <1>1, <2>1, <2>2, <2>3 DEF ViewersAreLive, TypeOK
  <2> QED BY <2>5, <2>6, <2>7
<1>3. CASE OfferFails
  <2> DEFINE c == Head(offers)
  <2>1. /\ offers # <<>> /\ offers' = Tail(offers) /\ pump' = [pump EXCEPT ![c] = "none"]
        /\ here' = here \ {c} /\ UNCHANGED <<queue, hub, session>>
    BY <1>3 DEF OfferFails
  <2>2. /\ offers' \in Seq(Viewer) /\ Distinct(offers')
        /\ Elements(offers') = Elements(offers) \ {c}
        /\ c \in Viewer
    BY <2>1, LineTail DEF TypeOK, OnePlace
  <2>3. TypeOK'
    BY <1>1, <2>1, <2>2 DEF TypeOK
  <2>4. OnePlace'
    BY <2>1, <2>2 DEF OnePlace, TypeOK
  <2>5. ViewersAreLive'
    BY <1>1, <2>1 DEF ViewersAreLive
  <2> QED BY <2>3, <2>4, <2>5
<1>4. CASE HubAccepts
  <2> DEFINE c == Head(queue)
  <2>1. /\ queue # <<>> /\ queue' = Tail(queue) /\ session' = [session EXCEPT ![c] = "setup"]
        /\ UNCHANGED <<here, pump, offers, hub>>
    BY <1>4 DEF HubAccepts, Turns
  <2>2. /\ queue' \in Seq(Viewer) /\ Distinct(queue') /\ Len(queue') <= AcceptCap
        /\ Elements(queue') = Elements(queue) \ {c}
        /\ c \in Viewer /\ c \in Elements(queue)
    BY <2>1, LineTail DEF TypeOK, OnePlace
  <2>3. session[c] = "queued" /\ c \notin Elements(offers)
    BY <2>2 DEF OnePlace
  <2>4. TypeOK'
    BY <1>1, <2>1, <2>2 DEF TypeOK, Stage, InTask
  <2>5. hub # "aborted"
    BY <2>1 DEF OnePlace
  <2>6. Elements(offers) \subseteq Viewer
    BY DEF OnePlace, TypeOK, Elements
  <2>7. OnePlace'
    BY <2>1, <2>2, <2>3, <2>5, <2>6 DEF OnePlace, TypeOK
  <2>8. ViewersAreLive'
    BY <1>1, <2>1, <2>2, <2>3 DEF ViewersAreLive, TypeOK
  <2> QED BY <2>4, <2>7, <2>8
<1>5. CASE ServeEnds
  <2>1. /\ session' = [c \in Viewer |-> IF session[c] = "queued" THEN "none" ELSE session[c]]
        /\ queue' = <<>> /\ hub' = "aborted" /\ UNCHANGED <<here, pump, offers>>
    BY <1>5 DEF ServeEnds
  <2>2. queue' \in Seq(Viewer) /\ Len(queue') = 0 /\ Elements(queue') = {} /\ Distinct(queue')
    BY <2>1 DEF Elements, Distinct
  <2>3. TypeOK'
    BY <1>1, <2>1, <2>2 DEF TypeOK, Stage
  <2>4. Elements(offers) \subseteq Viewer
    BY DEF TypeOK, Elements
  <2>5. OnePlace'
    BY <2>1, <2>2, <2>4 DEF OnePlace
  <2>6. ViewersAreLive'
    BY <1>1, <2>1 DEF ViewersAreLive
  <2> QED BY <2>3, <2>5, <2>6
<1> QED BY <1>2, <1>3, <1>4, <1>5

\* What a viewer does on the track concerns that viewer alone.
LEMMA ViewMove ==
    ASSUME TypeOK, NEW c \in Viewer, NEW from, NEW to \in Encoder!ViewState,
           Encoder!ViewerMoves(c, from, to)
    PROVE  /\ view' \in [Viewer -> Encoder!ViewState] /\ view'[c] = to
           /\ \A d \in Viewer \ {c} : view'[d] = view[d]
BY DEF Encoder!ViewerMoves, TypeOK

\* pc.close() takes the viewer off the track.
LEMMA Closed ==
    ASSUME TypeOK, NEW c \in Viewer,
           IF view[c] = "away" THEN UNCHANGED viewVars ELSE Encoder!Leaves(c)
    PROVE  /\ view' \in [Viewer -> Encoder!ViewState] /\ view'[c] = "away"
           /\ \A d \in Viewer \ {c} : view'[d] = view[d]
<1>1. CASE view[c] = "away"
  BY <1>1 DEF viewVars, TypeOK
<1>2. CASE view[c] # "away"
  BY <1>2, ViewMove DEF Encoder!Leaves, Encoder!ViewState
<1> QED BY <1>1, <1>2

\* A session's turn, and its failing connection: it is on the track only between its
\* answer and its end.
LEMMA SessionStep ==
    ASSUME LiveInv, NEW c \in Viewer,
           \/ SetsUp(c) \/ SetupFails(c) \/ Answers(c) \/ SeesEnd(c) \/ BreaksOff(c)
           \/ SessionReturns(c) \/ PeerFails(c)
    PROVE  LiveInv'
<1> USE DEF LiveInv
<1>1. CASE \/ SetsUp(c) \/ SetupFails(c) \/ Answers(c) \/ SeesEnd(c) \/ BreaksOff(c)
           \/ PeerFails(c)
  <2>1. view' = view /\ view' \in [Viewer -> Encoder!ViewState]
    BY <1>1 DEF SetsUp, SetupFails, Answers, SeesEnd, BreaksOff, PeerFails, viewVars, TypeOK
  <2>2. PICK from \in SUBSET InTask, to \in InTask \cup {"none"} :
          /\ Moves(c, from, to)
          /\ from \in {{"setup"}, {"loop"}} \/ to \in {"failed", "closing"}
    <3>1. /\ InLoop \in SUBSET InTask /\ {"setup"} \in SUBSET InTask
          /\ {"loop"} \in SUBSET InTask /\ {"loop", "answered"} \in SUBSET InTask
          /\ {"answered"} \in SUBSET InTask
          /\ {"loop", "answered", "failed", "closing"} \subseteq InTask
      BY DEF InTask, InLoop
    <3> QED BY <1>1, <3>1 DEF SetsUp, SetupFails, Answers, SeesEnd, BreaksOff, PeerFails
  <2>3. /\ TypeOK' /\ OnePlace' /\ session[c] \in from /\ session'[c] = to
        /\ \A d \in Viewer \ {c} : session'[d] = session[d]
    BY <2>1, <2>2, MoveInTask
  <2>4. ViewersAreLive'
    BY <2>1, <2>2, <2>3 DEF ViewersAreLive
  <2> QED BY <2>3, <2>4
<1>2. CASE SessionReturns(c)
  <2>1. /\ view' \in [Viewer -> Encoder!ViewState] /\ view'[c] = "away"
        /\ \A d \in Viewer \ {c} : view'[d] = view[d]
    BY <1>2, Closed DEF SessionReturns, Closes
  <2>2. PICK from \in SUBSET InTask, to \in InTask \cup {"none"} : Moves(c, from, to)
    <3>1. {"closing"} \in SUBSET InTask
      BY DEF InTask, InLoop
    <3> QED BY <1>2, <3>1 DEF SessionReturns
  <2>3. TypeOK' /\ OnePlace' /\ \A d \in Viewer \ {c} : session'[d] = session[d]
    BY <2>1, <2>2, MoveInTask
  <2>4. ViewersAreLive'
    BY <2>1, <2>3 DEF ViewersAreLive
  <2> QED BY <2>3, <2>4
<1> QED BY <1>1, <1>2

\* Only an answered session's connection moves a viewer on the track. (A failed one's
\* may still be seen to have connected.)
LEMMA ViewerStep ==
    ASSUME LiveInv, NEW c \in Viewer, SeesConnected(c) \/ PeerConnects(c) \/ PeerWavers(c)
    PROVE  LiveInv'
<1> USE DEF LiveInv, sessionVars
<1>1. session[c] \in {"answered", "failed"} /\ UNCHANGED sessionVars
  BY DEF SeesConnected, PeerConnects, PeerWavers
<1>2. PICK from \in SUBSET Encoder!ViewState, to \in Encoder!ViewState :
        Encoder!ViewerMoves(c, from, to)
  <2>1. /\ {"joined"} \in SUBSET Encoder!ViewState /\ {"away"} \in SUBSET Encoder!ViewState
        /\ {"decoding"} \in SUBSET Encoder!ViewState /\ {"lost"} \in SUBSET Encoder!ViewState
        /\ {"joined", "asked", "decoding", "lost"} \subseteq Encoder!ViewState
    BY DEF Encoder!ViewState
  <2>2. CASE SeesConnected(c)
    BY <2>1, <2>2 DEF SeesConnected
  <2>3. CASE PeerConnects(c)
    BY <2>1, <2>3 DEF PeerConnects, Encoder!Joins
  <2>4. CASE PeerWavers(c)
    BY <2>1, <2>4 DEF PeerWavers, Encoder!Loses, Encoder!AsksAgain
  <2> QED BY <2>2, <2>3, <2>4
<1>3. /\ view' \in [Viewer -> Encoder!ViewState]
      /\ \A d \in Viewer \ {c} : view'[d] = view[d]
  BY <1>2, ViewMove
<1>4. TypeOK' /\ OnePlace'
  BY <1>1, <1>3 DEF TypeOK, OnePlace
<1>5. ViewersAreLive'
  BY <1>1, <1>3 DEF ViewersAreLive
<1> QED BY <1>4, <1>5

\* The lines, the sessions and the track agree, whoever comes, goes, fails or is refused:
\* a session is in one place, and on the track only while it lives (ws.rs, peer.rs).
THEOREM LiveInvariant == Spec => []LiveInv
<1>1. Init => LiveInv
  BY DEF Init, Encoder!Init, LiveInv, TypeOK, OnePlace, ViewersAreLive, Elements, Distinct,
     Stage, Encoder!ViewState
<1>2. LiveInv /\ [Next]_vars => LiveInv'
  <2> SUFFICES ASSUME LiveInv, [Next]_vars PROVE LiveInv'
    OBVIOUS
  <2>1. CASE UNCHANGED vars \/ Finished
    BY <2>1 DEF Finished, vars, sessionVars, viewVars, LiveInv, TypeOK, OnePlace, ViewersAreLive
  <2>2. CASE EncoderSteps \/ EncoderEnds
    BY <2>2, EncoderKeepsViewers
       DEF EncoderSteps, EncoderEnds, sessionVars, LiveInv, TypeOK, OnePlace, ViewersAreLive
  <2>3. ASSUME NEW c \in Viewer, SessionSteps(c) PROVE LiveInv'
    BY <2>3, SessionStep, ViewerStep DEF SessionSteps
  <2> QED BY <2>1, <2>2, <2>3, ClientStep, LineStep, SessionStep, ViewerStep DEF Next
<1> QED BY <1>1, <1>2, PTL DEF Spec

\* Every step of the composed system is a step of the encoder's model or leaves it alone.
LEMMA EncoderStep ==
    ASSUME LiveInv, [Next]_vars
    PROVE  [Encoder!Next]_(Encoder!vars)
<1> USE DEF viewVars, sessionVars, Encoder!vars, Encoder!encoderVars, Encoder!clockVars
<1>1. CASE UNCHANGED viewVars
  BY <1>1
<1>2. CASE EncoderSteps \/ EncoderEnds
  BY <1>2 DEF EncoderSteps, EncoderEnds, Encoder!Next
<1>3. ASSUME NEW c \in Viewer, SeesConnected(c) PROVE Encoder!Next
  BY <1>3 DEF SeesConnected, Requested, Encoder!Asks, Encoder!Next
<1>4. ASSUME NEW c \in Viewer, PeerConnects(c) \/ PeerWavers(c) PROVE Encoder!Next
  BY <1>4 DEF PeerConnects, PeerWavers, Encoder!Next
<1>5. ASSUME NEW c \in Viewer, SessionReturns(c)
      PROVE  UNCHANGED viewVars \/ Encoder!Next
  BY <1>5 DEF SessionReturns, Closes, Encoder!Next
<1>6. ASSUME NEW c \in Viewer,
             \/ Connects(c) \/ ClientLeaves(c) \/ PumpReturns(c) \/ SetsUp(c) \/ SetupFails(c)
             \/ SeesEnd(c) \/ Answers(c) \/ BreaksOff(c) \/ PeerFails(c)
      PROVE  UNCHANGED viewVars
  BY <1>6 DEF Connects, ClientLeaves, PumpReturns, SetsUp, SetupFails, SeesEnd, Answers,
              BreaksOff, PeerFails
<1>7. SessionQueued \/ OfferFails \/ HubAccepts \/ ServeEnds \/ Finished => UNCHANGED viewVars
  BY DEF SessionQueued, OfferFails, HubAccepts, ServeEnds, Finished, vars
<1>8. UNCHANGED vars => UNCHANGED viewVars
  BY DEF vars
<1> QED BY <1>1, <1>2, <1>3, <1>4, <1>5, <1>6, <1>7, <1>8 DEF Next, SessionSteps

\* The safety half of ImplementsEncoder: the sessions are the viewers that VideoEncoder
\* assumes, so that what VideoEncoderProofs shows holds of the composed system.
THEOREM ImplementsEncoderSafely == Spec => Encoder!Init /\ [][Encoder!Next]_(Encoder!vars)
<1>1. Init => Encoder!Init
  BY DEF Init
<1>2. LiveInv /\ [Next]_vars => [Encoder!Next]_(Encoder!vars)
  BY EncoderStep
<1> QED BY <1>1, <1>2, LiveInvariant, PTL DEF Spec

\* VideoEncoder read in LiveView and read in its proofs are one and the same.
LEMMA SameEncoder ==
    /\ Encoder!Init => EncoderProofs!Init
    /\ EncoderProofs!EncoderInv <=> Encoder!EncoderInv
    /\ EncoderProofs!EncoderInv' <=> Encoder!EncoderInv'
    /\ [Encoder!Next]_(Encoder!vars) => [EncoderProofs!Next]_(EncoderProofs!vars)
<1> USE DEF Encoder!vars, Encoder!encoderVars, Encoder!clockVars,
            EncoderProofs!vars, EncoderProofs!encoderVars, EncoderProofs!clockVars
<1>1. Encoder!Init => EncoderProofs!Init
  BY DEF Encoder!Init, EncoderProofs!Init
<1>2. /\ EncoderProofs!TypeOK <=> Encoder!TypeOK
      /\ EncoderProofs!Over <=> Encoder!Over
  BY DEF Encoder!TypeOK, EncoderProofs!TypeOK, Encoder!ViewState, EncoderProofs!ViewState,
         Encoder!TaskState, EncoderProofs!TaskState, Encoder!Over, EncoderProofs!Over
<1>3. EncoderProofs!EncoderInv <=> Encoder!EncoderInv
  BY <1>2 DEF Encoder!EncoderInv, EncoderProofs!EncoderInv,
         Encoder!SampleAtHand, EncoderProofs!SampleAtHand,
         Encoder!NoLostRequest, EncoderProofs!NoLostRequest,
         Encoder!RtpClockHonest, EncoderProofs!RtpClockHonest
<1>4. ASSUME NEW v \in Viewer
      PROVE  /\ Encoder!Joins(v) => EncoderProofs!Joins(v)
             /\ Encoder!Loses(v) => EncoderProofs!Loses(v)
             /\ Encoder!Leaves(v) => EncoderProofs!Leaves(v)
             /\ Encoder!Asks(v) => EncoderProofs!Asks(v)
             /\ Encoder!AsksAgain(v) => EncoderProofs!AsksAgain(v)
  BY DEF Encoder!Joins, EncoderProofs!Joins, Encoder!Loses, EncoderProofs!Loses,
         Encoder!Leaves, EncoderProofs!Leaves, Encoder!Asks, EncoderProofs!Asks,
         Encoder!AsksAgain, EncoderProofs!AsksAgain,
         Encoder!ViewerMoves, EncoderProofs!ViewerMoves,
         Encoder!ViewState, EncoderProofs!ViewState,
         Encoder!AfterRequest, EncoderProofs!AfterRequest,
         Encoder!Over, EncoderProofs!Over
<1>5. ASSUME NEW dt \in Gaps PROVE Encoder!Receives(dt) => EncoderProofs!Receives(dt)
  BY DEF Encoder!Receives, EncoderProofs!Receives
<1>6. /\ Encoder!Drains => EncoderProofs!Drains
      /\ Encoder!Writes => EncoderProofs!Writes
      /\ Encoder!SourceCloses => EncoderProofs!SourceCloses
      /\ Encoder!EncoderFails => EncoderProofs!EncoderFails
  BY DEF Encoder!Drains, EncoderProofs!Drains, Encoder!Writes, EncoderProofs!Writes,
         Encoder!SourceCloses, EncoderProofs!SourceCloses,
         Encoder!EncoderFails, EncoderProofs!EncoderFails,
         Encoder!Returns, EncoderProofs!Returns
<1>7. /\ Encoder!EmitsNothing => EncoderProofs!EmitsNothing
      /\ Encoder!Encodes => EncoderProofs!Encodes
  BY DEF Encoder!EmitsNothing, EncoderProofs!EmitsNothing,
         Encoder!ForceAfterNothing, EncoderProofs!ForceAfterNothing,
         Encoder!AgeAfterNothing, EncoderProofs!AgeAfterNothing,
         Encoder!Encodes, EncoderProofs!Encodes, Encoder!IdrDue, EncoderProofs!IdrDue,
         Encoder!Clamp, EncoderProofs!Clamp
<1>8. Encoder!Next => EncoderProofs!Next
  BY <1>2, <1>4, <1>5, <1>6, <1>7
     DEF Encoder!Next, EncoderProofs!Next, Encoder!EncoderSteps, EncoderProofs!EncoderSteps,
         Encoder!Finished, EncoderProofs!Finished
<1> QED BY <1>1, <1>3, <1>8, PTL

\* VideoEncoder's invariant, carried over the composition: no keyframe request of a session
\* is lost and the RTP clock stays honest (encode/mod.rs, encode/video.rs), however clients
\* come, queue, fail and leave (peer.rs).
THEOREM EncoderKeepsItsWord == Spec => []Encoder!EncoderInv
<1>1. Init => Encoder!EncoderInv
  BY EncoderAssumption, SameEncoder, EncoderProofs!InitEncoder DEF Init
<1>2. Encoder!EncoderInv /\ [Encoder!Next]_(Encoder!vars) => Encoder!EncoderInv'
  BY EncoderAssumption, SameEncoder, EncoderProofs!StepEncoder
<1>3. LiveInv /\ [Next]_vars => [Encoder!Next]_(Encoder!vars)
  BY EncoderStep
<1> QED BY <1>1, <1>2, <1>3, LiveInvariant, PTL DEF Spec
=============================================================================
