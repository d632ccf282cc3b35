-------------------------- MODULE ServeModeProofs --------------------------
(***************************************************************************)
(* Proofs about ServeMode, for every number of tolerated camera errors and  *)
(* every set of wire formats.                                               *)
(***************************************************************************)
EXTENDS ServeMode, TLAPS

\* The kinds and workers, and how they are related.
LEMMA Kinds ==
    /\ Kind = {"video", "audio"} /\ Worker = {"camera", "stream", "drain"}
    /\ Thread("video") = "camera" /\ Thread("audio") = "stream"
    /\ Publisher("video") = "camera" /\ Publisher("audio") = "drain"
    /\ KindOf("camera") = "video" /\ KindOf("stream") = "audio" /\ KindOf("drain") = "audio"
BY DEF Kind, Worker, Thread, Publisher, KindOf

\* The steps of run() up to the bind.
LEMMA ServeStep == ServeInv /\ ServeSteps => ServeInv'
<1> SUFFICES ASSUME ServeInv, ServeSteps PROVE ServeInv'
  OBVIOUS
<1> USE Kinds DEF ServeInv, TypeOK, OpenResult, NoOrphan, ClosedOnlyAfterExit, Stages, Reports, DrainOwned,
                  EncodersLate, TriesLeft, CapsCoverFrames, FilmedIsMapped, cameraVars
<1>1. ASSUME NEW k \in Kind, Spawns(k) PROVE ServeInv'
  <2>1. CASE k = "video"
    <3>1. /\ worker' = [worker EXCEPT !["camera"] = "opening"] /\ worker["camera"] = "absent"
          /\ serve = "start" /\ serve' = "video"
          /\ UNCHANGED <<simulate, exit, owned, stop, ready, errors, encoder, cameraVars>>
      BY <1>1, <2>1 DEF Spawns, Opens
    <3>2. TypeOK'
      BY <3>1
    <3>3. NoOrphan' /\ DrainOwned' /\ TriesLeft'
      BY <3>1
    <3>4. ready["video"] = "empty"
      BY <3>1
    <3>5. Reports'
      BY <3>1, <3>4
    <3>6. Stages' /\ EncodersLate' /\ ClosedOnlyAfterExit' /\ CapsCoverFrames' /\ FilmedIsMapped'
      BY <3>1
    <3> QED BY <3>2, <3>3, <3>5, <3>6
  <2>2. CASE k = "audio"
    <3>1. /\ worker' = [worker EXCEPT !["stream"] = "opening"] /\ worker["stream"] = "absent"
          /\ serve = "video" /\ owned["video"] /\ serve' = "audio"
          /\ UNCHANGED <<simulate, exit, owned, stop, ready, errors, encoder, cameraVars>>
      BY <1>1, <2>2 DEF Spawns, Opens
    <3>2. TypeOK'
      BY <3>1
    <3>3. NoOrphan' /\ DrainOwned' /\ TriesLeft'
      BY <3>1
    <3>4. ready["audio"] = "empty"
      BY <3>1
    <3>5. Reports'
      BY <3>1, <3>4
    <3>6. Stages' /\ EncodersLate' /\ ClosedOnlyAfterExit' /\ CapsCoverFrames' /\ FilmedIsMapped'
      BY <3>1
    <3> QED BY <3>2, <3>3, <3>5, <3>6
  <2> QED BY <2>1, <2>2
<1>2. ASSUME NEW k \in Kind, SpawnFails(k) PROVE ServeInv'
  BY <1>2 DEF SpawnFails, Opens, Exits, Dropped
<1>3. ASSUME NEW k \in Kind, OpensSimulated(k) PROVE ServeInv'
  <2>1. CASE k = "video"
    <3>1. /\ worker' = [worker EXCEPT !["camera"] = "running"] /\ owned' = [owned EXCEPT !["video"] = TRUE]
          /\ serve = "start" /\ serve' = "video" /\ format' = "RAWRGB" /\ caps' = {"RAWRGB"}
          /\ worker["camera"] = "absent"
          /\ UNCHANGED <<simulate, exit, stop, ready, errors, encoder, filmed>>
      BY <1>3, <2>1 DEF OpensSimulated, Opens
    <3>2. ready["video"] = "empty"
      BY <3>1
    <3>3. "RAWRGB" \in Mapped /\ Mapped \subseteq WireFormat
      BY FormatAssumption DEF Mapped
    <3>4. TypeOK'
      BY <3>1, <3>3
    <3>5. NoOrphan' /\ DrainOwned' /\ TriesLeft' /\ Reports'
      BY <3>1, <3>2
    <3>6. Stages' /\ EncodersLate' /\ ClosedOnlyAfterExit'
      BY <3>1
    <3>7. CapsCoverFrames' /\ FilmedIsMapped'
      BY <3>1, <3>3
    <3> QED BY <3>4, <3>5, <3>6, <3>7
  <2>2. CASE k = "audio"
    <3>1. /\ worker' = [worker EXCEPT !["drain"] = "running"] /\ owned' = [owned EXCEPT !["audio"] = TRUE]
          /\ serve = "video" /\ owned["video"] /\ serve' = "audio"
          /\ UNCHANGED <<simulate, exit, stop, ready, errors, encoder, cameraVars>>
      BY <1>3, <2>2 DEF OpensSimulated, Opens
    <3>2. worker["stream"] # "opening" /\ worker["camera"] # "opening"
      BY <3>1
    <3>3. TypeOK'
      BY <3>1
    <3>4. NoOrphan'
      BY <3>1
    <3>5. DrainOwned' /\ TriesLeft'
      BY <3>1
    <3>6. Reports'
      BY <3>1, <3>2
    <3>7. Stages' /\ EncodersLate' /\ ClosedOnlyAfterExit' /\ CapsCoverFrames' /\ FilmedIsMapped'
      BY <3>1
    <3> QED BY <3>3, <3>4, <3>5, <3>6, <3>7
  <2> QED BY <2>1, <2>2
<1>4. ASSUME NEW k \in Kind, Opened(k) PROVE ServeInv'
  BY <1>4 DEF Opened
<1>5. ASSUME NEW k \in Kind, OpenFails(k) PROVE ServeInv'
  BY <1>5 DEF OpenFails, Failed, Exits, Dropped
<1>6. CASE HubFails
  BY <1>6 DEF HubFails, Exits, Dropped
<1>7. CASE SpawnsEncoders
  BY <1>7 DEF SpawnsEncoders
<1>8. CASE Binds
  <2>1. CASE serve' = "serving" /\ UNCHANGED <<exit, owned, stop>>
    BY <1>8, <2>1 DEF Binds
  <2>2. CASE Exits("error")
    BY <1>8, <2>2 DEF Binds, Exits, Dropped
  <2> QED BY <1>8, <2>1, <2>2 DEF Binds
<1> QED BY <1>1, <1>2, <1>3, <1>4, <1>5, <1>6, <1>7, <1>8 DEF ServeSteps

\* The end of serve().
LEMMA EndStep == ServeInv /\ (ServerEnds \/ SeesEncoderExit) => ServeInv'
<1> SUFFICES ASSUME ServeInv, ServerEnds \/ SeesEncoderExit PROVE ServeInv'
  OBVIOUS
<1>1. PICK result \in {"ok", "error"} : Exits(result)
  BY DEF ServerEnds, SeesEncoderExit
<1>2. /\ \A k \in Kind : encoder'[k] = IF encoder[k] = "running" THEN "aborted" ELSE encoder[k]
      /\ encoder' \in [Kind -> {"absent", "running", "closed", "failed", "aborted"}]
      /\ UNCHANGED <<simulate, ready, worker, errors, cameraVars>>
  BY DEF ServerEnds, SeesEncoderExit, Aborted, ServeInv, TypeOK
<1>3. /\ serve' = "exited" /\ exit' = result
      /\ \A k \in Kind : stop'[k] = (stop[k] \/ owned[k]) /\ owned'[k] = FALSE
      /\ stop' \in [Kind -> BOOLEAN] /\ owned' \in [Kind -> BOOLEAN]
  BY <1>1 DEF Exits, Dropped, ServeInv, TypeOK
<1>4. serve = "serving"
  BY DEF ServerEnds, SeesEncoderExit
<1>5. TypeOK'
  BY <1>2, <1>3 DEF ServeInv, TypeOK, cameraVars
<1>6. NoOrphan' /\ DrainOwned'
  BY <1>2, <1>3, <1>4, Kinds DEF ServeInv, NoOrphan, DrainOwned, Stages
<1>7. Reports'
  BY <1>2, <1>3, <1>4, Kinds DEF ServeInv, Reports
<1> QED BY <1>2, <1>3, <1>4, <1>5, <1>6, <1>7
        DEF ServeInv, ClosedOnlyAfterExit, Stages, EncodersLate, TriesLeft, CapsCoverFrames, FilmedIsMapped, cameraVars

\* The steps of the threads and tasks.
LEMMA WorkerStep ==
    ASSUME ServeInv, NEW k \in Kind, NEW w \in Worker,
           \/ ThreadReports(k) \/ EncoderCloses(k) \/ EncoderFails(k) \/ WorkerStops(w)
           \/ CameraReads \/ CameraFails
    PROVE  ServeInv'
<1> USE Kinds DEF ServeInv, TypeOK, OpenResult, NoOrphan, ClosedOnlyAfterExit, Stages, Reports, DrainOwned,
                  EncodersLate, TriesLeft, CapsCoverFrames, FilmedIsMapped, cameraVars
<1>1. CASE ThreadReports(k)
  <2>1. CASE k = "video" /\ CameraOpens
    <3>1. PICK accepted \in SUBSET DOMAIN Attempts \ {{}}, listed \in SUBSET WireFormat :
              \E f \in OpenedAs(accepted) : format' = f /\ caps' = Caps(listed, f)
      BY <2>1 DEF CameraOpens
    <3>2. PICK f \in OpenedAs(accepted) : format' = f /\ caps' = Caps(listed, f)
      BY <3>1
    <3>3. f \in WireFormat /\ Caps(listed, f) \in SUBSET WireFormat /\ (f \in Mapped => Caps(listed, f) # {})
      BY <3>2 DEF OpenedAs, Caps, Mapped
    <3>4. /\ worker["camera"] = "opening" /\ worker' = [worker EXCEPT !["camera"] = "running"]
          /\ ready' = [ready EXCEPT !["video"] = "ok"]
          /\ UNCHANGED <<simulate, serve, exit, owned, stop, errors, encoder, filmed>>
      BY <2>1 DEF CameraOpens, ReportsOk
    <3>5. ~filmed
      BY <3>4
    <3> QED BY <3>2, <3>3, <3>4, <3>5
  <2>2. CASE k = "audio" /\ InputOpens
    BY <2>2 DEF InputOpens, ReportsOk
  <2>3. CASE ThreadFails(k)
    BY <2>3 DEF ThreadFails
  <2> QED BY <1>1, <2>1, <2>2, <2>3 DEF ThreadReports
<1>2. CASE EncoderCloses(k)
  BY <1>2 DEF EncoderCloses, Closed
<1>3. CASE EncoderFails(k)
  BY <1>3 DEF EncoderFails
<1>4. CASE WorkerStops(w)
  BY <1>4 DEF WorkerStops
<1>5. CASE CameraReads
  BY <1>5, ErrorsAssumption DEF CameraReads
<1>6. CASE CameraFails
  <2>1. /\ worker["camera"] = "running" /\ errors' = errors + 1 /\ errors < MaxErrors
        /\ UNCHANGED <<simulate, serve, exit, owned, stop, ready, encoder, cameraVars>>
    BY <1>6 DEF CameraFails
  <2>2. errors' \in 0..MaxErrors
    BY <2>1, ErrorsAssumption
  <2>3. CASE errors' >= MaxErrors
    <3>1. worker' = [worker EXCEPT !["camera"] = "over"]
      BY <1>6, <2>3 DEF CameraFails, GivesUp
    <3> QED BY <2>1, <2>2, <3>1
  <2>4. CASE ~(errors' >= MaxErrors)
    <3>1. worker' = worker /\ errors' < MaxErrors
      BY <1>6, <2>2, <2>4, ErrorsAssumption DEF CameraFails, GivesUp
    <3> QED BY <2>1, <2>2, <3>1
  <2> QED BY <2>3, <2>4
<1> QED BY <1>1, <1>2, <1>3, <1>4, <1>5, <1>6

\* The inductive invariant of serve mode.
THEOREM ServeInvariant == Spec => []ServeInv
<1>1. Init => ServeInv
  <2>1. NoFormat \notin Mapped
    BY FormatAssumption DEF Mapped
  <2>2. Init => CapsCoverFrames /\ FilmedIsMapped
    BY <2>1 DEF Init, CapsCoverFrames, FilmedIsMapped
  <2>3. Init => TypeOK
    <3>1. Init => simulate \in BOOLEAN /\ filmed \in BOOLEAN /\ caps \in SUBSET WireFormat
      BY DEF Init
    <3>2. Init => errors \in 0..MaxErrors
      BY ErrorsAssumption DEF Init
    <3> QED BY <3>1, <3>2 DEF Init, TypeOK, OpenResult
  <2>4. Init => NoOrphan /\ ClosedOnlyAfterExit /\ Stages /\ Reports /\ DrainOwned /\ EncodersLate /\ TriesLeft
    BY Kinds, ErrorsAssumption
       DEF Init, NoOrphan, ClosedOnlyAfterExit, Stages, Reports, DrainOwned, EncodersLate, TriesLeft
  <2> QED BY <2>2, <2>3, <2>4 DEF ServeInv
<1>2. ServeInv /\ [Next]_vars => ServeInv'
  <2> SUFFICES ASSUME ServeInv, [Next]_vars PROVE ServeInv'
    OBVIOUS
  <2>1. CASE ServeSteps
    BY <2>1, ServeStep
  <2>2. CASE ServerEnds \/ SeesEncoderExit
    BY <2>2, EndStep
  <2>3. CASE CameraReads \/ CameraFails
    BY <2>3, WorkerStep, Kinds
  <2>4. CASE \E k \in Kind : ThreadReports(k) \/ EncoderCloses(k) \/ EncoderFails(k)
    BY <2>4, WorkerStep, Kinds
  <2>5. CASE \E w \in Worker : WorkerStops(w)
    BY <2>5, WorkerStep, Kinds
  <2>6. CASE Finished \/ UNCHANGED vars
    BY <2>6 DEF Finished, vars, cameraVars, CapsCoverFrames, FilmedIsMapped, ServeInv, TypeOK, NoOrphan, ClosedOnlyAfterExit, Stages,
       Reports, DrainOwned, EncodersLate, TriesLeft
  <2> QED BY <2>1, <2>2, <2>3, <2>4, <2>5, <2>6 DEF Next
<1> QED BY <1>1, <1>2, PTL DEF Spec

\* The variables have their types; the camera's error count stays within its limit.
THEOREM TypeCorrect == Spec => []TypeOK
<1>1. ServeInv => TypeOK
  BY DEF ServeInv
<1> QED BY <1>1, ServeInvariant, PTL

\* No way out of run() leaves a capture worker without an owner or a stop flag set.
THEOREM NoWorkerOrphaned == Spec => []NoOrphan
<1>1. ServeInv => NoOrphan
  BY DEF ServeInv
<1> QED BY <1>1, ServeInvariant, PTL

\* Whatever formats a device lists, speaks or refuses: frames never come from a source
\* that reported no mode.
THEOREM FilmedHasCaps == Spec => []CapsCoverFrames
<1>1. ServeInv => CapsCoverFrames
  BY DEF ServeInv
<1> QED BY <1>1, ServeInvariant, PTL

\* While serve mode runs, no encoder sees its capture channel closed.
THEOREM FanOutsNeverClose == Spec => []ClosedOnlyAfterExit
<1>1. ServeInv => ClosedOnlyAfterExit
  BY DEF ServeInv
<1> QED BY <1>1, ServeInvariant, PTL
=============================================================================
