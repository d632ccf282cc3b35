----------------------------- MODULE ServeMode -----------------------------
(***************************************************************************)
(* Serve mode: joy-agentd serve.rs, which opens the sources, runs an encoder  *)
(* task on each and decides when the agent is over, with the lifecycle of   *)
(* the camera thread and its choice of a format (joy-capture camera.rs), of *)
(* the microphone's stream thread and drain task (microphone.rs), and of    *)
(* the generator tasks that stand in for both with --simulate (simulate.rs).*)
(*                                                                          *)
(* A broadcast channel closes when all its senders are dropped: the one in  *)
(* the source value, which serve() owns, and the one of the worker that     *)
(* publishes.                                                               *)
(***************************************************************************)
EXTENDS Naturals

CONSTANTS
    MaxErrors,   \* MAX_CONSECUTIVE_ERRORS (30 in camera.rs)
    WireFormat,  \* nokhwa's FrameFormats a camera may speak
    NoFormat     \* no camera was opened

ASSUME ErrorsAssumption == MaxErrors \in Nat \ {0}
ASSUME FormatAssumption == NoFormat \notin WireFormat /\ "RAWRGB" \in WireFormat

VARIABLES
    simulate,  \* ServeOptions::simulate
    serve,   \* control state of run() and serve()
    exit,    \* what run() returned: "none" | "ok" | "error"
    owned,   \* owned[k]: the source value of kind k exists
    stop,    \* stop[k]: its stop flag
    ready,   \* ready[k]: the oneshot between its thread and open()
    worker,  \* worker[w]: control state of each capture worker
    errors,  \* consecutive_errors of the camera thread
    encoder, \* encoder[k]: how the encoder task of kind k is doing
    format,  \* the format the camera was opened with
    caps,    \* the formats of the modes that probe_caps reports
    filmed   \* a video frame was published

cameraVars == <<format, caps, filmed>>
vars == <<simulate, serve, exit, owned, stop, ready, worker, errors, encoder, cameraVars>>

Kind   == {"video", "audio"}
Worker == {"camera", "stream", "drain"}

\* The thread open() spawns, the worker that publishes, and the kind a worker is of.
Thread(k)    == IF k = "video" THEN "camera" ELSE "stream"
Publisher(k) == IF k = "video" THEN "camera" ELSE "drain"
KindOf(w)    == IF w = "camera" THEN "video" ELSE "audio"

\* What the thread that opens a device reports; "dropped" when it panicked.
OpenResult == {"ok", "err", "dropped"}

\* The wire formats the pipeline understands; a camera may speak others.
Mapped == WireFormat \cap {"MJPEG", "YUYV", "NV12", "GRAY", "RAWRGB"}

TypeOK ==
    /\ simulate \in BOOLEAN
    /\ format \in WireFormat \cup {NoFormat}
    /\ caps \in SUBSET WireFormat
    /\ filmed \in BOOLEAN
    /\ serve \in {"start", "video", "audio", "binding", "serving", "exited"}
    /\ exit \in {"none", "ok", "error"}
    /\ owned \in [Kind -> BOOLEAN]
    /\ stop \in [Kind -> BOOLEAN]
    /\ ready \in [Kind -> {"empty"} \cup OpenResult]
    /\ worker \in [Worker -> {"absent", "opening", "running", "over"}]
    /\ errors \in 0..MaxErrors
    /\ encoder \in [Kind -> {"absent", "running", "closed", "failed", "aborted"}]

Init ==
    /\ simulate \in BOOLEAN
    /\ format = NoFormat /\ caps = {} /\ filmed = FALSE
    /\ serve = "start" /\ exit = "none"
    /\ owned = [k \in Kind |-> FALSE]
    /\ stop = [k \in Kind |-> FALSE]
    /\ ready = [k \in Kind |-> "empty"]
    /\ worker = [w \in Worker |-> "absent"]
    /\ errors = 0
    /\ encoder = [k \in Kind |-> "absent"]

----------------------------------------------------------------------------
(* open(): a thread opens the device and reports through a oneshot *)

\* run() or serve() returns: the sources it owns are dropped, which sets their flags.
WrongDropped == stop
Dropped      == [k \in Kind |-> stop[k] \/ owned[k]]
Exits(result) ==
    /\ serve' = "exited" /\ exit' = result
    /\ stop' = Dropped
    /\ owned' = [k \in Kind |-> FALSE]

\* The kind of the source run() opens next.
Opens(k) == (k = "video" /\ serve = "start") \/ (k = "audio" /\ serve = "video" /\ owned["video"])

\* std::thread::Builder::spawn, then the wait for the report.
Spawns(k) ==
    /\ Opens(k) /\ ~simulate
    /\ worker[Thread(k)] = "absent"
    /\ worker' = [worker EXCEPT ![Thread(k)] = "opening"]
    /\ serve' = k
    /\ UNCHANGED <<simulate, exit, owned, stop, ready, errors, encoder, cameraVars>>
SpawnFails(k) ==
    /\ Opens(k) /\ ~simulate
    /\ Exits("error")
    /\ UNCHANGED <<simulate, ready, worker, errors, encoder, cameraVars>>

\* With --simulate, open() spawns the generator task and returns: it refuses only a zero
\* in its configuration, and the default one has none. The tasks stand where the
\* publishing workers do; dropping the source aborts them at their next tick.
OpensSimulated(k) ==
    /\ Opens(k) /\ simulate
    /\ worker[Publisher(k)] = "absent"
    /\ serve' = k
    /\ owned' = [owned EXCEPT ![k] = TRUE]
    /\ worker' = [worker EXCEPT ![Publisher(k)] = "running"]
    /\ IF k = "video" THEN format' = "RAWRGB" /\ caps' = {"RAWRGB"}
                      ELSE UNCHANGED <<format, caps>>
    /\ UNCHANGED <<simulate, exit, stop, ready, errors, encoder, filmed>>

\* open_camera: the first of three requests the device accepts decides the format.
Attempts           == <<{"MJPEG"}, {"YUYV"}, WireFormat>>
OpenedAs(accepted) ==
    WireFormat \cap Attempts[CHOOSE i \in accepted : \A j \in accepted : i <= j]

\* probe_caps: of the formats the device lists (none when it cannot be asked) the mapped
\* ones, or else the format it was opened with.
WrongCaps(listed, f) == listed \cap Mapped
Caps(listed, f)      == IF listed \cap Mapped # {} THEN listed \cap Mapped ELSE {f} \cap Mapped

ReportsOk(k) ==
    /\ worker[Thread(k)] = "opening"
    /\ ready' = [ready EXCEPT ![k] = "ok"]
    /\ worker' = [worker EXCEPT ![Thread(k)] = "running"]
    /\ UNCHANGED <<simulate, serve, exit, owned, stop, errors, encoder, filmed>>
\* The camera was opened, its capabilities probed and its stream started.
CameraOpens ==
    /\ ReportsOk("video")
    /\ \E accepted \in SUBSET DOMAIN Attempts \ {{}}, listed \in SUBSET WireFormat :
         \E f \in OpenedAs(accepted) : format' = f /\ caps' = Caps(listed, f)
\* The input device was found, configured and its stream built and started.
InputOpens == ReportsOk("audio") /\ UNCHANGED <<format, caps>>
\* A step of it failed (no permission, no format accepted, no stream), or the thread
\* panicked on the way and dropped its sender.
ThreadFails(k) ==
    /\ worker[Thread(k)] = "opening"
    /\ \E r \in OpenResult \ {"ok"} : ready' = [ready EXCEPT ![k] = r]
    /\ worker' = [worker EXCEPT ![Thread(k)] = "over"]
    /\ UNCHANGED <<simulate, serve, exit, owned, stop, errors, encoder, cameraVars>>
ThreadReports(k) ==
    \/ k = "video" /\ CameraOpens
    \/ k = "audio" /\ InputOpens
    \/ ThreadFails(k)

\* open() returns the source (the microphone's spawns the drain task first), or fails
\* and takes run() with it.
Opened(k) ==
    /\ serve = k /\ ~owned[k] /\ ready[k] = "ok"
    /\ owned' = [owned EXCEPT ![k] = TRUE]
    /\ worker' = IF k = "audio" THEN [worker EXCEPT !["drain"] = "running"] ELSE worker
    /\ UNCHANGED <<simulate, serve, exit, stop, ready, errors, encoder, cameraVars>>
WrongFailed(k) == ready[k] = "err"
Failed(k)      == ready[k] \in {"err", "dropped"}
OpenFails(k) ==
    /\ serve = k /\ Failed(k)
    /\ Exits("error")
    /\ UNCHANGED <<simulate, ready, worker, errors, encoder, cameraVars>>

----------------------------------------------------------------------------
(* serve() *)

\* StreamHub::new fails: no task was spawned yet.
HubFails ==
    /\ serve = "audio" /\ owned["audio"]
    /\ Exits("error")
    /\ UNCHANGED <<simulate, ready, worker, errors, encoder, cameraVars>>

\* The encoder tasks and the accept loop are spawned, then the listener is bound.
SpawnsEncoders ==
    /\ serve = "audio" /\ owned["audio"]
    /\ serve' = "binding"
    /\ encoder' = [k \in Kind |-> "running"]
    /\ UNCHANGED <<simulate, exit, owned, stop, ready, worker, errors, cameraVars>>

\* A bind error returns at once: the spawned tasks are detached, not aborted.
Binds ==
    /\ serve = "binding"
    /\ \/ serve' = "serving" /\ UNCHANGED <<exit, owned, stop>>
       \/ Exits("error")
    /\ UNCHANGED <<simulate, ready, worker, errors, encoder, cameraVars>>

\* The select! of serve(): the server ends (ctrl-c, or an error), or an encoder has.
\* The tasks are aborted, and the sources dropped on return.
Aborted == [k \in Kind |-> IF encoder[k] = "running" THEN "aborted" ELSE encoder[k]]
ServerEnds ==
    /\ serve = "serving"
    /\ Exits("ok") \/ Exits("error")
    /\ encoder' = Aborted
    /\ UNCHANGED <<simulate, ready, worker, errors, cameraVars>>
WrongSelected == {"video"}
Selected      == Kind
SeesEncoderExit ==
    /\ serve = "serving"
    /\ \E k \in Selected : encoder[k] \in {"closed", "failed"}
    /\ Exits("error")
    /\ encoder' = Aborted
    /\ UNCHANGED <<simulate, ready, worker, errors, cameraVars>>

----------------------------------------------------------------------------
(* The encoder tasks (see VideoEncoder) and the capture workers *)

\* rx.recv() returns Closed once every sender of the channel is dropped.
WrongClosed(k) == worker[Publisher(k)] = "over"
Closed(k)      == ~owned[k] /\ worker[Publisher(k)] \in {"absent", "over"}
EncoderCloses(k) ==
    /\ encoder[k] = "running" /\ Closed(k)
    /\ encoder' = [encoder EXCEPT ![k] = "closed"]
    /\ UNCHANGED <<simulate, serve, exit, owned, stop, ready, worker, errors, cameraVars>>
\* An encode or track write error, or a panic.
EncoderFails(k) ==
    /\ encoder[k] = "running"
    /\ encoder' = [encoder EXCEPT ![k] = "failed"]
    /\ UNCHANGED <<simulate, serve, exit, owned, stop, ready, worker, errors, cameraVars>>

\* A worker sees its stop flag at the top of its loop and returns.
WorkerStops(w) ==
    /\ worker[w] = "running" /\ stop[KindOf(w)]
    /\ worker' = [worker EXCEPT ![w] = "over"]
    /\ UNCHANGED <<simulate, serve, exit, owned, stop, ready, errors, encoder, cameraVars>>

\* camera.frame() returns a frame, which is published when its format (the one the
\* camera was opened with) is mapped; or the generator publishes one. (A read that
\* began before the stop flag was set ends after it.)
CameraReads ==
    /\ worker["camera"] = "running"
    /\ errors' = 0
    /\ filmed' = (filmed \/ format \in Mapped)
    /\ UNCHANGED <<simulate, serve, exit, owned, stop, ready, worker, encoder, format, caps>>

\* camera.frame() fails; one failure too many ends the thread.
WrongGivesUp == errors' > MaxErrors
GivesUp      == errors' >= MaxErrors
CameraFails ==
    /\ worker["camera"] = "running" /\ ~simulate
    /\ errors' = errors + 1
    /\ worker' = IF GivesUp THEN [worker EXCEPT !["camera"] = "over"] ELSE worker
    /\ UNCHANGED <<simulate, serve, exit, owned, stop, ready, encoder, cameraVars>>

----------------------------------------------------------------------------

Finished ==
    /\ serve = "exited" /\ \A w \in Worker : worker[w] \in {"absent", "over"}
    /\ UNCHANGED vars

ServeSteps ==
    \/ \E k \in Kind : Spawns(k) \/ SpawnFails(k) \/ OpensSimulated(k) \/ Opened(k) \/ OpenFails(k)
    \/ HubFails \/ SpawnsEncoders \/ Binds

Next ==
    \/ ServeSteps \/ ServerEnds \/ SeesEncoderExit
    \/ \E k \in Kind : ThreadReports(k) \/ EncoderCloses(k) \/ EncoderFails(k)
    \/ \E w \in Worker : WorkerStops(w)
    \/ CameraReads \/ CameraFails \/ Finished

\* Tasks and threads are scheduled; a device open and a frame read return. Nothing is
\* assumed of the server's end, of failures, nor that a camera delivers.
Fairness ==
    /\ WF_vars(ServeSteps) /\ WF_vars(SeesEncoderExit)
    /\ \A k \in Kind : WF_vars(ThreadReports(k)) /\ WF_vars(EncoderCloses(k))
    /\ \A w \in Worker : WF_vars(WorkerStops(w))
Spec == Init /\ [][Next]_vars /\ Fairness

----------------------------------------------------------------------------
(* What must hold *)

\* No capture worker is orphaned: one that runs has an owner that will stop it, or has
\* been told to stop, or open() has its report in hand: whichever of the opens, the
\* hub, the bind or the encoders failed.
NoOrphan ==
    \A w \in Worker :
        worker[w] = "running" =>
            \/ owned[KindOf(w)] \/ stop[KindOf(w)]
            \/ serve = KindOf(w) /\ ready[KindOf(w)] = "ok"

\* "The capture fan-outs never close" in a serve session (serve.rs): the source value
\* that serve() owns holds a sender, so no encoder sees its channel closed before serve
\* mode is over, whatever becomes of the capture workers.
ClosedOnlyAfterExit ==
    \A k \in Kind : encoder[k] = "closed" => serve = "exited"

\* A source that is producing frames never reports zero capabilities (camera.rs,
\* probe_caps), also when the device lists no mapped format or cannot list any.
CapsCoverFrames == filmed => caps # {}

\* The inductive invariant: what run() owns at each of its stages, and what the report
\* of an opening says about its thread.
Stages ==
    /\ serve \in {"start", "exited"} => \A k \in Kind : ~owned[k]
    /\ serve = "video" => ~owned["audio"]
    /\ serve = "audio" => owned["video"]
    /\ serve \in {"binding", "serving"} => \A k \in Kind : owned[k]
Reports ==
    \A k \in Kind :
        /\ worker[Thread(k)] = "opening" => serve = k /\ ready[k] = "empty" /\ ~owned[k]
        /\ worker[Thread(k)] = "absent" => ready[k] = "empty"
        /\ ready[k] \in {"err", "dropped"} => worker[Thread(k)] = "over"
DrainOwned == worker["drain"] = "running" => owned["audio"] \/ stop["audio"]
EncodersLate ==
    \A k \in Kind : encoder[k] # "absent" => serve \in {"binding", "serving", "exited"}
TriesLeft == worker["camera"] # "over" => errors < MaxErrors
FilmedIsMapped ==
    /\ format \in Mapped => caps # {}
    /\ filmed => format \in Mapped
    /\ worker["camera"] \in {"absent", "opening"} => ~filmed
ServeInv ==
    /\ TypeOK /\ NoOrphan /\ ClosedOnlyAfterExit /\ CapsCoverFrames /\ FilmedIsMapped
    /\ Stages /\ Reports /\ DrainOwned /\ EncodersLate /\ TriesLeft

\* The reports through the oneshot always let the opening end, also after a panic.
OpeningEnds ==
    serve \in {"video", "audio", "binding"} ~> serve \in {"serving", "exited"}

\* An encoder that ended takes serve mode down (serve.rs, "a dying encoder ... takes
\* serve mode down").
EncoderDeathIsFatal ==
    \A k \in Kind :
        (serve = "serving" /\ encoder[k] \in {"closed", "failed"}) ~> exit # "none"

\* "a closed capture source takes serve mode down with a nonzero exit" (serve.rs): a
\* camera thread that gave up does.
CameraDeathIsFatal ==
    (serve = "serving" /\ worker["camera"] = "over") ~> serve = "exited"
=============================================================================
