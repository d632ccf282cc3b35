---------------------------- MODULE CaptureProbe ----------------------------
(***************************************************************************)
(* The capture probe of joy-agentd main.rs: two watchers read the video and *)
(* the audio fan-out until a deadline, and run_probe judges what they saw.  *)
(* With --simulate the sources are the generator tasks of joy-capture       *)
(* simulate.rs, driven by tickers that skip the ticks they missed.          *)
(*                                                                          *)
(* Time is an integer clock that any step may find advanced: a task that    *)
(* was not scheduled in time is late by as much as it likes.                *)
(***************************************************************************)
EXTENDS Integers, Sequences

CONSTANTS
    Period,      \* Period[k]: the ticker period of the generator of kind k
    ChunkFrames, \* AudioConfig::chunk_frames
    Rate,        \* AudioConfig::sample_rate, frames per second
    Nanos,       \* nanoseconds per second
    Wrap,        \* 2^64: the product in simulate.rs is a u64
    Capacity,    \* Capacity[k]: VIDEO_CHANNEL_CAPACITY, AUDIO_CHANNEL_CAPACITY
    Duration,    \* --duration
    Sizes,       \* each <<width, height>> a simulated video source may be opened with
    MaxClock,    \* bound of the model: the clock stops here, and the probe begins in time to end
    MaxItems     \* bound of the model: items a hardware source publishes

Kind == {"video", "audio"}

ASSUME ProbeAssumption ==
    /\ Period \in [Kind -> Nat \ {0}] /\ Capacity \in [Kind -> Nat \ {0}]
    /\ Duration \in 0..MaxClock /\ MaxClock \in Nat /\ MaxItems \in Nat
    /\ Sizes \subseteq (Nat \ {0}) \X (Nat \ {0})

\* A chunk lasts a whole number of nanoseconds, as those of the probe do (960 frames at
\* 48 kHz, AudioConfig::default).
ASSUME ClockAssumption ==
    /\ {ChunkFrames, Rate, Nanos, Wrap} \subseteq Nat \ {0}
    /\ ChunkFrames * Nanos = Period["audio"] * Rate

VARIABLES
    simulate,  \* Options::simulate
    clock,     \* Instant::now()
    begun,     \* begun[k]: when the generator task started its ticker, -1 before
    anchor,    \* synth_loop's anchor, -1 before
    due,       \* due[k]: the ticker's next tick
    sent,      \* sent[k]: number of items published
    kept,      \* kept[k]: stamps of the items the fan-out still holds, oldest first
    from,      \* history: from[k], the position at which the watcher subscribed
    next,      \* next[k]: position of the watcher's receiver
    watch,     \* watch[k]: control state of the watcher
    deadline,  \* the watchers' deadline, -1 before
    stats,     \* stats[k]: StreamStats and the local last_ts, -1 for None
    exit       \* how it ended: "none" | "unopened" | "empty" | "regressed" | "ok"

sourceVars == <<begun, anchor, due, sent, kept>>
watchVars  == <<from, next, watch, deadline, stats>>
vars == <<simulate, clock, sourceVars, watchVars, exit>>

Stats == [count : Nat, lagged : Nat, monotonic : BOOLEAN, last : Int]

Init ==
    /\ simulate \in BOOLEAN
    /\ clock = 0
    /\ begun = [k \in Kind |-> -1] /\ anchor = -1 /\ due = [k \in Kind |-> 0]
    /\ sent = [k \in Kind |-> 0] /\ kept = [k \in Kind |-> <<>>]
    /\ from = [k \in Kind |-> 0] /\ next = [k \in Kind |-> 0]
    /\ watch = [k \in Kind |-> "absent"] /\ deadline = -1
    /\ stats = [k \in Kind |-> [count |-> 0, lagged |-> 0, monotonic |-> TRUE, last |-> -1]]
    /\ exit = "none"

Passes ==
    /\ clock < IF deadline = -1 THEN MaxClock - Duration ELSE MaxClock
    /\ clock' = clock + 1
    /\ UNCHANGED <<simulate, sourceVars, watchVars, exit>>

----------------------------------------------------------------------------
(* The sources and their fan-outs, as long as their watcher looks at them *)

Open == exit = "none"
Seen(k) == Open /\ watch[k] # "done"

\* tx.send: the fan-out keeps the newest Capacity[k] items and drops the oldest.
Publishes(k, stamp) ==
    /\ sent' = [sent EXCEPT ![k] = @ + 1]
    /\ kept' = [kept EXCEPT ![k] =
                  IF Len(@) = Capacity[k] THEN Append(Tail(@), stamp) ELSE Append(@, stamp)]

\* The generator task runs for the first time: the ticker's first tick is due at once.
StartsTicker(k) ==
    /\ Seen(k) /\ simulate /\ begun[k] = -1
    /\ begun' = [begun EXCEPT ![k] = clock]
    /\ due' = [due EXCEPT ![k] = clock]
    /\ UNCHANGED <<simulate, clock, anchor, sent, kept, watchVars, exit>>

\* synth_loop reads the clock once more for the anchor of its stamps. The two statements
\* follow each other, but the thread may lose the processor between them.
Anchors ==
    /\ Seen("audio") /\ begun["audio"] # -1 /\ anchor = -1
    /\ anchor' = clock
    /\ UNCHANGED <<simulate, clock, begun, due, sent, kept, watchVars, exit>>

\* MissedTickBehavior::Skip: the next tick is the first multiple of the period, counted
\* from the start, that is still to come.
WrongNextDue(k) == clock + Period[k]
NextDue(k)      == begun[k] + ((clock - begun[k]) \div Period[k] + 1) * Period[k]

\* frames_emitted * 1_000_000_000 once n chunks are out, before the u64 wraps.
Product(n) == n * (ChunkFrames * Nanos)

\* A video frame is stamped with the clock, an audio chunk with the anchor and the
\* number of frames emitted, the product of which wraps (a release build does not check).
Stamp(k) ==
    IF k = "video" THEN clock
    ELSE anchor + (Product(sent["audio"]) % Wrap) \div Rate

\* ticker.tick() returns, as late as the scheduler likes, and an item is published.
Ticks(k) ==
    /\ Seen(k) /\ simulate /\ begun[k] # -1 /\ (k = "audio" => anchor # -1)
    /\ clock >= due[k]
    /\ due' = [due EXCEPT ![k] = NextDue(k)]
    /\ Publishes(k, Stamp(k))
    /\ UNCHANGED <<simulate, clock, begun, anchor, watchVars, exit>>

\* A camera or microphone publishes whenever it likes, or never (what it published before
\* the watchers subscribed they do not see); the stamps of the microphone may be wrong
\* (see Microphone).
Captures(k) ==
    /\ Seen(k) /\ ~simulate /\ deadline # -1 /\ sent[k] < MaxItems
    /\ \E stamp \in IF k = "video" THEN {clock} ELSE {0, clock} : Publishes(k, stamp)
    /\ UNCHANGED <<simulate, clock, begun, anchor, due, watchVars, exit>>

\* render_pattern: the bright square of a frame, from its left and top edge to its
\* (exclusive) right and bottom edge.
Least(a, b) == IF a < b THEN a ELSE b
AtLeast1(n) == IF n < 1 THEN 1 ELSE n
Side(s) == AtLeast1(Least(s[1], s[2]) \div 8)
WrongStep(s) == Side(s) \div 2
Step(s)      == AtLeast1(Side(s) \div 2)
Offset(extent, s, index) == (index * Step(s)) % AtLeast1(extent - Side(s))
Square(s, index) ==
    LET x == Offset(s[1], s, index)
        y == Offset(s[2], s, index)
    IN  <<x, y, Least(x + Side(s), s[1]), Least(y + Side(s), s[2])>>

----------------------------------------------------------------------------
(* watch_video and watch_audio, joined in one task *)

\* The sources are open (their tasks may not have run yet): both watchers subscribe
\* and fix their deadline.
Subscribes ==
    /\ Open /\ watch = [k \in Kind |-> "absent"]
    /\ watch' = [k \in Kind |-> "waiting"]
    /\ deadline' = clock + Duration
    /\ from' = sent /\ next' = sent
    /\ UNCHANGED <<simulate, clock, sourceVars, stats, exit>>

\* A device does not open (see ServeMode).
OpenFails ==
    /\ Open /\ ~simulate /\ watch = [k \in Kind |-> "absent"]
    /\ clock = 0
    /\ exit' = "unopened"
    /\ UNCHANGED <<simulate, clock, sourceVars, watchVars>>

\* When the wait in hand ends: deadline.checked_duration_since(now) is what remains.
WrongUntil == clock + Duration
Until      == deadline

\* The while condition, evaluated again after each item: the loop ends once the
\* deadline is past.
AfterItem == IF clock <= Until THEN "waiting" ELSE "done"

\* The oldest item the fan-out holds is number Oldest(k), counted from 0.
Oldest(k) == sent[k] - Len(kept[k])
Ready(k)  == watch[k] = "waiting" /\ next[k] < sent[k]

\* rx.recv() returns Lagged(n): the receiver goes on with the oldest item.
WrongLagged(k) == stats[k].lagged + 1
LaggedBy(k)    == stats[k].lagged + (Oldest(k) - next[k])
Lags(k) ==
    /\ Ready(k) /\ next[k] < Oldest(k)
    /\ stats' = [stats EXCEPT ![k].lagged = LaggedBy(k)]
    /\ next' = [next EXCEPT ![k] = Oldest(k)]
    /\ watch' = [watch EXCEPT ![k] = AfterItem]
    /\ UNCHANGED <<simulate, clock, sourceVars, from, deadline, exit>>

\* rx.recv() returns an item: it is counted and its stamp compared with the last one.
Counts(k) ==
    /\ Ready(k) /\ next[k] >= Oldest(k)
    /\ LET stamp == kept[k][next[k] - Oldest(k) + 1]
       IN  stats' = [stats EXCEPT ![k] =
                       [count |-> @.count + 1, lagged |-> @.lagged,
                        monotonic |-> @.monotonic /\ stamp > @.last, last |-> stamp]]
    /\ next' = [next EXCEPT ![k] = @ + 1]
    /\ watch' = [watch EXCEPT ![k] = AfterItem]
    /\ UNCHANGED <<simulate, clock, sourceVars, from, deadline, exit>>

\* timeout() elapses. (Also with an item ready, when the task's budget is spent. The
\* fan-out never closes: run_probe borrows the sources, which hold a sender.)
TimesOut(k) ==
    /\ watch[k] = "waiting" /\ clock >= Until
    /\ watch' = [watch EXCEPT ![k] = "done"]
    /\ UNCHANGED <<simulate, clock, sourceVars, from, next, deadline, stats, exit>>

\* Both watchers returned: the verdict, which decides the exit code.
Verdict ==
    IF \E k \in Kind : stats[k].count = 0 THEN "empty"
    ELSE IF \E k \in Kind : ~stats[k].monotonic THEN "regressed" ELSE "ok"
Judges ==
    /\ Open /\ \A k \in Kind : watch[k] = "done"
    /\ exit' = Verdict
    /\ UNCHANGED <<simulate, clock, sourceVars, watchVars>>

----------------------------------------------------------------------------

Finished == ~Open /\ UNCHANGED vars

WatchSteps(k) == Lags(k) \/ Counts(k) \/ TimesOut(k)
Next ==
    \/ Passes \/ OpenFails \/ Subscribes \/ Judges \/ Finished \/ Anchors
    \/ \E k \in Kind : StartsTicker(k) \/ Ticks(k) \/ Captures(k) \/ WatchSteps(k)

\* Time passes and the main task runs. Nothing is assumed of the sources.
Fairness ==
    /\ WF_vars(Passes) /\ WF_vars(Judges)
    /\ \A k \in Kind : WF_vars(WatchSteps(k))
Spec == Init /\ [][Next]_vars /\ Fairness

----------------------------------------------------------------------------
(* What must hold *)

TypeOK ==
    /\ simulate \in BOOLEAN
    /\ clock \in 0..MaxClock
    /\ begun \in [Kind -> -1..MaxClock] /\ anchor \in -1..MaxClock /\ due \in [Kind -> Nat]
    /\ sent \in [Kind -> Nat]
    /\ kept \in [Kind -> Seq(Nat)] /\ \A k \in Kind : Len(kept[k]) <= Capacity[k]
    /\ from \in [Kind -> Nat] /\ next \in [Kind -> Nat]
    /\ watch \in [Kind -> {"absent", "waiting", "done"}]
    /\ deadline \in -1..MaxClock
    /\ stats \in [Kind -> Stats]
    /\ exit \in {"none", "unopened", "empty", "regressed", "ok"}

\* What a watcher reports adds up: every item published since it subscribed was
\* received, dropped to lag or is still to be read, however far it fell behind.
Reported ==
    \A k \in Kind :
        /\ stats[k].count + stats[k].lagged = next[k] - from[k]
        /\ next[k] <= sent[k]

\* No product has wrapped yet: every chunk published is stamped with its number.
Unwrapped(k) == k = "audio" => Product(sent["audio"] - 1) < Wrap

\* Stamps increase from each item to all later ones, and did for all that were read.
Increasing(k) ==
    /\ stats[k].monotonic
    /\ \A i, j \in 1..Len(kept[k]) : i < j => kept[k][i] < kept[k][j]

\* The verdict on a simulated source is not "timestamps regressed", however late the
\* tickers are and whatever the watchers missed (audio.rs, video.rs; tests/simulate.rs
\* "timestamps must increase strictly"), as long as the product has not wrapped: after
\* some four and a half days at 48 kHz the stamps of the chunks start again.
NeverRegresses == simulate => \A k \in Kind : Unwrapped(k) => Increasing(k)

\* The square of the frame to come is inside the frame, so that no slice is out of range.
SquareFits ==
    \A s \in Sizes :
        LET q == Square(s, sent["video"])
        IN  q[1] < q[3] /\ q[3] <= s[1] /\ q[2] < q[4] /\ q[4] <= s[2]

\* A watcher reads nothing before it subscribed, and a probe begins in time to end.
Subscribed ==
    /\ \A k \in Kind : (watch[k] = "absent") = (deadline = -1)
    /\ deadline = -1 => next = from /\ clock + Duration <= MaxClock

\* A ticker that started did so in the past, ticks at whole periods from there, and has
\* published no more than one item for each period.
Ticked(k) ==
    IF begun[k] = -1 THEN sent[k] = 0 /\ kept[k] = <<>> /\ due[k] = 0
    ELSE /\ begun[k] <= clock
         /\ \E d \in 0..due[k] : due[k] = begun[k] + d * Period[k] /\ sent[k] <= d

\* The anchor is read after the ticker started and before the first chunk.
Anchored ==
    IF anchor = -1 THEN sent["audio"] = 0 /\ kept["audio"] = <<>>
    ELSE begun["audio"] # -1 /\ begun["audio"] <= anchor /\ anchor <= clock

\* The stamp of a simulated chunk is that of its number, whatever was dropped before it.
StampedByNumber ==
    \A i \in 1..Len(kept["audio"]) :
        kept["audio"][i] = anchor + (Oldest("audio") + i - 1) * Period["audio"]

\* The stamps a watcher has yet to read, published or not, are later than its last one.
LastIsBehind(k) ==
    /\ k = "video" => /\ stats[k].last < due[k]
                      /\ \A i \in 1..Len(kept[k]) : kept[k][i] < due[k]
    /\ k = "audio" => IF anchor = -1 THEN stats[k].last = -1
                      ELSE stats[k].last < anchor + next[k] * Period[k]
    /\ \A i \in 1..Len(kept[k]) : Oldest(k) + i > next[k] => stats[k].last < kept[k][i]

Generated ==
    simulate =>
        /\ Anchored /\ \A k \in Kind : Ticked(k)
        /\ Unwrapped("audio") => StampedByNumber
        /\ \A k \in Kind : Unwrapped(k) => LastIsBehind(k)

\* All of it: what watchers, fan-outs and tickers know of each other at every await.
ProbeInv ==
    /\ TypeOK /\ Reported /\ NeverRegresses /\ SquareFits
    /\ Subscribed /\ Generated

\* Until the product wraps, simulated audio stamps advance by exactly one chunk
\* (simulate.rs). That is not "drift-free regardless of scheduling jitter", as time.rs and
\* simulate.rs call them: each tick the scheduler makes the task skip moves the stamps
\* one whole period further behind the clock for good, less the time that went by between
\* the start of the ticker and the reading of the anchor, by which they are ahead.
DriftIsSkips ==
    LET s == kept["audio"]
        p == Period["audio"]
        ahead == anchor - begun["audio"]
        behind == due["audio"] - (s[Len(s)] - ahead)
    IN  simulate /\ Unwrapped("audio") /\ s # <<>> =>
          /\ \A i \in 2..Len(s) : s[i] = s[i - 1] + p
          /\ behind >= p /\ behind % p = 0

\* Consecutive frames always differ (simulate.rs), in every size but those of at most
\* two by two pixels, where there is nowhere to move.
FramesDiffer ==
    [][\A s \in Sizes :
         sent'["video"] # sent["video"] /\ (s[1] > 2 \/ s[2] > 2)
         => Square(s, sent'["video"]) # Square(s, sent["video"])]_vars

\* A probe that began ends, with a verdict, whether its sources are silent, deliver or
\* flood it until long after the deadline.
ProbeEnds == deadline # -1 ~> exit # "none"
=============================================================================
