----------------------------- MODULE PoolSession -----------------------------
(***************************************************************************)
(* One guild's pool.Session, shared without a common lock by               *)
(*                                                                         *)
(*   - the goroutines that serve start requests (slash commands, buttons,  *)
(*     the auto-next countdown, the subscription poller).  Each runs       *)
(*     acquireForPlayback, then Play or PlayReusing, then Release when the *)
(*     join failed;                                                        *)
(*   - the run loop of every stream started so far (pool.runLoop);         *)
(*   - the users, who press stop or disconnect the worker from voice.      *)
(*                                                                         *)
(* A program counter moves at every point where the code can lose the      *)
(* processor to another goroutine that touches the same fields: the unlock *)
(* of pool.mu, a channel wait, a network wait, a callback.  Fields that    *)
(* are assigned together with no such point in between change in one step. *)
(*                                                                         *)
(* Stream n is the n-th start request.  Its context, its loopDone channel  *)
(* and its run loop are all named n; 0 is Go's nil.                        *)
(***************************************************************************)
EXTENDS Naturals

CONSTANTS
    Callers,        \* goroutines that serve start requests
    MaxStreams,     \* bound: start requests served in one behaviour
    OverlapStarts,  \* may a request arrive while another is still starting?
    SlowTeardown    \* may a cancelled run loop outlast hotswapTeardownTimeout?

ASSUME MaxStreamsAssumption == MaxStreams \in Nat \ {0}
ASSUME FlagsAssumption == OverlapStarts \in BOOLEAN /\ SlowTeardown \in BOOLEAN

Streams == 1..MaxStreams
Nil == 0
StreamOrNil == Streams \cup {Nil}

Reasons == {"ended", "stopped", "error", "swapped"}

VARIABLES
    \* the fields of pool.Session and of its Streamer
    busy,           \* Session.Busy
    stopRequested,  \* Session.StopRequested
    swapping,       \* Session.swapping
    controller,     \* Session.controller: whose context it cancels
    request,        \* Session.request: whose Request it points to
    loopDone,       \* Session.loopDone: whose channel it holds
    voice,          \* Streamer.VoiceConnection() # nil
    onVoiceLeave,   \* a voice-leave callback is registered
    onAir,          \* whose StreamConnection hangs off the voice connection
    \* what exists outside the session
    cancelled,      \* the streams whose run-loop context is cancelled
    closed,         \* closed[n]: how often stream n's loopDone was closed
    report,         \* report[n]: what OnClose told the bot, "none" before
    \* the goroutines
    started,        \* start requests served so far
    pc,             \* where each caller is
    mine,           \* the stream each caller is starting
    waitOn,         \* the channel a caller waits on in Swap
    loop,           \* where the run loop of each stream is
    result,         \* result[n]: the CloseReason run loop n has computed
    done            \* done[n]: the channel run loop n took from loopDone

session == <<busy, stopRequested, swapping, controller, request, loopDone,
             voice, onVoiceLeave, onAir>>
outside == <<cancelled, closed, report>>
callers == <<started, pc, mine, waitOn>>
loops == <<loop, result, done>>
vars == <<session, outside, callers, loops>>

CallerStates == {"idle", "acquire", "swap", "swapAcquire", "swapCancel",
                 "swapWait", "play", "reuse", "join", "start",
                 "release", "leave", "free"}
LoopStates == {"none", "spawned", "open", "connect", "play", "returned",
               "branch", "teardown", "notifySwapped", "closeSwapped",
               "release", "leave", "free", "close", "notify", "done"}

TypeOK ==
    /\ busy \in BOOLEAN /\ stopRequested \in BOOLEAN /\ swapping \in BOOLEAN
    /\ controller \in StreamOrNil /\ request \in StreamOrNil
    /\ loopDone \in StreamOrNil /\ onAir \in StreamOrNil
    /\ voice \in BOOLEAN /\ onVoiceLeave \in BOOLEAN
    /\ cancelled \in SUBSET Streams
    /\ closed \in [Streams -> Nat]
    /\ report \in [Streams -> Reasons \cup {"none"}]
    /\ started \in 0..MaxStreams
    /\ pc \in [Callers -> CallerStates]
    /\ mine \in [Callers -> StreamOrNil]
    /\ waitOn \in [Callers -> StreamOrNil]
    /\ loop \in [Streams -> LoopStates]
    /\ result \in [Streams -> Reasons \cup {"none"}]
    /\ done \in [Streams -> StreamOrNil]

Init ==
    /\ busy = FALSE /\ stopRequested = FALSE /\ swapping = FALSE
    /\ controller = Nil /\ request = Nil /\ loopDone = Nil /\ onAir = Nil
    /\ voice = FALSE /\ onVoiceLeave = FALSE
    /\ cancelled = {}
    /\ closed = [n \in Streams |-> 0]
    /\ report = [n \in Streams |-> "none"]
    /\ started = 0
    /\ pc = [c \in Callers |-> "idle"]
    /\ mine = [c \in Callers |-> Nil]
    /\ waitOn = [c \in Callers |-> Nil]
    /\ loop = [n \in Streams |-> "none"]
    /\ result = [n \in Streams |-> "none"]
    /\ done = [n \in Streams |-> Nil]

------------------------------------------------------------------------------
(* Helpers *)

Goto(c, from, to) == pc[c] = from /\ pc' = [pc EXCEPT ![c] = to]

Step(n, from, to) == loop[n] = from /\ loop' = [loop EXCEPT ![n] = to]

\* The body of a context.CancelFunc field: nil is not called.
Cancel(n) == cancelled' = IF n = Nil THEN cancelled ELSE cancelled \cup {n}

\* The interval in which a second request would overlap the first: from its
\* arrival until the run loop it started has registered its controller.
Starting == \/ \E c \in Callers : pc[c] # "idle"
            \/ \E n \in Streams : loop[n] = "spawned"

\* Release, split at the two calls that take long enough to be overtaken.
ReleaseFields ==
    /\ Cancel(controller)
    /\ controller' = Nil
    /\ request' = Nil
    /\ UNCHANGED <<busy, stopRequested, swapping, loopDone, voice,
                   onVoiceLeave, onAir, closed, report>>

ReleaseVoice ==
    /\ onVoiceLeave' = FALSE
    /\ voice' = FALSE
    /\ onAir' = Nil
    /\ UNCHANGED <<busy, stopRequested, swapping, controller, request,
                   loopDone, outside>>

ReleaseSlot ==
    /\ busy' = FALSE
    /\ stopRequested' = FALSE
    /\ UNCHANGED <<swapping, controller, request, loopDone, voice,
                   onVoiceLeave, onAir, outside>>

------------------------------------------------------------------------------
(* Start requests: acquireForPlayback, Acquire, Swap, Play, PlayReusing *)

\* acquireForPlayback decides on ActiveInGuild, which unlocks pool.mu before
\* Acquire or Swap takes it again.
Begin(c) ==
    /\ started < MaxStreams
    /\ OverlapStarts \/ ~Starting
    /\ started' = started + 1
    /\ mine' = [mine EXCEPT ![c] = started + 1]
    /\ Goto(c, "idle", IF busy THEN "swap" ELSE "acquire")
    /\ UNCHANGED <<session, outside, loops, waitOn>>

\* Acquire, called directly or by a Swap that found the session free: a second
\* look at Busy, under the lock.  ErrWorkerBusy ends the request.
Acquire(c, from, to) ==
    /\ \/ /\ busy
          /\ Goto(c, from, "idle")
          /\ mine' = [mine EXCEPT ![c] = Nil]
          /\ UNCHANGED <<busy, stopRequested>>
       \/ /\ ~busy
          /\ Goto(c, from, to)
          /\ busy' = TRUE /\ stopRequested' = FALSE
          /\ UNCHANGED mine
    /\ UNCHANGED <<swapping, controller, request, loopDone, voice,
                   onVoiceLeave, onAir, outside, started, waitOn, loops>>

\* Swap up to its unlock.
SwapLock(c) ==
    /\ \/ ~busy /\ Goto(c, "swap", "swapAcquire") /\ UNCHANGED <<swapping, waitOn>>
       \/ /\ busy /\ Goto(c, "swap", "swapCancel")
          /\ swapping' = TRUE
          /\ waitOn' = [waitOn EXCEPT ![c] = loopDone]
    /\ UNCHANGED <<busy, stopRequested, controller, request, loopDone, voice,
                   onVoiceLeave, onAir, outside, started, mine, loops>>

\* session.controller(), read without the lock.
SwapCancel(c) ==
    /\ Goto(c, "swapCancel", "swapWait")
    /\ Cancel(controller)
    /\ UNCHANGED <<session, closed, report, started, mine, waitOn, loops>>

\* <-done, which a nil loopDone does not wait for.
SwapDone(c) == waitOn[c] # Nil => closed[waitOn[c]] > 0

\* Mutant: the select in Swap has no timeout case.
NoSwapTimeout(c) == FALSE

\* hotswapTeardownTimeout.  A goroutine that can run is scheduled before it.  A
\* run loop that was told to stop outlasts it only where SlowTeardown says so;
\* one that never was told always may.
SwapTimeout(c) ==
    /\ ~SwapDone(c) /\ loop[waitOn[c]] # "spawned"
    /\ SlowTeardown \/ waitOn[c] \notin cancelled

\* Mutant: Swap re-arms without waiting for loopDone.
RearmAtOnce(c) ==
    /\ Goto(c, "swapWait", "reuse")
    /\ waitOn' = [waitOn EXCEPT ![c] = Nil]
    /\ busy' = TRUE /\ stopRequested' = FALSE /\ swapping' = FALSE
    /\ UNCHANGED <<controller, request, loopDone, voice, onVoiceLeave, onAir,
                   outside, started, mine, loops>>

\* Mutant: rearmForSwap forgets swapping = false.
RearmKeepsSwapping(c) ==
    /\ Goto(c, "swapWait", "reuse")
    /\ SwapDone(c) \/ SwapTimeout(c)
    /\ waitOn' = [waitOn EXCEPT ![c] = Nil]
    /\ busy' = TRUE /\ stopRequested' = FALSE
    /\ UNCHANGED <<swapping, controller, request, loopDone, voice, onVoiceLeave,
                   onAir, outside, started, mine, loops>>

\* The wait of Swap ends, and rearmForSwap takes the session over.
Rearm(c) ==
    /\ Goto(c, "swapWait", "reuse")
    /\ SwapDone(c) \/ SwapTimeout(c)
    /\ waitOn' = [waitOn EXCEPT ![c] = Nil]
    /\ busy' = TRUE /\ stopRequested' = FALSE /\ swapping' = FALSE
    /\ UNCHANGED <<controller, request, loopDone, voice, onVoiceLeave, onAir,
                   outside, started, mine, loops>>

\* Play up to the wait in JoinVoice, which has already published a new
\* VoiceConnection.
Play(c) ==
    /\ \/ Goto(c, "play", "join")
       \/ ~voice /\ Goto(c, "reuse", "join")
    /\ stopRequested' = FALSE
    /\ request' = mine[c]
    /\ voice' = TRUE
    /\ onAir' = Nil
    /\ UNCHANGED <<busy, swapping, controller, loopDone, onVoiceLeave, outside,
                   started, mine, waitOn, loops>>

\* Mutant: PlayReusing forgets session.request.
PlayReusingKeepsRequest(c) ==
    /\ voice
    /\ Goto(c, "reuse", "start")
    /\ stopRequested' = FALSE
    /\ UNCHANGED <<busy, swapping, controller, request, loopDone, voice,
                   onVoiceLeave, onAir, outside, started, mine, waitOn, loops>>

\* PlayReusing on a session that still has its VoiceConnection.
PlayReusing(c) ==
    /\ voice
    /\ Goto(c, "reuse", "start")
    /\ stopRequested' = FALSE
    /\ request' = mine[c]
    /\ UNCHANGED <<busy, swapping, controller, loopDone, voice, onVoiceLeave,
                   onAir, outside, started, mine, waitOn, loops>>

\* JoinVoice returns: the gateway was ready, or voiceJoinTimeout passed and the
\* bot releases the session.
JoinVoice(c) ==
    /\ Goto(c, "join", "start") \/ Goto(c, "join", "release")
    /\ UNCHANGED <<session, outside, started, mine, waitOn, loops>>

\* Mutant: the channel of the previous stream is used again.
StartLoopOldChannel(c) ==
    /\ Goto(c, "start", "idle")
    /\ onVoiceLeave' = TRUE
    /\ loopDone' = IF loopDone = Nil THEN mine[c] ELSE loopDone
    /\ Step(mine[c], "none", "spawned")
    /\ mine' = [mine EXCEPT ![c] = Nil]
    /\ UNCHANGED <<busy, stopRequested, swapping, controller, request, voice,
                   onAir, outside, started, waitOn, result, done>>

\* The tail of Play and PlayReusing: callback, OnPrepare, loopDone, go runLoop.
StartLoop(c) ==
    /\ Goto(c, "start", "idle")
    /\ onVoiceLeave' = TRUE
    /\ loopDone' = mine[c]
    /\ Step(mine[c], "none", "spawned")
    /\ mine' = [mine EXCEPT ![c] = Nil]
    /\ UNCHANGED <<busy, stopRequested, swapping, controller, request, voice,
                   onAir, outside, started, waitOn, result, done>>

\* Pool.Release called by the bot after a failed join.
CallerRelease(c) ==
    /\ \/ Goto(c, "release", "leave") /\ ReleaseFields /\ UNCHANGED mine
       \/ Goto(c, "leave", "free") /\ ReleaseVoice /\ UNCHANGED mine
       \/ /\ Goto(c, "free", "idle") /\ ReleaseSlot
          /\ mine' = [mine EXCEPT ![c] = Nil]
    /\ UNCHANGED <<started, waitOn, loops>>

CallerStep(c) ==
    \/ Acquire(c, "acquire", "play") \/ Acquire(c, "swapAcquire", "reuse")
    \/ SwapLock(c) \/ SwapCancel(c) \/ Rearm(c)
    \/ Play(c) \/ PlayReusing(c) \/ JoinVoice(c) \/ StartLoop(c)
    \/ CallerRelease(c)

------------------------------------------------------------------------------
(* The run loop of stream n *)

\* The goroutine is scheduled; it reads loopDone only now.
LoopEnter(n) ==
    /\ Step(n, "spawned", "open")
    /\ controller' = n
    /\ done' = [done EXCEPT ![n] = loopDone]
    /\ UNCHANGED <<busy, stopRequested, swapping, request, loopDone, voice,
                   onVoiceLeave, onAir, outside, callers, result>>

\* OpenPlayback: without a voice connection it fails at once, otherwise
\* CreateStream hangs a new StreamConnection off it and waits for its peer.
OpenPlayback(n) ==
    /\ \/ voice /\ Step(n, "open", "connect") /\ onAir' = n /\ UNCHANGED result
       \/ /\ ~voice /\ Step(n, "open", "returned") /\ UNCHANGED onAir
          /\ result' = [result EXCEPT ![n] = "error"]
    /\ UNCHANGED <<busy, stopRequested, swapping, controller, request, loopDone,
                   voice, onVoiceLeave, outside, callers, done>>

\* The StreamConnection is ready, CreateStream fails (cancelled or timed out;
\* the connection stays attached), or resolvePeer fails (StopStream).
StreamReady(n) ==
    /\ \/ n \notin cancelled /\ Step(n, "connect", "play") /\ UNCHANGED <<onAir, result>>
       \/ /\ Step(n, "connect", "returned")
          /\ result' = [result EXCEPT ![n] = "error"]
          /\ onAir' \in {onAir, Nil}
    /\ UNCHANGED <<busy, stopRequested, swapping, controller, request, loopDone,
                   voice, onVoiceLeave, outside, callers, done>>

\* stream() returns through playback.Close, which stops whatever connection
\* is attached.  A cancelled context comes back as an error.
StreamReturns(n) ==
    /\ Step(n, "play", "returned")
    /\ onAir' = Nil
    /\ \E r \in {"ended", "error"} :
          /\ n \in cancelled => r = "error"
          /\ result' = [result EXCEPT ![n] = r]
    /\ UNCHANGED <<busy, stopRequested, swapping, controller, request, loopDone,
                   voice, onVoiceLeave, outside, callers, done>>

\* The reason is computed from StopRequested, and the context cancelled.
ComputeReason(n) ==
    /\ Step(n, "returned", "branch")
    /\ result' = [result EXCEPT ![n] = IF stopRequested THEN "stopped" ELSE @]
    /\ Cancel(n)
    /\ UNCHANGED <<session, closed, report, callers, done>>

\* session.swapping, read under pool.mu.
BranchOnSwapping(n) ==
    /\ Step(n, "branch", IF swapping THEN "teardown" ELSE "release")
    /\ UNCHANGED <<session, outside, callers, result, done>>

\* Mutant: the swap branch leaves the voice channel like Release.
TeardownLeavesVoice(n) ==
    /\ Step(n, "teardown", "notifySwapped")
    /\ controller' = Nil
    /\ voice' = FALSE /\ onAir' = Nil
    /\ UNCHANGED <<busy, stopRequested, swapping, request, loopDone,
                   onVoiceLeave, outside, callers, result, done>>

TeardownForSwap(n) ==
    /\ Step(n, "teardown", "notifySwapped")
    /\ controller' = Nil
    /\ UNCHANGED <<busy, stopRequested, swapping, request, loopDone, voice,
                   onVoiceLeave, onAir, outside, callers, result, done>>

\* Mutant: the swap branch passes the computed reason instead of CloseSwapped.
OnCloseWithReason(n) ==
    /\ Step(n, "notifySwapped", "closeSwapped") \/ Step(n, "notify", "done")
    /\ report' = [report EXCEPT ![n] = result[n]]
    /\ UNCHANGED <<session, cancelled, closed, callers, result, done>>

\* Mutant: OnClose is skipped for a stopped stream.
OnCloseUnlessStopped(n) ==
    /\ \/ /\ Step(n, "notifySwapped", "closeSwapped")
          /\ report' = [report EXCEPT ![n] = "swapped"]
       \/ /\ Step(n, "notify", "done")
          /\ report' = [report EXCEPT ![n] = IF result[n] = "stopped" THEN @ ELSE result[n]]
    /\ UNCHANGED <<session, cancelled, closed, callers, result, done>>

\* OnClose, before or after close(done) depending on the branch.
OnClose(n) ==
    /\ \/ /\ Step(n, "notifySwapped", "closeSwapped")
          /\ report' = [report EXCEPT ![n] = "swapped"]
       \/ /\ Step(n, "notify", "done")
          /\ report' = [report EXCEPT ![n] = result[n]]
    /\ UNCHANGED <<session, cancelled, closed, callers, result, done>>

CloseDone(n) ==
    /\ Step(n, "closeSwapped", "done") \/ Step(n, "close", "notify")
    /\ closed' = IF done[n] = Nil THEN closed ELSE [closed EXCEPT ![done[n]] = @ + 1]
    /\ UNCHANGED <<session, cancelled, report, callers, result, done>>

LoopRelease(n) ==
    /\ \/ Step(n, "release", "leave") /\ ReleaseFields
       \/ Step(n, "leave", "free") /\ ReleaseVoice
       \/ Step(n, "free", "close") /\ ReleaseSlot
    /\ UNCHANGED <<callers, result, done>>

\* Everything a run loop does on its own; the end of the media is apart.
LoopStep(n) ==
    \/ LoopEnter(n) \/ OpenPlayback(n) \/ StreamReady(n) \/ ComputeReason(n)
    \/ BranchOnSwapping(n) \/ TeardownForSwap(n) \/ OnClose(n) \/ CloseDone(n)
    \/ LoopRelease(n)

------------------------------------------------------------------------------
(* The users *)

\* The stop command needs an active session, the stop button only a session.
Stop ==
    /\ stopRequested' = TRUE
    /\ Cancel(controller)
    /\ UNCHANGED <<busy, swapping, controller, request, loopDone, voice,
                   onVoiceLeave, onAir, closed, report, callers, loops>>

\* A voice state without a channel arrives: the callback of Play runs.  The
\* VoiceConnection itself stays.
VoiceLeft ==
    /\ voice /\ onVoiceLeave /\ busy
    /\ Cancel(controller)
    /\ UNCHANGED <<session, closed, report, callers, loops>>

------------------------------------------------------------------------------
Next ==
    \/ \E c \in Callers : Begin(c) \/ CallerStep(c)
    \/ \E n \in Streams : LoopStep(n) \/ StreamReturns(n)
    \/ Stop
    \/ VoiceLeft

\* Goroutines are scheduled and their network waits are bounded by timeouts.
\* The media is not: a stream nobody cancels may play for ever, and users are
\* free to do nothing.
Fairness ==
    /\ \A c \in Callers : WF_vars(CallerStep(c))
    /\ \A n \in Streams : WF_vars(LoopStep(n))
                         /\ WF_vars(n \in cancelled /\ StreamReturns(n))

Spec == Init /\ [][Next]_vars
FairSpec == Spec /\ Fairness

------------------------------------------------------------------------------
(* Properties *)

\* A run loop that may still assign to the session or use its voice
\* connection: from `go p.runLoop` to the last assignment of teardownForSwap
\* or Release.
Alive == {"spawned", "open", "connect", "play", "returned", "branch",
          "teardown", "release", "leave", "free"}
AliveLoops == {n \in Streams : loop[n] \in Alive}

\* A caller that has reserved the session and not yet handed it to a run loop
\* or released it.
Holding == {"swapCancel", "swapWait", "reuse", "play", "join", "start",
            "release", "leave", "free"}

\* What the rest of the bot sees of stream n.
Status(n) ==
    IF loop[n] = "none" THEN "new"
    ELSE IF loop[n] \in Alive THEN "live"
    ELSE IF loop[n] = "notifySwapped" THEN "handed"
    ELSE IF loop[n] \in {"close", "notify"} THEN "freed"
    ELSE report[n]

Slot == INSTANCE StreamSlot WITH held <- busy, status <- [n \in Streams |-> Status(n)]

\* The session keeps the promise of StreamSlot.
ImplementsSlot == Slot!Spec

\* Two streams never share a session: Swap, Release and the natural end hand
\* it over so that the next run loop starts after the last one let go.
OneRunLoop == \A m, n \in AliveLoops : m = n

\* The stream on air is the one the rest of the bot sees: its session is Busy,
\* Session.request, controller and the StreamConnection are its own, so stop,
\* seek and the voice-leave callback reach it and nobody else's teardown did.
PlayingOwnsSession ==
    \A n \in Streams : loop[n] = "play" =>
        /\ busy /\ voice
        /\ request = n /\ controller = n /\ loopDone = n /\ onAir = n

\* A request that swaps comes out of Swap with the voice connection in place
\* exactly when the stream it replaced was torn down as swapped; a stream
\* that ended on its own while Swap waited took the connection with it.
SwapKeepsVoice ==
    \A c \in Callers : pc[c] = "reuse" /\ busy =>
        (voice <=> request # Nil /\ report[request] = "swapped")

\* A Busy session always has somebody who will release it or hand it on, so no
\* guild is locked out by a slot nobody owns, however requests, stops and
\* timeouts interleave.
NoLeakedSlot ==
    busy => \/ \E c \in Callers : pc[c] \in Holding
            \/ \E n \in AliveLoops : loop[n] # "teardown"

\* close(done) runs once per channel; a second close would panic the bot.
ClosedOnce == \A n \in Streams : closed[n] <= 1

\* Streams follow each other on a session one at a time: one run loop, which owns the
\* session while it plays, and whose channel is closed once.
SessionIsExclusive == OneRunLoop /\ PlayingOwnsSession /\ ClosedOnce

\* Swap never blocks its request for good, even behind a run loop that hangs.
SwapReturnsTo(c) == pc[c] \in {"swapCancel", "swapWait"} ~> pc[c] = "reuse"

\* A stop that finds the run loop's controller ends the stream and its card.
StopEndsStream ==
    \A n \in Streams :
        (stopRequested /\ controller = n /\ n \in cancelled) ~> report[n] # "none"

------------------------------------------------------------------------------
(* What comments and messages of the code promise and the code does not keep. *)

\* "Swap tears down the active stream in the guild without leaving voice":
\* when it returns, no run loop is at work on the session.
SwapTearsDown == \A c \in Callers : pc[c] = "reuse" => AliveLoops = {}

\* "Playback has been stopped.": a stream whose stop was accepted is not on
\* air with nobody about to cancel it.
StoppedIsStopped ==
    \A n \in Streams : stopRequested /\ loop[n] = "play" => n \in cancelled

==============================================================================
