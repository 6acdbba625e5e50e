------------------------------ MODULE AutoNext ------------------------------
(***************************************************************************)
(* Auto-next in one guild: when the credits of an episode begin, the bot   *)
(* looks up the next one, posts a prompt with two buttons and starts the   *)
(* episode after a countdown, or at once when somebody presses Play Now.   *)
(*                                                                         *)
(* b.autoNext holds one autoNextState per guild behind autoNextMu; a       *)
(* generation number tells whether a goroutine still works for the state   *)
(* it was started with.  Every goroutine asks isAutoNextCurrent and then   *)
(* makes calls to Discord, to the resolver and to the pool.  The pool is   *)
(* abstract here: starting a stream replaces the one on air (PoolSession   *)
(* is the detail).                                                         *)
(***************************************************************************)
EXTENDS Integers

CONSTANTS
    MaxStreams,     \* bound: streams started
    MaxPrompts,     \* bound: prompts posted
    MaxClicks       \* bound: presses of Play Now

ASSUME BoundsAssumption ==
    MaxStreams \in Nat /\ MaxPrompts \in Nat /\ MaxClicks \in Nat

Streams == 1..MaxStreams
Prompts == 1..MaxPrompts
\* The countdown of a prompt is its executor 0, each Play Now adds one.
Executors == Prompts \X (0..MaxClicks)

None == 0

VARIABLES
    onAir,          \* the stream that runs, or None
    started,        \* how many streams were started
    watcher,        \* where the monitorPlayback goroutine of each stream is
    current,        \* generation of b.autoNext[guild], or None
    autoNextGen,
    cancelled,      \* the prompts whose countdown context is cancelled
    origin,         \* the stream whose end each prompt announced
    epc,            \* where each executor is
    clicks,
    user            \* what a user's command still has to do: "idle", "start", "stop"

stateVars == <<current, autoNextGen, cancelled, origin>>
vars == <<onAir, started, watcher, stateVars, epc, clicks, user>>

TypeOK ==
    /\ onAir \in 0..MaxStreams /\ started \in 0..MaxStreams
    /\ watcher \in [Streams -> {"watching", "resolving", "posting", "done"}]
    /\ current \in 0..MaxPrompts /\ autoNextGen \in 0..MaxPrompts
    /\ cancelled \subseteq Prompts /\ origin \in [Prompts -> 0..MaxStreams]
    /\ epc \in [Executors -> {"none", "counting", "check", "prepare", "play",
                              "finish", "fail", "done"}]
    /\ clicks \in 0..MaxClicks /\ user \in {"idle", "start", "stop"}

Init ==
    /\ onAir = None /\ started = 0
    /\ watcher = [n \in Streams |-> "watching"]
    /\ current = None /\ autoNextGen = 0 /\ cancelled = {}
    /\ origin = [g \in Prompts |-> None]
    /\ epc = [e \in Executors |-> "none"]
    /\ clicks = 0 /\ user = "idle"

------------------------------------------------------------------------------
(* b.autoNext *)

\* isAutoNextCurrent
IsCurrent(g) == current = g

\* Mutant of ClearAutoNextState: the countdown of the state goes on.
ClearWithoutCancel == current' = None /\ UNCHANGED <<autoNextGen, cancelled, origin>>

\* clearAutoNextState, also cancelPendingAutoNext: whatever state is there.
ClearAutoNextState ==
    /\ current' = None
    /\ cancelled' = IF current = None THEN cancelled ELSE cancelled \cup {current}
    /\ UNCHANGED <<autoNextGen, origin>>

\* setAutoNextState cancels the state it replaces and takes the next generation.
SetAutoNextState(n) ==
    /\ autoNextGen < MaxPrompts
    /\ autoNextGen' = autoNextGen + 1 /\ current' = autoNextGen + 1
    /\ cancelled' = IF current = None THEN cancelled ELSE cancelled \cup {current}
    /\ origin' = [origin EXCEPT ![autoNextGen + 1] = n]

------------------------------------------------------------------------------
(* The near-end callback: handleNearEnd and promptAutoNext *)

\* The monitor of the stream on air sees the credits begin; nothing is pending.
NearEnd(n) ==
    /\ onAir = n /\ watcher[n] = "watching"
    /\ watcher' = [watcher EXCEPT ![n] = IF current = None THEN "resolving" ELSE "done"]
    /\ UNCHANGED <<onAir, started, stateVars, epc, clicks, user>>

\* resolveNextEpisode: there may be none.
ResolveNext(n) ==
    /\ watcher[n] = "resolving"
    /\ watcher' \in {[watcher EXCEPT ![n] = w] : w \in {"posting", "done"}}
    /\ UNCHANGED <<onAir, started, stateVars, epc, clicks, user>>

\* The prompt is posted, the state set and its countdown started.
Prompt(n) ==
    /\ watcher[n] = "posting"
    /\ watcher' = [watcher EXCEPT ![n] = "done"]
    /\ \/ /\ SetAutoNextState(n)
          /\ epc' = [epc EXCEPT ![<<autoNextGen + 1, 0>>] = "counting"]
       \/ UNCHANGED <<stateVars, epc>>
    /\ UNCHANGED <<onAir, started, clicks, user>>

------------------------------------------------------------------------------
(* The executors: autoNextCountdown, tryExecuteAutoNext, executeAutoNextPlay *)

Step(e, from, to) == epc[e] = from /\ epc' = [epc EXCEPT ![e] = to]

\* The timer fires, or the context is done; when both are ready, either is taken.
CountdownEnds(e) ==
    /\ \/ Step(e, "counting", "check")
       \/ e[1] \in cancelled /\ Step(e, "counting", "done")
    /\ UNCHANGED <<onAir, started, watcher, stateVars, clicks, user>>

\* The guild has a worker, so waitForStreamSlot does not wait.
CheckCurrent(e) ==
    /\ \/ IsCurrent(e[1]) /\ Step(e, "check", "prepare")
       \/ ~IsCurrent(e[1]) /\ Step(e, "check", "done")
    /\ UNCHANGED <<onAir, started, watcher, stateVars, clicks, user>>

\* startEpisodeFromAutoNext asks once more, then looks up the channel, the
\* qualities and the URL.
Prepare(e) ==
    /\ \/ IsCurrent(e[1]) /\ \E to \in {"play", "fail"} : Step(e, "prepare", to)
       \/ ~IsCurrent(e[1]) /\ Step(e, "prepare", "done")
    /\ UNCHANGED <<onAir, started, watcher, stateVars, clicks, user>>

\* acquireForPlayback and play.
PlayNext(e) ==
    /\ \/ /\ started < MaxStreams /\ Step(e, "play", "finish")
          /\ started' = started + 1 /\ onAir' = started + 1
       \/ Step(e, "play", "fail") /\ UNCHANGED <<onAir, started>>
    /\ UNCHANGED <<watcher, stateVars, clicks, user>>

\* Mutant of Finish: the state of a prompt that was executed stays.
FinishKeepsState(e) ==
    /\ Step(e, "finish", "done") \/ Step(e, "fail", "done")
    /\ UNCHANGED <<onAir, started, watcher, stateVars, clicks, user>>

\* The prompt is deleted, or failAutoNext disables it; either clears the state.
Finish(e) ==
    /\ Step(e, "finish", "done") \/ Step(e, "fail", "done")
    /\ ClearAutoNextState
    /\ UNCHANGED <<onAir, started, watcher, clicks, user>>

------------------------------------------------------------------------------
(* Users *)

\* The buttons name the guild: a press acts on the state of the moment.
PressPlay ==
    /\ current # None /\ clicks < MaxClicks
    /\ clicks' = clicks + 1 /\ cancelled' = cancelled \cup {current}
    /\ epc' = [epc EXCEPT ![<<current, clicks + 1>>] = "check"]
    /\ UNCHANGED <<onAir, started, watcher, current, autoNextGen, origin, user>>

PressStop ==
    /\ current # None /\ ClearAutoNextState
    /\ UNCHANGED <<onAir, started, watcher, epc, clicks, user>>

\* startStream, startLiveStream and the stop controls cancel auto-next first.
UserBegins(what) ==
    /\ user = "idle" /\ user' = what
    /\ what = "stop" => onAir # None
    /\ what = "start" => started < MaxStreams
    /\ ClearAutoNextState
    /\ UNCHANGED <<onAir, started, watcher, epc, clicks>>

UserStarts ==
    /\ user = "start" /\ user' = "idle"
    /\ \/ started < MaxStreams /\ started' = started + 1 /\ onAir' = started + 1
       \/ UNCHANGED <<onAir, started>>
    /\ UNCHANGED <<watcher, stateVars, epc, clicks>>

UserStops ==
    /\ user = "stop" /\ user' = "idle" /\ onAir' = None
    /\ UNCHANGED <<started, watcher, stateVars, epc, clicks>>

StreamEnds ==
    /\ onAir # None /\ onAir' = None
    /\ UNCHANGED <<started, watcher, stateVars, epc, clicks, user>>

------------------------------------------------------------------------------
Execute(e) ==
    CountdownEnds(e) \/ CheckCurrent(e) \/ Prepare(e) \/ PlayNext(e) \/ Finish(e)

Callback(n) == ResolveNext(n) \/ Prompt(n)

Next ==
    \/ \E n \in Streams : NearEnd(n) \/ Callback(n)
    \/ \E e \in Executors : Execute(e)
    \/ PressPlay \/ PressStop \/ UserStarts \/ UserStops \/ StreamEnds
    \/ \E what \in {"start", "stop"} : UserBegins(what)

\* Goroutines run on, and timers fire.
Fairness ==
    /\ \A n \in Streams : WF_vars(Callback(n))
    /\ \A e \in Executors : WF_vars(Execute(e))
    /\ WF_vars(UserStarts \/ UserStops)

Spec == Init /\ [][Next]_vars
FairSpec == Spec /\ Fairness

------------------------------------------------------------------------------
(* Properties *)

\* A countdown that nobody cancelled belongs to the current state: a prompt that
\* was replaced, stopped or overtaken by a user's stream cannot fire later.
CountdownIsCurrent ==
    \A g \in Prompts : epc[<<g, 0>>] = "counting" /\ g \notin cancelled => current = g

\* Every prompt comes to an end, so that the next episode can be announced:
\* handleNearEnd does nothing while a state is set.
PromptsAreResolved == \A g \in Prompts : current = g ~> current # g

\* Auto-next follows the episode that announced it, or starts in an idle guild:
\* it "is cancelled" when "Another stream is already active."
SparesOtherStreams ==
    [][\A e \in Executors : epc[e] = "play" /\ epc'[e] = "finish"
          => onAir \in {None, origin[e[1]]}]_vars

==============================================================================
