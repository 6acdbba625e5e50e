----------------------------- MODULE StreamCards -----------------------------
(***************************************************************************)
(* internal/bot/stream.go: the /stream command, the season and episode     *)
(* menus, the start of a stream and the card with its controls, for one    *)
(* guild.  Every handler edits the message of its interaction; the stream  *)
(* it starts edits that message again when it ends (OnClose).  Two picks   *)
(* of one menu share a message, and so do a stream and its successor.      *)
(*                                                                         *)
(* The pool is the session of PoolSession seen from here: a slot, the      *)
(* stream that has it and the order in which a stream leaves it.  Claims   *)
(* that overlap each other are that module's subject and do not happen     *)
(* here; nor does the teardown timeout of Swap.                            *)
(***************************************************************************)
CONSTANTS
    Handlers,   \* handler goroutines; each starts at most one stream, named after it
    Messages

VARIABLES
    pc,         \* pc[h]: where handler h is
    on,         \* on[h]: the message it answers, and later its stream's card
    live,       \* live[h]: it starts a live channel, which has no pause
    face,       \* face[m]: what message m shows
    shows,      \* shows[m]: the handler that wrote it
    slot,       \* "free", "claimed" by a handler or "taken" by a stream
    holder,     \* who has the slot, or had it last
    life,       \* life[h]: the stream h started
    reason,     \* reason[h]: its CloseReason
    session     \* the flags of the pool.Session that matter here

handlerVars == <<pc, on, live>>
cardVars == <<face, shows>>
poolVars == <<slot, holder, life, reason, session>>
vars == <<handlerVars, cardVars, poolVars>>

None == "none"

Faces == {"none", "deferred", "seasons", "episodes", "text", "playing", "paused", "ended"}

TypeOK ==
    /\ pc \in [Handlers -> {"idle", "resolve", "season", "episode", "start", "acquire",
                            "swap", "play", "post"}]
    /\ on \in [Handlers -> Messages \cup {None}]
    /\ live \in [Handlers -> BOOLEAN]
    /\ face \in [Messages -> Faces]
    /\ shows \in [Messages -> Handlers \cup {None}]
    /\ slot \in {"free", "claimed", "taken"}
    /\ holder \in Handlers \cup {None}
    /\ life \in [Handlers -> {"none", "live", "leaving", "over", "released", "closed"}]
    /\ reason \in [Handlers -> {"none", "ended", "error", "stopped", "swapped"}]
    /\ session \in [cut : BOOLEAN, stop : BOOLEAN, swapping : BOOLEAN, paused : BOOLEAN]

Init ==
    /\ pc = [h \in Handlers |-> "idle"]
    /\ on = [h \in Handlers |-> None]
    /\ live = [h \in Handlers |-> FALSE]
    /\ face = [m \in Messages |-> "none"]
    /\ shows = [m \in Messages |-> None]
    /\ slot = "free"
    /\ holder = None
    /\ life = [h \in Handlers |-> "none"]
    /\ reason = [h \in Handlers |-> "none"]
    /\ session = [cut |-> FALSE, stop |-> FALSE, swapping |-> FALSE, paused |-> FALSE]

Goto(h, there) == pc' = [pc EXCEPT ![h] = there]

\* editMessage on the interaction of h.  A text alone leaves the embed and the buttons that
\* the message has.
Edit(h, what) ==
    IF what = "text" /\ face[on[h]] # "deferred" THEN UNCHANGED cardVars
    ELSE /\ face' = [face EXCEPT ![on[h]] = what]
         /\ shows' = [shows EXCEPT ![on[h]] = h]

\* The handler writes its last words and returns.
Answer(h, what) == Goto(h, "idle") /\ Edit(h, what) /\ UNCHANGED <<on, live>>

Respond(m, what) == face' = [face EXCEPT ![m] = what] /\ UNCHANGED shows

-----------------------------------------------------------------------------
(* Commands and menus.                                                     *)

Fresh(h) == pc[h] = "idle" /\ life[h] = "none"

\* /stream: the reply is deferred first; a guild without a worker gets an error text.
HandleStream(h, m) ==
    /\ Fresh(h) /\ face[m] = "none"
    /\ on' = [on EXCEPT ![h] = m]
    /\ shows' = [shows EXCEPT ![m] = h]
    /\ \/ Goto(h, "resolve") /\ face' = [face EXCEPT ![m] = "deferred"]
       \/ face' = [face EXCEPT ![m] = "text"] /\ UNCHANGED pc
    /\ UNCHANGED <<live, poolVars>>

\* A channel or a film starts at once, a show becomes a menu, and anything that cannot be
\* resolved, shared or listed is a text.
Resolve(h) ==
    /\ pc[h] = "resolve"
    /\ \/ \E tv \in BOOLEAN :
             live' = [live EXCEPT ![h] = tv] /\ Goto(h, "start") /\ UNCHANGED <<on, cardVars>>
       \/ \E what \in {"seasons", "episodes", "text"} : Answer(h, what)
    /\ UNCHANGED poolVars

\* A pick in a menu; the interaction is acknowledged without changing the message, so that
\* the menu can be picked from again.
HandleSelect(h, m) ==
    /\ Fresh(h) /\ face[m] \in {"seasons", "episodes"}
    /\ Goto(h, IF face[m] = "seasons" THEN "season" ELSE "episode")
    /\ on' = [on EXCEPT ![h] = m]
    /\ UNCHANGED <<live, cardVars, poolVars>>

SelectSeason(h) ==
    /\ pc[h] = "season"
    /\ \E what \in {"episodes", "text"} : Answer(h, what)
    /\ UNCHANGED poolVars

SelectEpisode(h) ==
    /\ pc[h] = "episode"
    /\ \/ Goto(h, "start") /\ UNCHANGED <<on, live, cardVars>>
       \/ Answer(h, "text")
    /\ UNCHANGED poolVars

-----------------------------------------------------------------------------
(* startStream and startLiveStream.                                        *)

\* The user's voice channel and a source are looked up.
Prepare(h) ==
    /\ pc[h] = "start"
    /\ \/ Goto(h, "acquire") /\ UNCHANGED <<on, live, cardVars>>
       \/ Answer(h, "text")
    /\ UNCHANGED poolVars

\* acquireForPlayback: a free session is taken, a busy one is swapped; without a worker, or
\* when another start has taken the session since, there is an error text.  Two starts that
\* overlap in a swap are left to PoolSession.
AcquireForPlayback(h) ==
    /\ pc[h] = "acquire"
    /\ \/ /\ slot = "free" /\ \A k \in Handlers : pc[k] # "swap"
          /\ slot' = "claimed" /\ holder' = h
          /\ session' = [cut |-> FALSE, stop |-> FALSE, swapping |-> FALSE, paused |-> FALSE]
          /\ Goto(h, "play") /\ UNCHANGED <<on, live, cardVars>>
       \/ /\ slot = "taken" /\ ~session.swapping
          /\ session' = [session EXCEPT !.swapping = TRUE, !.cut = TRUE]
          /\ Goto(h, "swap") /\ UNCHANGED <<on, live, cardVars, slot, holder>>
       \/ Answer(h, "text") /\ UNCHANGED <<slot, holder, session>>
    /\ UNCHANGED <<life, reason>>

\* loopDone of a stream is closed.
LoopDoneAtTeardown(h) == life[h] \in {"leaving", "released", "closed"}

LoopDone(h) == life[h] \in {"released", "closed"}

SwapDone(h) ==
    /\ pc[h] = "swap" /\ LoopDone(holder)
    /\ slot' = "claimed" /\ holder' = h
    /\ session' = [cut |-> FALSE, stop |-> FALSE, swapping |-> FALSE, paused |-> FALSE]
    /\ Goto(h, "play")
    /\ UNCHANGED <<on, live, cardVars, life, reason>>

PlayUnanswered(h) ==
    /\ pc[h] = "play"
    /\ \/ slot' = "taken" /\ life' = [life EXCEPT ![h] = "live"] /\ Goto(h, "post")
       \/ slot' = "free" /\ Goto(h, "idle") /\ UNCHANGED life
    /\ session' = [session EXCEPT !.stop = FALSE]
    /\ UNCHANGED <<on, live, cardVars, holder, reason>>

\* Play or PlayReusing; when voice cannot be joined the session is released.
Play(h) ==
    /\ pc[h] = "play"
    /\ \/ /\ slot' = "taken"
          /\ life' = [life EXCEPT ![h] = "live"]
          /\ Goto(h, "post")
          /\ UNCHANGED <<on, live, cardVars>>
       \/ slot' = "free" /\ Answer(h, "text") /\ UNCHANGED life
    /\ session' = [session EXCEPT !.stop = FALSE]
    /\ UNCHANGED <<holder, reason>>

\* "Now Streaming", with the controls; a live channel fetches its logo before.
Post(h) == pc[h] = "post" /\ Answer(h, "playing") /\ UNCHANGED poolVars

-----------------------------------------------------------------------------
(* The run loop of a stream.                                               *)

Becomes(h, from, to) == life[h] = from /\ life' = [life EXCEPT ![h] = to]

\* The stream is over, and runLoop asks whether it is being swapped.
EndLoop(h) ==
    /\ IF session.swapping
       THEN /\ Becomes(h, "live", "leaving")
            /\ reason' = [reason EXCEPT ![h] = "swapped"]
       ELSE /\ Becomes(h, "live", "over")
            /\ reason' = [reason EXCEPT ![h] = IF session.stop THEN "stopped"
                                               ELSE IF session.cut THEN "error" ELSE "ended"]
    /\ UNCHANGED <<handlerVars, cardVars, slot, holder, session>>

PlaybackFails(h) ==
    /\ ~session.cut
    /\ Becomes(h, "live", "over") /\ ~session.swapping
    /\ reason' = [reason EXCEPT ![h] = "error"]
    /\ UNCHANGED <<handlerVars, cardVars, slot, holder, session>>

\* OnClose of the stream: the card that Stop has already closed is left alone.
OnClose(h) == IF reason[h] = "stopped" THEN UNCHANGED cardVars ELSE Edit(h, "ended")

\* A swapped stream is reported before loopDone is closed.
ReportSwap(h) ==
    /\ Becomes(h, "leaving", "closed")
    /\ OnClose(h)
    /\ UNCHANGED <<handlerVars, slot, holder, reason, session>>

Release(h) ==
    /\ Becomes(h, "over", "released")
    /\ slot' = "free"
    /\ session' = [session EXCEPT !.paused = FALSE, !.stop = FALSE]
    /\ UNCHANGED <<handlerVars, cardVars, holder, reason>>

\* A stream that was not swapped is reported when its session is free again.
ReportEnd(h) ==
    /\ Becomes(h, "released", "closed")
    /\ OnClose(h)
    /\ UNCHANGED <<handlerVars, slot, holder, reason, session>>

-----------------------------------------------------------------------------
(* The controls: buttons of a card act on the guild's session, whichever   *)
(* stream the card was posted for.                                         *)

HasButtons(m) == face[m] \in {"playing", "paused"}

PoolStop == session' = [session EXCEPT !.stop = TRUE, !.paused = FALSE,
                                       !.cut = @ \/ slot = "taken"]

PoolPause(pause) ==
    session' = [session EXCEPT !.paused = IF live[holder] THEN @ ELSE pause]

HandleStopButton(m) ==
    /\ HasButtons(m)
    /\ PoolStop
    /\ Respond(m, "ended")
    /\ UNCHANGED <<handlerVars, slot, holder, life, reason>>

\* The button of a card without a stream closes the card; a live one ignores it.
HandleToggleButton(m) ==
    /\ HasButtons(m)
    /\ \/ slot = "free" /\ Respond(m, "ended") /\ UNCHANGED session
       \/ /\ slot # "free" /\ ~live[holder]
          /\ PoolPause(face[m] = "playing")
          /\ Respond(m, IF face[m] = "playing" THEN "paused" ELSE "playing")
    /\ UNCHANGED <<handlerVars, slot, holder, life, reason>>

\* /stop, /pause and /resume answer with a message of their own.
HandleControl ==
    /\ slot = "taken"
    /\ PoolStop \/ \E pause \in BOOLEAN : PoolPause(pause)
    /\ UNCHANGED <<handlerVars, cardVars, slot, holder, life, reason>>

-----------------------------------------------------------------------------
HandlerStep(h) ==
    \/ Resolve(h) \/ SelectSeason(h) \/ SelectEpisode(h)
    \/ Prepare(h) \/ AcquireForPlayback(h) \/ SwapDone(h) \/ Play(h) \/ Post(h)

LoopStep(h) ==
    \/ (session.cut /\ EndLoop(h))
    \/ ReportSwap(h) \/ Release(h) \/ ReportEnd(h)

Next ==
    \/ \E h \in Handlers :
          \/ \E m \in Messages : HandleStream(h, m) \/ HandleSelect(h, m)
          \/ HandlerStep(h)
          \/ EndLoop(h) \/ PlaybackFails(h) \/ ReportSwap(h) \/ Release(h) \/ ReportEnd(h)
    \/ \E m \in Messages : HandleStopButton(m) \/ HandleToggleButton(m)
    \/ HandleControl

Spec == Init /\ [][Next]_vars

\* Lookups, joins and edits return (their HTTP calls have timeouts), a stream whose context is
\* cancelled ends.
Fairness == \A h \in Handlers : WF_vars(HandlerStep(h)) /\ WF_vars(LoopStep(h))

FairSpec == Spec /\ Fairness

-----------------------------------------------------------------------------
\* "Notify before unblocking Swap so the swapped-in stream's message edit deterministically
\* lands after this one (they may share a message)" (pool.go): when a swapped stream closes its
\* card, the card does not show the controls of another stream that is running.
SwappedInKeepsItsCard ==
    [][\A h, k \in Handlers :
          reason[h] = "swapped" /\ life[h] = "leaving" /\ life'[h] = "closed" /\ k # h
              => ~(on[h] = on[k] /\ shows[on[h]] = k /\ HasButtons(on[h]) /\ life[k] = "live")]_vars

\* A command does not leave its user with "thinking...": whichever way it goes, swap and failed
\* join included, the handler returns and the deferred reply has been edited.
Answered(h) == \E m \in Messages : on[h] = m /\ face[m] # "deferred"
IsAnswered(h) == pc[h] = "resolve" ~> pc[h] = "idle" /\ Answered(h)
CommandIsAnswered == \A h \in Handlers : IsAnswered(h)

==============================================================================
