--------------------------- MODULE MessagesProofs ---------------------------
(* Theorems about the messages of the bot that outlive a command, for any number of streams,
   prompts, clicks, handlers and messages: the prompts for the next episode, and the cards
   of streams. *)
EXTENDS MC_Messages, TLAPS

USE BoundsAssumption

------------------------------------------------------------------------------
(* The prompts for the next episode: theorems about Spec of AutoNext. *)

\* Every variable of AutoNext keeps its type.
THEOREM AutoNextTypeCorrect == Spec => []TypeOK
<1> USE DEF TypeOK, Streams, Prompts, None
<1> DEFINE Places == {"none", "counting", "check", "prepare", "play", "finish", "fail", "done"}
<1>1. Init => TypeOK
  BY DEF Init
<1>2. TypeOK /\ [Next]_vars => TypeOK'
  <2> SUFFICES ASSUME TypeOK, [Next]_vars PROVE TypeOK'
    OBVIOUS
  <2> USE DEF stateVars, Step, ClearAutoNextState
  <2>a. \A e \in Executors, p \in Places : [epc EXCEPT ![e] = p] \in [Executors -> Places]
    OBVIOUS
  <2>b. \A g \in Prompts, k \in 0..MaxClicks : <<g, k>> \in Executors
    BY DEF Executors
  <2>1. ASSUME NEW n \in Streams, NearEnd(n) \/ ResolveNext(n) PROVE TypeOK'
    BY <2>1 DEF NearEnd, ResolveNext
  <2>2. ASSUME NEW n \in Streams, Prompt(n) PROVE TypeOK'
    <3>1. CASE SetAutoNextState(n) /\ epc' = [epc EXCEPT ![<<autoNextGen + 1, 0>>] = "counting"]
      <4>1. epc' \in [Executors -> Places]
        BY <3>1, <2>a, <2>b DEF SetAutoNextState
      <4>2. QED
        BY <2>2, <3>1, <4>1 DEF Prompt, SetAutoNextState
    <3>2. CASE UNCHANGED <<stateVars, epc>>
      BY <2>2, <3>2 DEF Prompt
    <3>3. QED
      BY <2>2, <3>1, <3>2 DEF Prompt
  <2>3. ASSUME NEW e \in Executors, CountdownEnds(e) \/ CheckCurrent(e) \/ Prepare(e) PROVE TypeOK'
    <3>1. epc' \in [Executors -> Places]
      BY <2>3, <2>a DEF CountdownEnds, CheckCurrent, Prepare
    <3>2. QED
      BY <2>3, <3>1 DEF CountdownEnds, CheckCurrent, Prepare
  <2>4. ASSUME NEW e \in Executors, PlayNext(e) PROVE TypeOK'
    <3>1. epc' \in [Executors -> Places]
      BY <2>4, <2>a DEF PlayNext
    <3>2. QED
      BY <2>4, <3>1 DEF PlayNext
  <2>5. ASSUME NEW e \in Executors, Finish(e) PROVE TypeOK'
    BY <2>5 DEF Finish
  <2>6. CASE PressPlay
    <3>1. clicks' \in 0..MaxClicks
      BY <2>6 DEF PressPlay
    <3>2. <<current, clicks + 1>> \in Executors
      BY <2>6, <2>b DEF PressPlay
    <3>3. epc' \in [Executors -> Places]
      BY <2>6, <2>a, <3>2 DEF PressPlay
    <3>4. cancelled' \in SUBSET Prompts
      BY <2>6 DEF PressPlay
    <3>5. UNCHANGED <<onAir, started, watcher, current, autoNextGen, origin, user>>
      BY <2>6 DEF PressPlay
    <3>6. QED
      BY <3>1, <3>3, <3>4, <3>5
  <2>7. CASE PressStop \/ UserStarts \/ UserStops \/ StreamEnds
    <3>1. CASE PressStop
      BY <3>1 DEF PressStop
    <3>2. CASE UserStarts
      <4>1. onAir' \in 0..MaxStreams /\ started' \in 0..MaxStreams
        BY <3>2 DEF UserStarts
      <4>2. user' = "idle" /\ UNCHANGED <<watcher, stateVars, epc, clicks>>
        BY <3>2 DEF UserStarts
      <4>3. QED
        BY <4>1, <4>2
    <3>3. CASE UserStops \/ StreamEnds
      <4>1. 0 \in 0..MaxStreams
        OBVIOUS
      <4>2. CASE UserStops
        BY <4>1, <4>2 DEF UserStops
      <4>3. CASE StreamEnds
        BY <4>1, <4>3 DEF StreamEnds
      <4>4. QED
        BY <3>3, <4>2, <4>3
    <3>4. QED
      BY <2>7, <3>1, <3>2, <3>3
  <2>8. ASSUME NEW what \in {"start", "stop"}, UserBegins(what) PROVE TypeOK'
    BY <2>8 DEF UserBegins
  <2>9. CASE UNCHANGED vars
    BY <2>9 DEF vars
  <2>10. QED
    BY <2>1, <2>2, <2>3, <2>4, <2>5, <2>6, <2>7, <2>8, <2>9 DEF Next, Callback, Execute
<1>3. QED
  BY <1>1, <1>2, PTL DEF Spec

\* A countdown that nobody cancelled belongs to the state of the guild: setting
\* and clearing the state both cancel the one that was there.
THEOREM OnlyTheCurrentCounts == Spec => []CountdownIsCurrent
<1> USE DEF CountdownIsCurrent, Prompts, Executors, None
<1>1. Init => CountdownIsCurrent
  BY DEF Init
<1>2. TypeOK /\ CountdownIsCurrent /\ [Next]_vars => CountdownIsCurrent'
  <2> SUFFICES ASSUME TypeOK, CountdownIsCurrent, [Next]_vars,
                      NEW g \in Prompts, epc'[<<g, 0>>] = "counting", g \notin cancelled'
               PROVE  current' = g
    BY DEF CountdownIsCurrent
  <2> USE DEF TypeOK, stateVars, Step, ClearAutoNextState
  <2>1. ASSUME NEW n \in Streams, NearEnd(n) \/ ResolveNext(n) PROVE current' = g
    BY <2>1 DEF NearEnd, ResolveNext
  <2>2. ASSUME NEW n \in Streams, Prompt(n) PROVE current' = g
    BY <2>2 DEF Prompt, SetAutoNextState
  <2>3. ASSUME NEW e \in Executors, CountdownEnds(e) \/ CheckCurrent(e) \/ Prepare(e)
        PROVE current' = g
    <3>1. UNCHANGED <<current, cancelled>>
      BY <2>3 DEF CountdownEnds, CheckCurrent, Prepare
    <3>2. \E to \in {"check", "done", "prepare", "play", "fail"} : epc' = [epc EXCEPT ![e] = to]
      BY <2>3 DEF CountdownEnds, CheckCurrent, Prepare
    <3>3. epc[<<g, 0>>] = "counting"
      BY <3>2
    <3>4. QED
      BY <3>1, <3>3
  <2>4. ASSUME NEW e \in Executors, PlayNext(e) PROVE current' = g
    BY <2>4 DEF PlayNext
  <2>5. ASSUME NEW e \in Executors, Finish(e) PROVE current' = g
    BY <2>5 DEF Finish
  <2>6. CASE PressPlay
    <3>1. <<g, 0>> # <<current, clicks + 1>>
      BY <2>6 DEF PressPlay
    <3>2. epc[<<g, 0>>] = "counting"
      BY <2>6, <3>1 DEF PressPlay
    <3>3. QED
      BY <2>6, <3>2 DEF PressPlay
  <2>7. CASE PressStop \/ UserStarts \/ UserStops \/ StreamEnds
    BY <2>7 DEF PressStop, UserStarts, UserStops, StreamEnds
  <2>8. ASSUME NEW what \in {"start", "stop"}, UserBegins(what) PROVE current' = g
    BY <2>8 DEF UserBegins
  <2>9. CASE UNCHANGED vars
    BY <2>9 DEF vars
  <2>10. QED
    BY <2>1, <2>2, <2>3, <2>4, <2>5, <2>6, <2>7, <2>8, <2>9 DEF Next, Callback, Execute
<1>3. QED
  BY <1>1, <1>2, AutoNextTypeCorrect, PTL DEF Spec

------------------------------------------------------------------------------
(* The cards of streams (StreamCards) *)

\* A step of the sum is a step of the handlers, run loops and controls or leaves them alone.
LEMMA CardSteps == ASSUME [SumNext]_allVars PROVE [C!Next]_C!vars
  BY DEF SumNext, allVars, cVars, C!vars, C!handlerVars, C!cardVars, C!poolVars

CardsTyped ==
    /\ c_pc \in [Handlers -> {"idle", "resolve", "season", "episode", "start", "acquire",
                              "swap", "play", "post"}]
    /\ c_life \in [Handlers -> {"none", "live", "leaving", "over", "released", "closed"}]

\* A stream has the slot of its guild until it has left; a handler that has claimed the slot
\* has no stream yet.
Occupied == {"live", "leaving", "over"}
StreamHasSlot == \A h \in Handlers : c_life[h] \in Occupied => c_slot = "taken" /\ c_holder = h
PlayerHasClaim == \A h \in Handlers : c_pc[h] = "play" => c_slot = "claimed" /\ c_holder = h
StreamIsStartedOnce == \A h \in Handlers : c_pc[h] \notin {"idle", "post"} => c_life[h] = "none"

CardsInv == CardsTyped /\ StreamHasSlot /\ PlayerHasClaim /\ StreamIsStartedOnce

\* Commands, menus and the posting of a card leave the slot alone, and a handler starts only
\* once.
LEMMA HandlerKeepsInv ==
    ASSUME CardsInv, NEW h \in Handlers,
           \/ \E m \in Messages : C!HandleStream(h, m) \/ C!HandleSelect(h, m)
           \/ C!Resolve(h) \/ C!SelectSeason(h) \/ C!SelectEpisode(h)
           \/ C!Prepare(h) \/ C!Post(h)
    PROVE  CardsInv'
<1> USE DEF CardsInv, CardsTyped, StreamHasSlot, PlayerHasClaim, StreamIsStartedOnce,
            Occupied, C!Goto, C!Answer, C!poolVars
<1>1. ASSUME NEW m \in Messages, C!HandleStream(h, m) \/ C!HandleSelect(h, m)
      PROVE  CardsInv'
  BY <1>1 DEF C!HandleStream, C!HandleSelect, C!Fresh
<1>2. CASE C!Resolve(h) BY <1>2 DEF C!Resolve
<1>3. CASE C!SelectSeason(h) \/ C!SelectEpisode(h)
  BY <1>3 DEF C!SelectSeason, C!SelectEpisode
<1>4. CASE C!Prepare(h) BY <1>4 DEF C!Prepare
<1>5. CASE C!Post(h) BY <1>5 DEF C!Post
<1> QED BY <1>1, <1>2, <1>3, <1>4, <1>5

\* The slot is claimed when it is free or when the stream that had it has left, and becomes
\* the stream's whose handler has claimed it.
LEMMA ClaimKeepsInv ==
    ASSUME CardsInv, NEW h \in Handlers,
           C!AcquireForPlayback(h) \/ C!SwapDone(h) \/ C!Play(h)
    PROVE  CardsInv'
<1> USE DEF CardsInv, CardsTyped, StreamHasSlot, PlayerHasClaim, StreamIsStartedOnce,
            Occupied, C!Goto, C!Answer
<1>1. CASE C!AcquireForPlayback(h) BY <1>1 DEF C!AcquireForPlayback
<1>2. CASE C!SwapDone(h) BY <1>2 DEF C!SwapDone, C!LoopDone
<1>3. CASE C!Play(h) BY <1>3 DEF C!Play
<1> QED BY <1>1, <1>2, <1>3

\* The run loop releases the slot as the last thing before it reports, or leaves it to the
\* request that swaps it.
LEMMA LoopKeepsInv ==
    ASSUME CardsInv, NEW h \in Handlers,
           \/ C!EndLoop(h) \/ C!PlaybackFails(h) \/ C!ReportSwap(h)
           \/ C!Release(h) \/ C!ReportEnd(h)
    PROVE  CardsInv'
  BY DEF CardsInv, CardsTyped, StreamHasSlot, PlayerHasClaim, StreamIsStartedOnce, Occupied,
         C!EndLoop, C!PlaybackFails, C!ReportSwap, C!Release, C!ReportEnd, C!Becomes,
         C!handlerVars

\* Every step of the bot keeps the invariant.
LEMMA CardsKeepInv == ASSUME CardsInv, [C!Next]_C!vars PROVE CardsInv'
<1> USE DEF CardsInv, CardsTyped, StreamHasSlot, PlayerHasClaim, StreamIsStartedOnce
<1>1. CASE \/ \E m \in Messages : C!HandleStopButton(m) \/ C!HandleToggleButton(m)
           \/ C!HandleControl
  BY <1>1 DEF C!HandleStopButton, C!HandleToggleButton, C!HandleControl, C!handlerVars
<1>2. CASE UNCHANGED C!vars BY <1>2 DEF C!vars, C!handlerVars, C!poolVars
<1> HIDE DEF CardsInv
<1> QED BY <1>1, <1>2, HandlerKeepsInv, ClaimKeepsInv, LoopKeepsInv DEF C!Next, C!HandlerStep

\* A swapped stream closes its card before its successor runs, so that it never takes the
\* controls of a running stream away, whatever the handlers of a guild do meanwhile
\* (pool.go: "Notify before unblocking Swap").
THEOREM SwappedStreamLeavesTheCard == SumSpec => SwappedInKeepsItsCard
<1>1. SumInit => CardsInv
  BY DEF SumInit, C!Init, CardsInv, CardsTyped, StreamHasSlot, PlayerHasClaim,
         StreamIsStartedOnce, Occupied
<1>2. CardsInv /\ [SumNext]_allVars => CardsInv' BY CardSteps, CardsKeepInv
<1> DEFINE Kept ==
      \A h, k \in Handlers :
         c_reason[h] = "swapped" /\ c_life[h] = "leaving" /\ c_life'[h] = "closed" /\ k # h
            => ~(c_on[h] = c_on[k] /\ c_shows[c_on[h]] = k /\ C!HasButtons(c_on[h])
                    /\ c_life[k] = "live")
<1>3. CardsInv => [Kept]_C!vars BY DEF CardsInv, StreamHasSlot, Occupied
<1> QED BY <1>1, <1>2, <1>3, PTL DEF SumSpec, SwappedInKeepsItsCard, C!SwappedInKeepsItsCard
=============================================================================
