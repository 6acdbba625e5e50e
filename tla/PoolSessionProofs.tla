-------------------------- MODULE PoolSessionProofs --------------------------
(***************************************************************************)
(* Theorems about PoolSession, for any set of callers and any bound on the *)
(* number of streams.                                                      *)
(*                                                                         *)
(* The first part needs no assumption on the schedule: type correctness    *)
(* and NoLeakedSlot.  The second part is about requests that do not        *)
(* overlap and teardowns that meet their timeout (Ordered), where the      *)
(* session is handed over properly: OneRunLoop, PlayingOwnsSession,        *)
(* ClosedOnce and the refinement of StreamSlot.                            *)
(***************************************************************************)
EXTENDS PoolSession, TLAPS

USE MaxStreamsAssumption, FlagsAssumption

\* The initial state is well typed.
LEMMA TypeCorrectInit == Init => TypeOK
<1> USE DEF TypeOK, StreamOrNil, Reasons, CallerStates, LoopStates
<1> SUFFICES ASSUME Init PROVE TypeOK
  OBVIOUS
<1>1. /\ closed \in [Streams -> Nat]
      /\ report \in [Streams -> Reasons \cup {"none"}]
      /\ result \in [Streams -> Reasons \cup {"none"}]
      /\ started \in 0..MaxStreams
  BY DEF Init
<1>2. /\ pc \in [Callers -> CallerStates]
      /\ mine \in [Callers -> StreamOrNil]
      /\ waitOn \in [Callers -> StreamOrNil]
  BY DEF Init
<1>3. /\ loop \in [Streams -> LoopStates]
      /\ done \in [Streams -> StreamOrNil]
  BY DEF Init
<1>4. QED
  BY <1>1, <1>2, <1>3 DEF Init

\* Every variable of PoolSession keeps its type.
THEOREM TypeCorrect == Spec => []TypeOK
<1> USE DEF TypeOK, StreamOrNil, Reasons, CallerStates, LoopStates
<1>1. Init => TypeOK
  BY TypeCorrectInit
<1>2. TypeOK /\ [Next]_vars => TypeOK'
  <2> SUFFICES ASSUME TypeOK, [Next]_vars PROVE TypeOK'
    OBVIOUS
  <2>1. ASSUME NEW c \in Callers, Begin(c) PROVE TypeOK'
    BY <2>1 DEF Begin, Goto, Streams, session, outside, loops
  <2>2. ASSUME NEW c \in Callers, Acquire(c, "acquire", "play") \/ Acquire(c, "swapAcquire", "reuse")
        PROVE TypeOK'
    BY <2>2 DEF Acquire, Goto, outside, loops
  <2>3. ASSUME NEW c \in Callers, SwapLock(c) PROVE TypeOK'
    BY <2>3 DEF SwapLock, Goto, outside, loops
  <2>4. ASSUME NEW c \in Callers, SwapCancel(c) PROVE TypeOK'
    BY <2>4 DEF SwapCancel, Goto, Cancel, session, loops
  <2>5. ASSUME NEW c \in Callers, Rearm(c) PROVE TypeOK'
    BY <2>5 DEF Rearm, Goto, outside, loops
  <2>6. ASSUME NEW c \in Callers, Play(c) \/ PlayReusing(c) \/ JoinVoice(c) PROVE TypeOK'
    BY <2>6 DEF Play, PlayReusing, JoinVoice, Goto, session, outside, loops
  <2>7. ASSUME NEW c \in Callers, StartLoop(c) PROVE TypeOK'
    BY <2>7 DEF StartLoop, Goto, Step, outside
  <2>8. ASSUME NEW c \in Callers, CallerRelease(c) PROVE TypeOK'
    BY <2>8 DEF CallerRelease, Goto, ReleaseFields, ReleaseVoice, ReleaseSlot, Cancel, outside, loops
  <2>9. ASSUME NEW n \in Streams, LoopStep(n) \/ StreamReturns(n) PROVE TypeOK'
    <3>1. CASE LoopEnter(n) \/ OpenPlayback(n) \/ StreamReady(n) \/ StreamReturns(n)
      BY <3>1 DEF LoopEnter, OpenPlayback, StreamReady, StreamReturns, Step, outside, callers
    <3>2. CASE ComputeReason(n) \/ BranchOnSwapping(n) \/ TeardownForSwap(n)
      BY <3>2 DEF ComputeReason, BranchOnSwapping, TeardownForSwap, Step, Cancel, session, outside, callers
    <3>3. CASE OnClose(n) \/ CloseDone(n)
      BY <3>3 DEF OnClose, CloseDone, Step, session, outside, callers
    <3>4. CASE LoopRelease(n)
      BY <3>4 DEF LoopRelease, Step, ReleaseFields, ReleaseVoice, ReleaseSlot, Cancel, outside, callers
    <3>5. QED
      BY <2>9, <3>1, <3>2, <3>3, <3>4 DEF LoopStep
  <2>10. CASE Stop \/ VoiceLeft
    BY <2>10 DEF Stop, VoiceLeft, Cancel, session, callers, loops
  <2>11. CASE UNCHANGED vars
    BY <2>11 DEF vars, session, outside, callers, loops
  <2>12. QED
    BY <2>1, <2>2, <2>3, <2>4, <2>5, <2>6, <2>7, <2>8, <2>9, <2>10, <2>11
    DEF Next, CallerStep
<1>3. QED
  BY <1>1, <1>2, PTL DEF Spec

------------------------------------------------------------------------------
(* NoLeakedSlot needs to know that a set swapping flag has a Swap behind it:  *)
(* then a run loop that reads it can let go of the session without freeing it. *)

SwapperExists ==
    swapping => \E c \in Callers : pc[c] \in {"swapCancel", "swapWait"}

LeakInv == TypeOK /\ SwapperExists /\ NoLeakedSlot

\* A run loop that moves between two states of Alive other than "teardown", or
\* that was in none of them, leaves the holders of the session as they were.
LEMMA LoopMoves ==
    ASSUME LeakInv, NEW n \in Streams, NEW from, NEW to,
           Step(n, from, to), UNCHANGED <<busy, swapping, pc>>,
           from \in Alive \ {"teardown"} => to \in Alive \ {"teardown"}
    PROVE  SwapperExists' /\ NoLeakedSlot'
<1>1. SwapperExists'
  BY DEF LeakInv, SwapperExists
<1>2. CASE \E c \in Callers : pc[c] \in Holding
  BY <1>1, <1>2 DEF NoLeakedSlot
<1>3. CASE \E m \in AliveLoops : loop[m] # "teardown"
  <2>1. PICK m \in AliveLoops : loop[m] # "teardown"
    BY <1>3
  <2>2. m \in AliveLoops' /\ loop'[m] # "teardown"
    BY <2>1 DEF Step, AliveLoops, LeakInv, TypeOK
  <2>3. QED
    BY <1>1, <2>2 DEF NoLeakedSlot
<1>4. QED
  BY <1>1, <1>2, <1>3 DEF LeakInv, NoLeakedSlot

\* A caller that stays among the holders, or that was not one of them.
LEMMA CallerMoves ==
    ASSUME LeakInv, NEW c \in Callers, NEW from, NEW to,
           Goto(c, from, to), UNCHANGED <<busy, swapping, loop>>,
           from \in Holding => to \in Holding,
           from \in {"swapCancel", "swapWait"} => to \in {"swapCancel", "swapWait"}
    PROVE  SwapperExists' /\ NoLeakedSlot'
<1>1. SwapperExists'
  BY DEF LeakInv, SwapperExists, Goto, TypeOK
<1>2. CASE \E d \in Callers : pc[d] \in Holding
  <2>1. PICK d \in Callers : pc[d] \in Holding
    BY <1>2
  <2>2. pc'[d] \in Holding
    BY <2>1 DEF Goto, LeakInv, TypeOK
  <2>3. QED
    BY <1>1, <2>2 DEF NoLeakedSlot
<1>3. CASE \E m \in AliveLoops : loop[m] # "teardown"
  BY <1>1, <1>3 DEF NoLeakedSlot, AliveLoops
<1>4. QED
  BY <1>1, <1>2, <1>3 DEF LeakInv, NoLeakedSlot

\* A Busy session is never left without a goroutine that will release it or
\* hand it on, whatever requests, stops and timeouts overlap.
THEOREM NothingLeaks == Spec => []NoLeakedSlot
<1>1. Init => LeakInv
  <2>1. Init => TypeOK
    BY TypeCorrectInit
  <2>2. QED
    BY <2>1 DEF Init, LeakInv, SwapperExists, NoLeakedSlot
<1>2. LeakInv /\ TypeOK' /\ [Next]_vars => LeakInv'
  <2> SUFFICES ASSUME LeakInv, TypeOK', [Next]_vars PROVE SwapperExists' /\ NoLeakedSlot'
    BY DEF LeakInv
  <2> USE DEF Holding
  <2>1. ASSUME NEW c \in Callers, Begin(c) PROVE SwapperExists' /\ NoLeakedSlot'
    BY <2>1, CallerMoves DEF Begin, session, loops
  <2>2. ASSUME NEW c \in Callers, NEW from \in {"acquire", "swapAcquire"},
               NEW to \in {"play", "reuse"}, Acquire(c, from, to)
        PROVE  SwapperExists' /\ NoLeakedSlot'
    <3>1. CASE busy
      BY <2>2, <3>1, CallerMoves DEF Acquire, loops
    <3>2. CASE ~busy
      <4>1. pc'[c] \in Holding
        BY <2>2, <3>2 DEF Acquire, Goto, LeakInv, TypeOK
      <4>2. SwapperExists'
        BY <2>2, <3>2 DEF Acquire, Goto, LeakInv, TypeOK, SwapperExists
      <4>3. QED
        BY <4>1, <4>2 DEF NoLeakedSlot
    <3>3. QED
      BY <3>1, <3>2
  <2>3. ASSUME NEW c \in Callers, SwapLock(c) PROVE SwapperExists' /\ NoLeakedSlot'
    <3>1. CASE ~busy
      BY <2>3, <3>1, CallerMoves DEF SwapLock, loops
    <3>2. CASE busy
      <4>1. pc'[c] = "swapCancel"
        BY <2>3, <3>2 DEF SwapLock, Goto, LeakInv, TypeOK
      <4>2. QED
        BY <4>1 DEF SwapperExists, NoLeakedSlot
    <3>3. QED
      BY <3>1, <3>2
  <2>4. ASSUME NEW c \in Callers, SwapCancel(c) PROVE SwapperExists' /\ NoLeakedSlot'
    BY <2>4, CallerMoves DEF SwapCancel, session, loops
  <2>5. ASSUME NEW c \in Callers, Rearm(c) PROVE SwapperExists' /\ NoLeakedSlot'
    <3>1. pc'[c] = "reuse" /\ ~swapping'
      BY <2>5 DEF Rearm, Goto, LeakInv, TypeOK
    <3>2. QED
      BY <3>1 DEF SwapperExists, NoLeakedSlot
  <2>6. ASSUME NEW c \in Callers, Play(c) \/ PlayReusing(c) \/ JoinVoice(c)
        PROVE  SwapperExists' /\ NoLeakedSlot'
    BY <2>6, CallerMoves DEF Play, PlayReusing, JoinVoice, session, loops
  <2>7. ASSUME NEW c \in Callers, StartLoop(c) PROVE SwapperExists' /\ NoLeakedSlot'
    <3>1. mine[c] \in Streams
      BY <2>7 DEF StartLoop, Step, LeakInv, TypeOK, StreamOrNil
    <3>2. mine[c] \in AliveLoops' /\ loop'[mine[c]] # "teardown"
      BY <2>7, <3>1 DEF StartLoop, Step, AliveLoops, Alive, LeakInv, TypeOK
    <3>3. SwapperExists'
      BY <2>7 DEF StartLoop, Goto, LeakInv, TypeOK, SwapperExists
    <3>4. QED
      BY <3>2, <3>3 DEF NoLeakedSlot
  <2>8. ASSUME NEW c \in Callers, CallerRelease(c) PROVE SwapperExists' /\ NoLeakedSlot'
    <3>1. CASE Goto(c, "free", "idle") /\ ReleaseSlot
      BY <2>8, <3>1 DEF Goto, ReleaseSlot, LeakInv, TypeOK, SwapperExists, NoLeakedSlot
    <3>2. CASE Goto(c, "release", "leave") /\ ReleaseFields
      BY <2>8, <3>2, CallerMoves DEF CallerRelease, ReleaseFields, loops
    <3>3. CASE Goto(c, "leave", "free") /\ ReleaseVoice
      BY <2>8, <3>3, CallerMoves DEF CallerRelease, ReleaseVoice, loops
    <3>4. QED
      BY <2>8, <3>1, <3>2, <3>3 DEF CallerRelease
  <2>9. ASSUME NEW n \in Streams, LoopStep(n) \/ StreamReturns(n)
        PROVE  SwapperExists' /\ NoLeakedSlot'
    <3> USE DEF Alive
    <3>1. CASE LoopEnter(n) \/ OpenPlayback(n) \/ StreamReady(n) \/ StreamReturns(n) \/ ComputeReason(n)
      BY <3>1, LoopMoves
      DEF LoopEnter, OpenPlayback, StreamReady, StreamReturns, ComputeReason, callers, session
    <3>2. CASE BranchOnSwapping(n)
      <4>1. CASE swapping
        <5>1. SwapperExists'
          BY <3>2, <4>1 DEF BranchOnSwapping, callers, session, LeakInv, SwapperExists
        <5>2. \E c \in Callers : pc'[c] \in Holding
          BY <3>2, <4>1 DEF BranchOnSwapping, callers, LeakInv, SwapperExists
        <5>3. QED
          BY <5>1, <5>2 DEF NoLeakedSlot
      <4>2. CASE ~swapping
        BY <3>2, <4>2, LoopMoves DEF BranchOnSwapping, callers, session
      <4>3. QED
        BY <4>1, <4>2
    <3>3. CASE TeardownForSwap(n) \/ OnClose(n) \/ CloseDone(n)
      BY <3>3, LoopMoves DEF TeardownForSwap, OnClose, CloseDone, callers, session
    <3>4. CASE LoopRelease(n)
      <4>1. CASE Step(n, "free", "close") /\ ReleaseSlot
        BY <3>4, <4>1 DEF LoopRelease, ReleaseSlot, callers, LeakInv, SwapperExists, NoLeakedSlot
      <4>2. CASE Step(n, "release", "leave") /\ ReleaseFields
        BY <3>4, <4>2, LoopMoves DEF LoopRelease, ReleaseFields, callers
      <4>3. CASE Step(n, "leave", "free") /\ ReleaseVoice
        BY <3>4, <4>3, LoopMoves DEF LoopRelease, ReleaseVoice, callers
      <4>4. QED
        BY <3>4, <4>1, <4>2, <4>3 DEF LoopRelease
    <3>5. QED
      BY <2>9, <3>1, <3>2, <3>3, <3>4 DEF LoopStep
  <2>10. CASE Stop \/ VoiceLeft \/ UNCHANGED vars
    BY <2>10 DEF Stop, VoiceLeft, vars, session, callers, loops, LeakInv,
       SwapperExists, NoLeakedSlot, AliveLoops
  <2>11. QED
    BY <2>1, <2>2, <2>3, <2>4, <2>5, <2>6, <2>7, <2>8, <2>9, <2>10 DEF Next, CallerStep
<1>3. LeakInv => NoLeakedSlot
  BY DEF LeakInv
<1>4. QED
  BY <1>1, <1>2, <1>3, TypeCorrect, PTL DEF Spec

------------------------------------------------------------------------------
(* The handover, when requests do not overlap and teardowns meet the timeout. *)

\* One request is being started at a time, and none while a run loop has yet
\* to register its controller.
OneStarter ==
    /\ \A c, d \in Callers : pc[c] # "idle" /\ pc[d] # "idle" => c = d
    /\ \A c \in Callers, n \in Streams : loop[n] = "spawned" => pc[c] = "idle"

\* Past Acquire or Swap a caller is alone with the session.
Alone == {"acquire", "swapAcquire", "play", "reuse", "join", "start",
          "release", "leave", "free"}

CallerInv(c) ==
    /\ pc[c] # "idle" => mine[c] \in Streams /\ mine[c] <= started /\ loop[mine[c]] = "none"
    /\ pc[c] \in Alone => \A n \in Streams : loop[n] \notin Alive
    /\ pc[c] \in Alone \ {"acquire", "swapAcquire"} => busy
    /\ pc[c] \in {"join", "start"} => request = mine[c] /\ voice
    /\ pc[c] \in {"swapCancel", "swapWait"} => waitOn[c] = loopDone
    /\ pc[c] = "swapWait" => \A n \in Streams : loop[n] \in Alive => n \in cancelled

\* A run loop owns the fields of the session until it gives them up one by one.
LoopInv(n) ==
    /\ n > started => loop[n] = "none"
    /\ loop[n] \in Alive => busy /\ loopDone = n
    /\ loop[n] \in Alive \ {"leave", "free"} => voice /\ request = n
    /\ loop[n] \in Alive \ {"spawned", "leave", "free"} => controller = n
    /\ loop[n] \in {"branch", "teardown", "release", "leave", "free"} => n \in cancelled
    /\ loop[n] = "play" => onAir = n
    /\ loop[n] = "connect" => onAir = n
    /\ loop[n] \notin {"none", "spawned", "done"} => done[n] = n
    /\ loop[n] \notin {"notify", "done"} => closed[n] = 0
    /\ closed[n] <= 1
    /\ loop[n] \notin {"none", "spawned", "open", "connect", "play"}
          => result[n] \in {"ended", "stopped", "error"}

HandoverInv ==
    /\ TypeOK
    /\ OneStarter
    /\ \A c \in Callers : CallerInv(c)
    /\ \A n \in Streams : LoopInv(n)

\* Every step keeps the invariant of the handover.
LEMMA HandoverStep ==
    ASSUME ~OverlapStarts, ~SlowTeardown, HandoverInv, TypeOK', [Next]_vars
    PROVE  HandoverInv'
<1> DEFINE Handover == OneStarter /\ (\A c \in Callers : CallerInv(c)) /\ (\A n \in Streams : LoopInv(n))
<1>1. Handover'
  <2> USE DEF HandoverInv, TypeOK, OneStarter, CallerInv, LoopInv, Alone, Alive,
              Goto, Step, outside, session, callers, loops
  <2>1. ASSUME NEW c \in Callers, Begin(c) PROVE Handover'
    <3>1. OneStarter'
      BY <2>1 DEF Begin, Starting, Streams
    <3>2. ASSUME NEW d \in Callers PROVE CallerInv(d)'
      BY <2>1 DEF Begin, Starting, Streams
    <3>3. ASSUME NEW m \in Streams PROVE LoopInv(m)'
      BY <2>1 DEF Begin, Starting, Streams
    <3>4. QED
      BY <3>1, <3>2, <3>3
  <2>2. ASSUME NEW c \in Callers, Acquire(c, "acquire", "play") \/ Acquire(c, "swapAcquire", "reuse") PROVE Handover'
    <3>1. OneStarter'
      BY <2>2 DEF Acquire
    <3>2. ASSUME NEW d \in Callers PROVE CallerInv(d)'
      BY <2>2 DEF Acquire
    <3>3. ASSUME NEW m \in Streams PROVE LoopInv(m)'
      BY <2>2 DEF Acquire
    <3>4. QED
      BY <3>1, <3>2, <3>3
  <2>3. ASSUME NEW c \in Callers, SwapLock(c) PROVE Handover'
    <3>1. OneStarter'
      BY <2>3 DEF SwapLock
    <3>2. ASSUME NEW d \in Callers PROVE CallerInv(d)'
      BY <2>3 DEF SwapLock
    <3>3. ASSUME NEW m \in Streams PROVE LoopInv(m)'
      BY <2>3 DEF SwapLock
    <3>4. QED
      BY <3>1, <3>2, <3>3
  <2>4. ASSUME NEW c \in Callers, SwapCancel(c) PROVE Handover'
    <3>1. OneStarter'
      BY <2>4 DEF SwapCancel, Cancel, Nil, Streams
    <3>2. ASSUME NEW d \in Callers PROVE CallerInv(d)'
      BY <2>4 DEF SwapCancel, Cancel, Nil, Streams
    <3>3. ASSUME NEW m \in Streams PROVE LoopInv(m)'
      BY <2>4 DEF SwapCancel, Cancel, Nil, Streams
    <3>4. QED
      BY <3>1, <3>2, <3>3
  <2>5. ASSUME NEW c \in Callers, Rearm(c) PROVE Handover'
    <3>0. ASSUME NEW n \in Streams PROVE loop[n] \notin Alive
      <4>1. SUFFICES ASSUME loop[n] \in Alive PROVE FALSE
        OBVIOUS
      <4>2. pc[c] = "swapWait"
        BY <2>5 DEF Rearm
      <4>3. waitOn[c] = n /\ n \in cancelled
        BY <4>1, <4>2
      <4>4. closed[n] = 0
        BY <4>1
      <4>5. n # Nil
        BY DEF Nil, Streams
      <4>6. QED
        BY <2>5, <4>3, <4>4, <4>5 DEF Rearm, SwapDone, SwapTimeout
    <3>1. OneStarter'
      BY <2>5, <3>0 DEF Rearm
    <3>2. ASSUME NEW d \in Callers PROVE CallerInv(d)'
      BY <2>5, <3>0 DEF Rearm
    <3>3. ASSUME NEW m \in Streams PROVE LoopInv(m)'
      BY <2>5, <3>0 DEF Rearm
    <3>4. QED
      BY <3>1, <3>2, <3>3
  <2>6. ASSUME NEW c \in Callers, Play(c) PROVE Handover'
    <3>1. OneStarter'
      BY <2>6 DEF Play
    <3>2. ASSUME NEW d \in Callers PROVE CallerInv(d)'
      BY <2>6 DEF Play
    <3>3. ASSUME NEW m \in Streams PROVE LoopInv(m)'
      BY <2>6 DEF Play
    <3>4. QED
      BY <3>1, <3>2, <3>3
  <2>7. ASSUME NEW c \in Callers, PlayReusing(c) PROVE Handover'
    <3>1. OneStarter'
      BY <2>7 DEF PlayReusing
    <3>2. ASSUME NEW d \in Callers PROVE CallerInv(d)'
      BY <2>7 DEF PlayReusing
    <3>3. ASSUME NEW m \in Streams PROVE LoopInv(m)'
      BY <2>7 DEF PlayReusing
    <3>4. QED
      BY <3>1, <3>2, <3>3
  <2>8. ASSUME NEW c \in Callers, JoinVoice(c) PROVE Handover'
    <3>1. OneStarter'
      BY <2>8 DEF JoinVoice
    <3>2. ASSUME NEW d \in Callers PROVE CallerInv(d)'
      BY <2>8 DEF JoinVoice
    <3>3. ASSUME NEW m \in Streams PROVE LoopInv(m)'
      BY <2>8 DEF JoinVoice
    <3>4. QED
      BY <3>1, <3>2, <3>3
  <2>9. ASSUME NEW c \in Callers, StartLoop(c) PROVE Handover'
    <3>1. OneStarter'
      BY <2>9 DEF StartLoop
    <3>2. ASSUME NEW d \in Callers PROVE CallerInv(d)'
      BY <2>9 DEF StartLoop
    <3>3. ASSUME NEW m \in Streams PROVE LoopInv(m)'
      <4>1. mine[c] \in Streams /\ mine[c] <= started /\ loop[mine[c]] = "none"
        BY <2>9 DEF StartLoop
      <4>2. CASE m = mine[c]
        <5>1. ~(m > started)
          BY <4>1, <4>2 DEF Streams
        <5>2. LoopInv(m)
          OBVIOUS
        <5>3. busy /\ voice /\ request = mine[c]
          BY <2>9 DEF StartLoop
        <5>4. loop'[m] = "spawned" /\ closed'[m] = 0 /\ loopDone' = m
          BY <2>9, <4>1, <4>2, <5>2 DEF StartLoop
        <5>5. UNCHANGED <<busy, voice, request, started>>
          BY <2>9 DEF StartLoop
        <5>6. QED
          BY <4>2, <5>1, <5>3, <5>4, <5>5
      <4>3. CASE m # mine[c]
        BY <2>9, <4>1, <4>3 DEF StartLoop
      <4>4. QED
        BY <4>2, <4>3
    <3>4. QED
      BY <3>1, <3>2, <3>3
  <2>10. ASSUME NEW c \in Callers, CallerRelease(c) PROVE Handover'
    <3>1. OneStarter'
      BY <2>10 DEF CallerRelease, ReleaseFields, ReleaseVoice, ReleaseSlot, Cancel
    <3>2. ASSUME NEW d \in Callers PROVE CallerInv(d)'
      BY <2>10 DEF CallerRelease, ReleaseFields, ReleaseVoice, ReleaseSlot, Cancel
    <3>3. ASSUME NEW m \in Streams PROVE LoopInv(m)'
      BY <2>10 DEF CallerRelease, ReleaseFields, ReleaseVoice, ReleaseSlot, Cancel
    <3>4. QED
      BY <3>1, <3>2, <3>3
  <2>11. ASSUME NEW n \in Streams, LoopEnter(n) PROVE Handover'
    <3>1. OneStarter'
      BY <2>11 DEF LoopEnter
    <3>2. ASSUME NEW d \in Callers PROVE CallerInv(d)'
      BY <2>11 DEF LoopEnter
    <3>3. ASSUME NEW m \in Streams PROVE LoopInv(m)'
      BY <2>11 DEF LoopEnter
    <3>4. QED
      BY <3>1, <3>2, <3>3
  <2>12. ASSUME NEW n \in Streams, OpenPlayback(n) PROVE Handover'
    <3>1. OneStarter'
      BY <2>12 DEF OpenPlayback
    <3>2. ASSUME NEW d \in Callers PROVE CallerInv(d)'
      BY <2>12 DEF OpenPlayback
    <3>3. ASSUME NEW m \in Streams PROVE LoopInv(m)'
      BY <2>12 DEF OpenPlayback
    <3>4. QED
      BY <3>1, <3>2, <3>3
  <2>13. ASSUME NEW n \in Streams, StreamReady(n) PROVE Handover'
    <3>1. OneStarter'
      BY <2>13 DEF StreamReady
    <3>2. ASSUME NEW d \in Callers PROVE CallerInv(d)'
      BY <2>13 DEF StreamReady
    <3>3. ASSUME NEW m \in Streams PROVE LoopInv(m)'
      BY <2>13 DEF StreamReady
    <3>4. QED
      BY <3>1, <3>2, <3>3
  <2>14. ASSUME NEW n \in Streams, StreamReturns(n) PROVE Handover'
    <3>1. OneStarter'
      BY <2>14 DEF StreamReturns
    <3>2. ASSUME NEW d \in Callers PROVE CallerInv(d)'
      BY <2>14 DEF StreamReturns
    <3>3. ASSUME NEW m \in Streams PROVE LoopInv(m)'
      BY <2>14 DEF StreamReturns
    <3>4. QED
      BY <3>1, <3>2, <3>3
  <2>15. ASSUME NEW n \in Streams, ComputeReason(n) PROVE Handover'
    <3>1. OneStarter'
      BY <2>15 DEF ComputeReason, Cancel, Nil, Streams
    <3>2. ASSUME NEW d \in Callers PROVE CallerInv(d)'
      BY <2>15 DEF ComputeReason, Cancel, Nil, Streams
    <3>3. ASSUME NEW m \in Streams PROVE LoopInv(m)'
      <4>1. cancelled' = cancelled \cup {n}
        BY <2>15 DEF ComputeReason, Cancel, Nil, Streams
      <4>2. QED
        BY <2>15, <4>1 DEF ComputeReason
    <3>4. QED
      BY <3>1, <3>2, <3>3
  <2>16. ASSUME NEW n \in Streams, BranchOnSwapping(n) PROVE Handover'
    <3>1. OneStarter'
      BY <2>16 DEF BranchOnSwapping
    <3>2. ASSUME NEW d \in Callers PROVE CallerInv(d)'
      BY <2>16 DEF BranchOnSwapping
    <3>3. ASSUME NEW m \in Streams PROVE LoopInv(m)'
      BY <2>16 DEF BranchOnSwapping
    <3>4. QED
      BY <3>1, <3>2, <3>3
  <2>17. ASSUME NEW n \in Streams, TeardownForSwap(n) PROVE Handover'
    <3>1. OneStarter'
      BY <2>17 DEF TeardownForSwap
    <3>2. ASSUME NEW d \in Callers PROVE CallerInv(d)'
      BY <2>17 DEF TeardownForSwap
    <3>3. ASSUME NEW m \in Streams PROVE LoopInv(m)'
      BY <2>17 DEF TeardownForSwap
    <3>4. QED
      BY <3>1, <3>2, <3>3
  <2>18. ASSUME NEW n \in Streams, OnClose(n) PROVE Handover'
    <3>1. OneStarter'
      BY <2>18 DEF OnClose
    <3>2. ASSUME NEW d \in Callers PROVE CallerInv(d)'
      BY <2>18 DEF OnClose
    <3>3. ASSUME NEW m \in Streams PROVE LoopInv(m)'
      BY <2>18 DEF OnClose
    <3>4. QED
      BY <3>1, <3>2, <3>3
  <2>19. ASSUME NEW n \in Streams, CloseDone(n) PROVE Handover'
    <3>1. OneStarter'
      BY <2>19 DEF CloseDone, Nil
    <3>2. ASSUME NEW d \in Callers PROVE CallerInv(d)'
      BY <2>19 DEF CloseDone, Nil
    <3>3. ASSUME NEW m \in Streams PROVE LoopInv(m)'
      BY <2>19 DEF CloseDone, Nil
    <3>4. QED
      BY <3>1, <3>2, <3>3
  <2>20. ASSUME NEW n \in Streams, LoopRelease(n) PROVE Handover'
    <3>1. OneStarter'
      BY <2>20 DEF LoopRelease, ReleaseFields, ReleaseVoice, ReleaseSlot, Cancel
    <3>2. ASSUME NEW d \in Callers PROVE CallerInv(d)'
      BY <2>20 DEF LoopRelease, ReleaseFields, ReleaseVoice, ReleaseSlot, Cancel
    <3>3. ASSUME NEW m \in Streams PROVE LoopInv(m)'
      BY <2>20 DEF LoopRelease, ReleaseFields, ReleaseVoice, ReleaseSlot, Cancel
    <3>4. QED
      BY <3>1, <3>2, <3>3
  <2>21. CASE Stop \/ VoiceLeft
    BY <2>21 DEF Stop, VoiceLeft, Cancel
  <2>22. CASE UNCHANGED vars
    BY <2>22 DEF vars
  <2>23. QED
    BY <2>1, <2>2, <2>3, <2>4, <2>5, <2>6, <2>7, <2>8, <2>9, <2>10, <2>11, <2>12, <2>13,
       <2>14, <2>15, <2>16, <2>17, <2>18, <2>19, <2>20, <2>21, <2>22
    DEF Next, CallerStep, LoopStep
<1>2. QED
  BY <1>1 DEF HandoverInv

\* The invariant of the handover holds throughout.
LEMMA HandoverHolds ==
    ASSUME ~OverlapStarts, ~SlowTeardown
    PROVE  Spec => []HandoverInv
<1>1. Init => HandoverInv
  <2> SUFFICES ASSUME Init PROVE HandoverInv
    OBVIOUS
  <2>1. TypeOK
    BY TypeCorrectInit
  <2>2. OneStarter /\ \A c \in Callers : CallerInv(c)
    BY DEF Init, OneStarter, CallerInv, Alone
  <2>3. \A n \in Streams : LoopInv(n)
    BY DEF Init, LoopInv, Alive
  <2>4. QED
    BY <2>1, <2>2, <2>3 DEF HandoverInv
<1>2. HandoverInv /\ TypeOK' /\ [Next]_vars => HandoverInv'
  BY HandoverStep
<1>3. QED
  BY <1>1, <1>2, TypeCorrect, PTL DEF Spec

\* Requests that do not overlap never put two run loops on the session.
THEOREM SessionsAreExclusive ==
    ASSUME ~OverlapStarts, ~SlowTeardown
    PROVE  Spec => []OneRunLoop
<1>1. HandoverInv => OneRunLoop
  BY DEF HandoverInv, LoopInv, OneRunLoop, AliveLoops
<1>2. QED
  BY <1>1, HandoverHolds, PTL

\* The stream on air is the one that Busy, request, controller and the voice
\* connection belong to.
THEOREM PlayingIsOwner ==
    ASSUME ~OverlapStarts, ~SlowTeardown
    PROVE  Spec => []PlayingOwnsSession
<1>1. HandoverInv => PlayingOwnsSession
  BY DEF HandoverInv, LoopInv, PlayingOwnsSession, Alive
<1>2. QED
  BY <1>1, HandoverHolds, PTL

\* No loopDone channel is closed twice.
THEOREM ChannelsCloseOnce ==
    ASSUME ~OverlapStarts, ~SlowTeardown
    PROVE  Spec => []ClosedOnce
<1>1. HandoverInv => ClosedOnce
  BY DEF HandoverInv, LoopInv, ClosedOnce
<1>2. QED
  BY <1>1, HandoverHolds, PTL

\* Streams that do not overlap follow each other on a session: one run loop, which owns
\* the session while it plays, and whose channel is closed once.
THEOREM StreamsFollowEachOther ==
    ASSUME ~OverlapStarts, ~SlowTeardown
    PROVE  Spec => []SessionIsExclusive
<1>1. OneRunLoop /\ PlayingOwnsSession /\ ClosedOnce => SessionIsExclusive
  BY DEF SessionIsExclusive
<1>2. QED
  BY <1>1, SessionsAreExclusive, PlayingIsOwner, ChannelsCloseOnce, PTL

------------------------------------------------------------------------------
(* The voice connection: who holds the slot has it until ReleaseVoice, and only  *)
(* a stream that is torn down as swapped leaves it to its successor.             *)

SlotIsEmpty == ~voice /\ request = Nil

\* The fields go with the slot, one by one.
EmptyInv ==
    /\ ~busy => SlotIsEmpty
    /\ \A c \in Callers : /\ pc[c] = "leave" => request = Nil
                          /\ pc[c] = "free" => SlotIsEmpty
    /\ \A n \in Streams : /\ loop[n] = "leave" => request = Nil
                          /\ loop[n] = "free" => SlotIsEmpty

\* What a Swap that waits for stream n may find.
Replaced(n) ==
    \/ loop[n] \in Alive
    \/ /\ n \in cancelled
       /\ \/ loop[n] = "notifySwapped" /\ voice /\ request = n
          \/ /\ loop[n] \in {"closeSwapped", "done"} /\ report[n] = "swapped"
             /\ voice /\ request = n
          \/ loop[n] \in {"close", "notify", "done"} /\ SlotIsEmpty

\* The session of a caller that has come out of Swap.
TakenOver ==
    \/ SlotIsEmpty
    \/ /\ voice /\ request \in Streams
       /\ report[request] = "swapped" /\ loop[request] = "done"

SwapInv(c) ==
    /\ pc[c] \in {"swapCancel", "swapWait"} => loopDone \in Streams /\ Replaced(loopDone)
    /\ pc[c] = "reuse" => TakenOver

VoiceInv == EmptyInv /\ \A c \in Callers : SwapInv(c)

\* Steps of the callers keep the invariant.
LEMMA VoiceCallerStep ==
    ASSUME ~OverlapStarts, ~SlowTeardown, HandoverInv, NoLeakedSlot, VoiceInv,
           NEW c \in Callers, Begin(c) \/ CallerStep(c)
    PROVE  VoiceInv'
<1> USE DEF HandoverInv, TypeOK, OneStarter, CallerInv, LoopInv, VoiceInv, EmptyInv, SwapInv,
            SlotIsEmpty, Alone, Goto, outside, session, callers, loops, Nil
<1>1. CASE Begin(c)
  <2>1. EmptyInv'
    BY <1>1 DEF Begin
  <2>2. ASSUME NEW d \in Callers PROVE SwapInv(d)'
    BY <1>1 DEF Begin, Replaced, TakenOver
  <2>3. QED
    BY <2>1, <2>2
<1>2. CASE Acquire(c, "acquire", "play") \/ Acquire(c, "swapAcquire", "reuse")
  <2>1. EmptyInv'
    BY <1>2 DEF Acquire
  <2>2. ASSUME NEW d \in Callers PROVE SwapInv(d)'
    BY <1>2 DEF Acquire, Replaced, TakenOver
  <2>3. QED
    BY <2>1, <2>2
<1>3. CASE SwapLock(c)
  <2>1. EmptyInv'
    BY <1>3 DEF SwapLock
  <2>2. CASE busy
    <3>1. \A d \in Callers : pc[d] \notin Holding
      BY <1>3 DEF SwapLock, Holding
    <3>2. PICK n \in Streams : loop[n] \in Alive
      BY <2>2, <3>1 DEF NoLeakedSlot, AliveLoops
    <3>3. loopDone = n
      BY <3>2
    <3>4. ASSUME NEW d \in Callers PROVE SwapInv(d)'
      BY <1>3, <3>2, <3>3 DEF SwapLock, Replaced, TakenOver
    <3>5. QED
      BY <2>1, <3>4
  <2>3. CASE ~busy
    <3>1. ASSUME NEW d \in Callers PROVE SwapInv(d)'
      BY <1>3, <2>3 DEF SwapLock, Replaced, TakenOver
    <3>2. QED
      BY <2>1, <3>1
  <2>4. QED
    BY <2>2, <2>3
<1>4. CASE SwapCancel(c)
  <2>1. EmptyInv'
    BY <1>4 DEF SwapCancel
  <2>2. cancelled \subseteq cancelled'
    BY <1>4 DEF SwapCancel, Cancel
  <2>3. ASSUME NEW d \in Callers PROVE SwapInv(d)'
    BY <1>4, <2>2 DEF SwapCancel, Replaced, TakenOver
  <2>4. QED
    BY <2>1, <2>3
<1>5. CASE Rearm(c)
  <2> DEFINE n == loopDone
  <2>1. n \in Streams /\ Replaced(n) /\ waitOn[c] = n /\ pc[c] = "swapWait"
    BY <1>5 DEF Rearm
  <2>2. n \in cancelled
    BY <2>1 DEF Replaced
  <2>3. closed[n] > 0
    <3>1. n # Nil
      BY <2>1 DEF Streams
    <3>2. SwapDone(c)
      BY <1>5, <2>1, <2>2 DEF Rearm, SwapTimeout
    <3>3. QED
      BY <2>1, <3>1, <3>2 DEF SwapDone
  <2>4. loop[n] \in {"notify", "done"}
    BY <2>1, <2>3
  <2>5. TakenOver
    BY <2>1, <2>4 DEF Replaced, TakenOver, Alive
  <2>6. TakenOver'
    BY <1>5, <2>5 DEF Rearm, TakenOver
  <2>7. EmptyInv'
    BY <1>5 DEF Rearm
  <2>8. ASSUME NEW d \in Callers PROVE SwapInv(d)'
    BY <1>5, <2>1, <2>6 DEF Rearm
  <2>9. QED
    BY <2>7, <2>8
<1>6. CASE Play(c) \/ PlayReusing(c) \/ JoinVoice(c) \/ StartLoop(c) \/ CallerRelease(c)
  <2>1. pc[c] \in Alone /\ pc'[c] \notin {"swapCancel", "swapWait", "reuse"}
    BY <1>6 DEF Play, PlayReusing, JoinVoice, StartLoop, CallerRelease
  <2>2. ASSUME NEW d \in Callers PROVE SwapInv(d)'
    <3>1. CASE d = c
      BY <2>1, <3>1
    <3>2. CASE d # c
      <4>1. pc[d] = "idle"
        BY <2>1, <3>2
      <4>2. pc'[d] = "idle"
        BY <1>6, <3>2, <4>1 DEF Play, PlayReusing, JoinVoice, StartLoop, CallerRelease
      <4>3. QED
        BY <4>2
    <3>3. QED
      BY <3>1, <3>2
  <2>3. busy /\ \A n \in Streams : loop[n] \notin Alive
    BY <1>6, <2>1 DEF Play, PlayReusing, JoinVoice, StartLoop, CallerRelease
  <2>4. ASSUME NEW n \in Streams PROVE loop'[n] \notin {"leave", "free"}
    <3>1. CASE UNCHANGED loop
      BY <2>3, <3>1 DEF Alive
    <3>2. CASE StartLoop(c)
      BY <2>3, <3>2 DEF StartLoop, Step, Alive
    <3>3. QED
      BY <1>6, <3>1, <3>2 DEF Play, PlayReusing, JoinVoice, CallerRelease
  <2>5. ASSUME NEW d \in Callers
        PROVE  /\ pc'[d] = "leave" => request' = Nil
               /\ pc'[d] = "free" => SlotIsEmpty'
    <3>1. CASE d # c
      <4>1. pc[d] = "idle"
        BY <2>1, <3>1
      <4>2. pc'[d] = "idle"
        BY <1>6, <3>1, <4>1 DEF Play, PlayReusing, JoinVoice, StartLoop, CallerRelease
      <4>3. QED
        BY <4>2
    <3>2. CASE d = c
      BY <1>6, <3>2 DEF Play, PlayReusing, JoinVoice, StartLoop, CallerRelease, ReleaseFields,
         ReleaseVoice, ReleaseSlot
    <3>3. QED
      BY <3>1, <3>2
  <2>6. ~busy' => SlotIsEmpty'
    BY <1>6, <2>3 DEF Play, PlayReusing, JoinVoice, StartLoop, CallerRelease, ReleaseFields,
       ReleaseVoice, ReleaseSlot
  <2>7. QED
    BY <2>2, <2>4, <2>5, <2>6
<1>7. QED
  BY <1>1, <1>2, <1>3, <1>4, <1>5, <1>6 DEF CallerStep

\* Steps of the run loops keep it.
LEMMA VoiceLoopStep ==
    ASSUME ~OverlapStarts, ~SlowTeardown, HandoverInv, VoiceInv,
           NEW n \in Streams, LoopStep(n) \/ StreamReturns(n)
    PROVE  VoiceInv'
<1> USE DEF HandoverInv, TypeOK, OneStarter, CallerInv, LoopInv, VoiceInv, EmptyInv, SwapInv,
            SlotIsEmpty, Alone, Step, outside, session, callers, loops, Nil
<1>0. UNCHANGED <<pc, loopDone>>
  BY DEF LoopStep, LoopEnter, OpenPlayback, StreamReady, StreamReturns, ComputeReason,
     BranchOnSwapping, TeardownForSwap, OnClose, CloseDone, LoopRelease, ReleaseFields,
     ReleaseVoice, ReleaseSlot
<1>1. ASSUME loop[n] \in Alive
      PROVE  loopDone = n /\ (\A c \in Callers : pc[c] # "reuse")
  <2>1. loopDone = n
    BY <1>1
  <2>2. ASSUME NEW c \in Callers, pc[c] = "reuse" PROVE FALSE
    BY <1>1, <2>2
  <2>3. QED
    BY <2>1, <2>2
<1>2. CASE \/ LoopEnter(n) \/ OpenPlayback(n) \/ StreamReady(n) \/ StreamReturns(n)
           \/ ComputeReason(n) \/ BranchOnSwapping(n)
  <2>1. loop[n] \in Alive /\ loop'[n] \in Alive \ {"leave", "free"}
    BY <1>2 DEF LoopEnter, OpenPlayback, StreamReady, StreamReturns, ComputeReason,
       BranchOnSwapping, Alive
  <2>2. /\ \A m \in Streams : m # n => loop'[m] = loop[m]
        /\ UNCHANGED <<busy, voice, request>>
    BY <1>2 DEF LoopEnter, OpenPlayback, StreamReady, StreamReturns, ComputeReason,
       BranchOnSwapping
  <2>3. EmptyInv'
    BY <1>0, <2>1, <2>2
  <2>4. ASSUME NEW d \in Callers PROVE SwapInv(d)'
    BY <1>0, <1>1, <2>1 DEF Replaced
  <2>5. QED
    BY <2>3, <2>4
<1>3. CASE TeardownForSwap(n)
  <2>1. EmptyInv'
    BY <1>0, <1>3 DEF TeardownForSwap
  <2>2. loop[n] \in Alive /\ n \in cancelled /\ voice /\ request = n
    BY <1>3 DEF TeardownForSwap, Alive
  <2>3. ASSUME NEW d \in Callers PROVE SwapInv(d)'
    <3>1. Replaced(n)'
      BY <1>3, <2>2 DEF TeardownForSwap, Replaced
    <3>2. QED
      BY <1>0, <1>1, <2>2, <3>1
  <2>4. QED
    BY <2>1, <2>3
<1>4. CASE OnClose(n)
  <2>1. EmptyInv'
    BY <1>0, <1>4 DEF OnClose
  <2>2. ASSUME NEW m \in Streams, Replaced(m) PROVE Replaced(m)'
    <3>1. CASE m = n
      BY <1>4, <2>2, <3>1 DEF OnClose, Replaced, Alive
    <3>2. CASE m # n
      BY <1>4, <2>2, <3>2 DEF OnClose, Replaced
    <3>3. QED
      BY <3>1, <3>2
  <2>3. TakenOver => TakenOver'
    BY <1>4 DEF OnClose, TakenOver
  <2>4. ASSUME NEW d \in Callers PROVE SwapInv(d)'
    BY <1>0, <2>2, <2>3
  <2>5. QED
    BY <2>1, <2>4
<1>5. CASE CloseDone(n)
  <2>1. EmptyInv'
    BY <1>0, <1>5 DEF CloseDone
  <2>2. ASSUME NEW m \in Streams, Replaced(m) PROVE Replaced(m)'
    BY <1>5, <2>2 DEF CloseDone, Replaced, Alive
  <2>3. TakenOver => TakenOver'
    BY <1>5 DEF CloseDone, TakenOver
  <2>4. ASSUME NEW d \in Callers PROVE SwapInv(d)'
    BY <1>0, <2>2, <2>3
  <2>5. QED
    BY <2>1, <2>4
<1>6. CASE LoopRelease(n)
  <2>1. loop[n] \in Alive /\ n \in cancelled
    BY <1>6 DEF LoopRelease, Alive
  <2>2. ASSUME NEW d \in Callers PROVE pc[d] \notin {"leave", "free"}
    BY <2>1
  <2>3. ASSUME NEW m \in Streams, m # n PROVE loop[m] \notin Alive
    BY <2>1, <2>3
  <2>4. EmptyInv'
    BY <1>0, <1>6, <2>2, <2>3 DEF LoopRelease, ReleaseFields, ReleaseVoice, ReleaseSlot, Alive
  <2>5. Replaced(n)'
    <3>1. n \in cancelled'
      BY <1>6, <2>1 DEF LoopRelease, ReleaseFields, ReleaseVoice, ReleaseSlot, Cancel
    <3>2. loop'[n] \in Alive \/ (loop'[n] = "close" /\ SlotIsEmpty')
      BY <1>6 DEF LoopRelease, ReleaseFields, ReleaseVoice, ReleaseSlot, Alive
    <3>3. QED
      BY <3>1, <3>2 DEF Replaced
  <2>6. ASSUME NEW d \in Callers PROVE SwapInv(d)'
    BY <1>0, <1>1, <2>1, <2>5
  <2>7. QED
    BY <2>4, <2>6
<1>7. QED
  BY <1>2, <1>3, <1>4, <1>5, <1>6 DEF LoopStep

\* A request comes out of Swap with the voice connection in place exactly when the stream it
\* replaced was torn down as swapped, whenever that stream ends on its own.
THEOREM SwapsKeepTheVoice ==
    ASSUME ~OverlapStarts, ~SlowTeardown
    PROVE  Spec => []SwapKeepsVoice
<1>1. Init => VoiceInv
  BY DEF Init, VoiceInv, EmptyInv, SwapInv, SlotIsEmpty
<1>2. HandoverInv /\ NoLeakedSlot /\ VoiceInv /\ [Next]_vars => VoiceInv'
  <2> SUFFICES ASSUME HandoverInv, NoLeakedSlot, VoiceInv, [Next]_vars PROVE VoiceInv'
    OBVIOUS
  <2>1. CASE Stop \/ VoiceLeft \/ UNCHANGED vars
    <3>1. UNCHANGED <<busy, voice, request, loopDone, pc, loop, report>>
      BY <2>1 DEF Stop, VoiceLeft, vars, session, outside, callers, loops
    <3>2. cancelled \subseteq cancelled'
      BY <2>1 DEF Stop, VoiceLeft, Cancel, vars, outside
    <3>3. EmptyInv'
      BY <3>1 DEF VoiceInv, EmptyInv, SlotIsEmpty
    <3>4. ASSUME NEW d \in Callers PROVE SwapInv(d)'
      BY <3>1, <3>2 DEF VoiceInv, SwapInv, Replaced, TakenOver, SlotIsEmpty
    <3>5. QED
      BY <3>3, <3>4 DEF VoiceInv
  <2>2. QED
    BY <2>1, VoiceCallerStep, VoiceLoopStep DEF Next
<1>3. HandoverInv /\ VoiceInv => SwapKeepsVoice
  <2> SUFFICES ASSUME HandoverInv, VoiceInv, NEW c \in Callers, pc[c] = "reuse"
               PROVE  voice <=> request # Nil /\ report[request] = "swapped"
    BY DEF SwapKeepsVoice
  <2>1. TakenOver
    BY DEF VoiceInv, SwapInv
  <2>2. QED
    BY <2>1 DEF TakenOver, SlotIsEmpty, Streams, Nil
<1>4. QED
  BY <1>1, <1>2, <1>3, HandoverHolds, NothingLeaks, PTL DEF Spec

------------------------------------------------------------------------------
(* Refinement: every step of the session is a step of StreamSlot or leaves it  *)
(* as it was.                                                                  *)

\* A step of run loop n that changes neither Busy nor what is seen of n.
LEMMA LoopStutters ==
    ASSUME HandoverInv, NEW n \in Streams, NEW from, NEW to, Step(n, from, to),
           UNCHANGED <<busy, report>>, from # "none", to # "none",
           \/ from \in Alive /\ to \in Alive
           \/ from = "close" /\ to = "notify"
           \/ from = "closeSwapped" /\ to = "done"
    PROVE  UNCHANGED Slot!vars
<1>1. \A m \in Streams : Status(m)' = Status(m)
  BY DEF Status, Step, Alive, HandoverInv, TypeOK
<1>2. QED
  BY <1>1 DEF Slot!vars

\* A step of the callers or of the users that starts no run loop.
LEMMA OthersStutter ==
    ASSUME UNCHANGED <<busy, report, loop>>
    PROVE  UNCHANGED Slot!vars
BY DEF Slot!vars, Status

\* The step of run loop n that is seen as stream n going from one status to
\* another.
LEMMA StatusChanges ==
    ASSUME HandoverInv, NEW n \in Streams, NEW from, NEW to, Step(n, from, to),
           \A m \in Streams : m # n => report'[m] = report[m]
    PROVE  Slot!Becomes(n, Status(n), Status(n)')
<1> DEFINE seen == [m \in Streams |-> Status(m)]
<1>1. \A m \in Streams : m # n => Status(m)' = Status(m)
  BY DEF Status, Step, HandoverInv, TypeOK
<1>2. seen' = [seen EXCEPT ![n] = Status(n)']
  BY <1>1
<1>3. seen[n] = Status(n)
  OBVIOUS
<1>4. QED
  BY <1>2, <1>3 DEF Slot!Becomes

\* Every step of a session in good order is allowed by StreamSlot.
LEMMA SlotStep ==
    ASSUME ~OverlapStarts, ~SlowTeardown, HandoverInv, [Next]_vars
    PROVE  [Slot!Next]_(Slot!vars)
<1> DEFINE Allowed == Slot!Next \/ UNCHANGED Slot!vars
<1> USE DEF outside, session, callers, loops
<1>1. ASSUME \A n \in Streams : loop[n] \notin Alive PROVE Slot!NoneLive
  <2>1. ASSUME NEW n \in Streams PROVE Status(n) # "live"
    BY <1>1 DEF Status, HandoverInv, TypeOK, Reasons
  <2>2. QED
    BY <2>1 DEF Slot!NoneLive
<1>2. ASSUME NEW c \in Callers,
             \/ Begin(c) \/ SwapLock(c) \/ SwapCancel(c)
             \/ Play(c) \/ PlayReusing(c) \/ JoinVoice(c)
      PROVE  Allowed
  BY <1>2, OthersStutter DEF Begin, SwapLock, SwapCancel, Play, PlayReusing, JoinVoice
<1>3. ASSUME NEW c \in Callers,
             Acquire(c, "acquire", "play") \/ Acquire(c, "swapAcquire", "reuse") \/ Rearm(c)
      PROVE  Allowed
  <2>1. UNCHANGED <<report, loop>> /\ (busy' = busy \/ (~busy /\ busy'))
    BY <1>3 DEF Acquire, Rearm, HandoverInv, TypeOK
  <2>2. UNCHANGED [n \in Streams |-> Status(n)]
    BY <2>1 DEF Status
  <2>3. CASE busy' = busy
    BY <2>1, <2>3, OthersStutter
  <2>4. CASE ~busy /\ busy'
    BY <2>2, <2>4 DEF Slot!Next, Slot!Claim
  <2>5. QED
    BY <2>1, <2>3, <2>4
<1>4. ASSUME NEW c \in Callers, StartLoop(c) PROVE Allowed
  <2>1. PICK n \in Streams : n = mine[c]
    BY <1>4 DEF StartLoop, Goto, HandoverInv, CallerInv
  <2>2. busy /\ busy' = busy /\ (\A m \in Streams : loop[m] \notin Alive)
    BY <1>4 DEF StartLoop, Goto, HandoverInv, CallerInv, Alone
  <2>3. Slot!Becomes(n, Status(n), Status(n)')
    BY <1>4, <2>1, StatusChanges DEF StartLoop
  <2>4. Status(n) = "new" /\ Status(n)' = "live"
    BY <1>4, <2>1 DEF StartLoop, Step, Status, Alive, HandoverInv, TypeOK
  <2>5. Slot!GoLive(n)
    BY <1>1, <2>2, <2>3, <2>4 DEF Slot!GoLive
  <2>6. QED
    BY <2>5 DEF Slot!Next
<1>5. ASSUME NEW c \in Callers, CallerRelease(c) PROVE Allowed
  <2>1. CASE Goto(c, "free", "idle") /\ ReleaseSlot
    <3>1. busy /\ ~busy' /\ (\A n \in Streams : loop[n] \notin Alive)
      BY <2>1 DEF ReleaseSlot, Goto, HandoverInv, CallerInv, Alone
    <3>2. UNCHANGED [n \in Streams |-> Status(n)]
      BY <1>5, <2>1 DEF CallerRelease, ReleaseSlot, Status
    <3>3. QED
      BY <1>1, <3>1, <3>2 DEF Slot!Next, Slot!Abandon
  <2>2. CASE Goto(c, "release", "leave") /\ ReleaseFields
    BY <1>5, <2>2, OthersStutter DEF CallerRelease, ReleaseFields
  <2>3. CASE Goto(c, "leave", "free") /\ ReleaseVoice
    BY <1>5, <2>3, OthersStutter DEF CallerRelease, ReleaseVoice
  <2>4. QED
    BY <1>5, <2>1, <2>2, <2>3 DEF CallerRelease
<1>6. ASSUME NEW n \in Streams, LoopStep(n) \/ StreamReturns(n) PROVE Allowed
  <2>1. CASE \/ LoopEnter(n) \/ OpenPlayback(n) \/ StreamReady(n) \/ StreamReturns(n)
             \/ ComputeReason(n) \/ BranchOnSwapping(n) \/ CloseDone(n)
    BY <2>1, LoopStutters DEF LoopEnter, OpenPlayback, StreamReady, StreamReturns,
       ComputeReason, BranchOnSwapping, CloseDone, Alive
  <2>2. CASE TeardownForSwap(n)
    <3>1. Slot!Becomes(n, Status(n), Status(n)')
      BY <2>2, StatusChanges DEF TeardownForSwap
    <3>2. Status(n) = "live" /\ Status(n)' = "handed" /\ busy' = busy
      BY <2>2 DEF TeardownForSwap, Step, Status, Alive, HandoverInv, TypeOK
    <3>3. QED
      BY <3>1, <3>2 DEF Slot!Next, Slot!HandOver
  <2>3. CASE OnClose(n)
    <3>1. Slot!Becomes(n, Status(n), Status(n)') /\ busy' = busy
      BY <2>3, StatusChanges DEF OnClose, HandoverInv, TypeOK
    <3>2. \/ Status(n) = "handed" /\ Status(n)' = "swapped"
          \/ Status(n) = "freed" /\ Status(n)' \in Slot!FreeReasons
      BY <2>3 DEF OnClose, Step, Status, Alive, Slot!FreeReasons, HandoverInv, TypeOK, LoopInv
    <3>3. QED
      BY <3>1, <3>2 DEF Slot!Next, Slot!Report
  <2>4. CASE LoopRelease(n)
    <3>1. CASE Step(n, "free", "close") /\ ReleaseSlot
      <4>1. Slot!Becomes(n, Status(n), Status(n)') /\ ~busy'
        BY <3>1, StatusChanges DEF ReleaseSlot
      <4>2. Status(n) = "live" /\ Status(n)' = "freed"
        BY <3>1 DEF Step, Status, Alive, HandoverInv, TypeOK
      <4>3. QED
        BY <4>1, <4>2 DEF Slot!Next, Slot!Free
    <3>2. CASE Step(n, "release", "leave") /\ ReleaseFields
      BY <3>2, LoopStutters DEF ReleaseFields, Alive
    <3>3. CASE Step(n, "leave", "free") /\ ReleaseVoice
      BY <3>3, LoopStutters DEF ReleaseVoice, Alive
    <3>4. QED
      BY <2>4, <3>1, <3>2, <3>3 DEF LoopRelease
  <2>5. QED
    BY <1>6, <2>1, <2>2, <2>3, <2>4 DEF LoopStep
<1>7. CASE Stop \/ VoiceLeft \/ UNCHANGED vars
  BY <1>7, OthersStutter DEF Stop, VoiceLeft, vars
<1>8. QED
  BY <1>2, <1>3, <1>4, <1>5, <1>6, <1>7 DEF Next, CallerStep

\* A session whose requests do not overlap is a StreamSlot: it carries one
\* stream at a time, and reports a stream as swapped exactly when the slot
\* passed to a successor without becoming free.
THEOREM SessionImplementsSlot ==
    ASSUME ~OverlapStarts, ~SlowTeardown
    PROVE  Spec => ImplementsSlot
<1>1. Init => Slot!Init
  BY DEF Init, Slot!Init, Status
<1>2. HandoverInv /\ [Next]_vars => [Slot!Next]_(Slot!vars)
  BY SlotStep
<1>3. QED
  BY <1>1, <1>2, HandoverHolds, PTL DEF Spec, ImplementsSlot, Slot!Spec

==============================================================================
