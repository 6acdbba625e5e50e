--------------------------- MODULE RetriesProofs ---------------------------
(* Theorems about what times out, retries or starts again, for any number of retries, seeks,
   gateways and requests: the HLS loops, the resumable download, the gateway of the user
   account, and the slot of a session with requests that overlap.  What SumSpec of
   MC_Retries says of the variables of one component is what the component's own
   specification says. *)
EXTENDS MC_Retries, TLAPS

USE RetriesAssumption, CapAssumption

\* A step of the sum is a step of a component or leaves its variables alone.
LEMMA SourceSteps == ASSUME [SumNext]_allVars PROVE [D!Next]_D!vars
  BY DEF SumNext, allVars, dVars, D!vars, D!fields

LEMMA SelfbotSteps == ASSUME [SumNext]_allVars PROVE [B!Next]_B!vars
  BY DEF SumNext, allVars, bVars, B!vars, B!callerVars, B!gatewayVars, B!serverVars

LEMMA OverlapSteps == ASSUME [SumNext]_allVars PROVE [O!Next]_O!vars
  BY DEF SumNext, allVars, oVars, O!vars, O!session, O!outside, O!callers, O!loops

------------------------------------------------------------------------------
(* The HLS loops: theorems about Spec of HlsPlayback. *)

\* The delay is a number of seconds between DelayMin and DelayMax, however many
\* segments failed.
LEMMA DelayIsBounded ==
    ASSUME NEW n \in Nat
    PROVE  LiveReconnectDelay(n) \in DelayMin..DelayMax
<1> DEFINE shift == IF n - 1 > 3 THEN 3 ELSE n - 1
<1>1. CASE n <= 1
  BY <1>1 DEF LiveReconnectDelay, DelayMin, DelayMax
<1>2. CASE n > 1
  <2>1. shift \in {1, 2, 3}
    BY <1>2
  <2>2. 2 ^ 1 = 2 /\ 2 ^ 2 = 4 /\ 2 ^ 3 = 8
    OBVIOUS
  <2>3. 2 ^ shift \in {2, 4, 8}
    BY <2>1, <2>2
  <2> HIDE DEF shift
  <2>4. LiveReconnectDelay(n) = LET doubled == DelayMin * 2 ^ shift
                                IN  IF doubled > DelayMax THEN DelayMax ELSE doubled
    BY <1>2 DEF LiveReconnectDelay, shift
  <2>5. QED
    BY <2>3, <2>4 DEF DelayMin, DelayMax
<1>3. QED
  BY <1>1, <1>2

\* Every variable of HlsPlayback keeps its type.
THEOREM HlsTypeCorrect == Spec => []TypeOK
<1> USE DEF TypeOK
<1>1. Init => TypeOK
  <2> SUFFICES ASSUME Init PROVE TypeOK
    OBVIOUS
  <2>1. 0 \in 0..CounterCap /\ 0 \in 0..DelayMax
    BY DEF DelayMax
  <2>2. QED
    BY <2>1, Zenon DEF Init
<1>2. TypeOK /\ [Next]_vars => TypeOK'
  <2> SUFFICES ASSUME TypeOK, [Next]_vars PROVE TypeOK'
    OBVIOUS
  <2> USE DEF requestVars, ctxVars, upstreamVars, segmentVars, historyVars, At
  <2>1. CASE Leave
    BY <2>1 DEF Leave
  <2>2. CASE FirstAttempt \/ OpenAgain
    BY <2>2 DEF FirstAttempt, OpenAgain
  <2>3. CASE Reconnect
    BY <2>3 DEF Reconnect
  <2>4. CASE RefreshLiveUpstream \/ RefreshFallbackUpstream
    <3>1. LiveReconnectDelay(failures) \in 0..DelayMax
      BY DelayIsBounded DEF DelayMin, DelayMax
    <3>2. QED
      BY <2>4, <3>1 DEF RefreshLiveUpstream, RefreshFallbackUpstream
  <2>5. CASE OpenFails
    <3>1. lasted' \in {"short", "startup", "stable"}
      BY <2>5 DEF OpenFails
    <3>2. QED
      BY <2>5, <3>1 DEF OpenFails
  <2>6. CASE SegmentEnds
    <3>1. cleanEnd' \in BOOLEAN
      BY <2>6 DEF SegmentEnds
    <3>2. QED
      BY <2>6, <3>1 DEF SegmentEnds
  <2>7. CASE StreamOpens
    BY <2>7 DEF StreamOpens
  <2>8. CASE PlaysOn
    BY <2>8 DEF PlaysOn
  <2>9. CASE LiveGoesOn
    <3>1. \A n \in 0..CounterCap : Succ(n) \in 0..CounterCap
      BY DEF Succ
    <3>2. Succ(attempt) \in 0..CounterCap /\ streak' \in 0..CounterCap
      BY <2>9, <3>1 DEF LiveGoesOn, History
    <3>3. FailuresAfter(failures, lasted, cleanEnd) \in 0..CounterCap
      BY <3>1 DEF FailuresAfter
    <3>4. QED
      BY <2>9, <3>2, <3>3 DEF LiveGoesOn
  <2>10. CASE VodRetries \/ VodEnds
    BY <2>10 DEF VodRetries, VodEnds
  <2>11. CASE Cancel
    BY <2>11 DEF Cancel
  <2>12. CASE UNCHANGED vars
    BY <2>12 DEF vars
  <2>13. QED
    BY <2>1, <2>2, <2>3, <2>4, <2>5, <2>6, <2>7, <2>8, <2>9, <2>10, <2>11, <2>12
    DEF Next, RunLoop
<1>3. QED
  BY <1>1, <1>2, PTL DEF Spec

\* A live loop ends for no other reason than its context.
THEOREM LiveNeverGivesUp == Spec => []LiveEndsOnlyWhenCancelled
<1> USE DEF LiveEndsOnlyWhenCancelled, requestVars, ctxVars, upstreamVars, segmentVars,
            historyVars, At
<1>1. Init => LiveEndsOnlyWhenCancelled
  BY DEF Init
<1>2. LiveEndsOnlyWhenCancelled /\ [Next]_vars => LiveEndsOnlyWhenCancelled'
  <2> SUFFICES ASSUME LiveEndsOnlyWhenCancelled, [Next]_vars
               PROVE  LiveEndsOnlyWhenCancelled'
    OBVIOUS
  <2>1. CASE Leave \/ FirstAttempt \/ Reconnect
    BY <2>1 DEF Leave, FirstAttempt, Reconnect
  <2>2. CASE RefreshLiveUpstream \/ RefreshFallbackUpstream \/ OpenAgain
    BY <2>2 DEF RefreshLiveUpstream, RefreshFallbackUpstream, OpenAgain
  <2>3. CASE OpenFails \/ StreamOpens \/ PlaysOn \/ SegmentEnds
    BY <2>3 DEF OpenFails, StreamOpens, PlaysOn, SegmentEnds
  <2>4. CASE LiveGoesOn \/ VodRetries \/ VodEnds
    BY <2>4 DEF LiveGoesOn, VodRetries, VodEnds
  <2>5. CASE Cancel \/ UNCHANGED vars
    BY <2>5 DEF Cancel, vars
  <2>6. QED
    BY <2>1, <2>2, <2>3, <2>4, <2>5 DEF Next, RunLoop
<1>3. QED
  BY <1>1, <1>2, PTL DEF Spec

\* The count that the loop compares is the number of failed segments since the
\* last stable one.
FailuresAreTheStreak == failures = streak

\* consecutiveFailures never counts a clean end and forgets at a stable segment.
THEOREM FailuresCountTheStreak == Spec => [](live => FailuresAreTheStreak)
<1> USE DEF FailuresAreTheStreak, requestVars, ctxVars, upstreamVars, segmentVars, historyVars, At
<1>1. Init => (live => FailuresAreTheStreak)
  BY DEF Init
<1>2. (live => FailuresAreTheStreak) /\ [Next]_vars => (live => FailuresAreTheStreak)'
  <2> SUFFICES ASSUME live => FailuresAreTheStreak, [Next]_vars, live'
               PROVE  FailuresAreTheStreak'
    OBVIOUS
  <2>1. CASE Leave \/ FirstAttempt \/ Reconnect
    BY <2>1 DEF Leave, FirstAttempt, Reconnect
  <2>2. CASE RefreshLiveUpstream \/ RefreshFallbackUpstream \/ OpenAgain
    BY <2>2 DEF RefreshLiveUpstream, RefreshFallbackUpstream, OpenAgain
  <2>3. CASE OpenFails \/ StreamOpens \/ PlaysOn \/ SegmentEnds
    BY <2>3 DEF OpenFails, StreamOpens, PlaysOn, SegmentEnds
  <2>4. CASE LiveGoesOn
    BY <2>4 DEF LiveGoesOn, FailuresAfter, History
  <2>5. CASE VodRetries \/ VodEnds
    BY <2>5 DEF VodRetries, VodEnds
  <2>6. CASE Cancel \/ UNCHANGED vars
    BY <2>6 DEF Cancel, vars
  <2>7. QED
    BY <2>1, <2>2, <2>3, <2>4, <2>5, <2>6 DEF Next, RunLoop
<1>3. QED
  BY <1>1, <1>2, PTL DEF Spec

\* The backup provider is taken after FallbackAfter failures in a row, and kept.
THEOREM BackupAfterFailures == Spec => BackupIsEarned
<1> DEFINE Earned == usingFallback' # usingFallback => usingFallback' /\ streak >= FallbackAfter
<1>1. TypeOK /\ (live => FailuresAreTheStreak) /\ [Next]_vars => [Earned]_vars
  <2> SUFFICES ASSUME TypeOK, live => FailuresAreTheStreak, [Next]_vars,
                      usingFallback' # usingFallback
               PROVE  usingFallback' /\ streak >= FallbackAfter
    OBVIOUS
  <2> USE DEF requestVars, ctxVars, upstreamVars, segmentVars, historyVars
  <2>1. CASE Reconnect
    BY <2>1 DEF Reconnect, FailuresAreTheStreak, TypeOK
  <2>2. CASE Leave \/ FirstAttempt \/ RefreshLiveUpstream \/ RefreshFallbackUpstream \/ OpenAgain
    BY <2>2 DEF Leave, FirstAttempt, RefreshLiveUpstream, RefreshFallbackUpstream, OpenAgain
  <2>3. CASE OpenFails \/ StreamOpens \/ PlaysOn \/ SegmentEnds
    BY <2>3 DEF OpenFails, StreamOpens, PlaysOn, SegmentEnds
  <2>4. CASE LiveGoesOn \/ VodRetries \/ VodEnds
    BY <2>4 DEF LiveGoesOn, VodRetries, VodEnds
  <2>5. CASE Cancel \/ UNCHANGED vars
    BY <2>5 DEF Cancel, vars
  <2>6. QED
    BY <2>1, <2>2, <2>3, <2>4, <2>5 DEF Next, RunLoop
<1>2. QED
  BY <1>1, HlsTypeCorrect, FailuresCountTheStreak, PTL DEF Spec, BackupIsEarned

\* What a segment that went past its start leaves behind: it plays, or waits to
\* be accounted for as one that was not short, or the loop is over.
WatchedInv ==
    ~live /\ watched => /\ pc \in {"playing", "account", "over"}
                        /\ pc # "over" => lasted # "short"

\* A film that got past its start is not played from its start again.
THEOREM NoReplay == Spec => []WatchedIsNotReplayed
<1> USE DEF WatchedInv, requestVars, ctxVars, upstreamVars, segmentVars, historyVars, At
<1>1. Init => WatchedInv
  BY DEF Init
<1>2. WatchedInv /\ [Next]_vars => WatchedInv'
  <2> SUFFICES ASSUME WatchedInv, [Next]_vars PROVE WatchedInv'
    OBVIOUS
  <2>1. CASE Leave \/ FirstAttempt \/ Reconnect
    BY <2>1 DEF Leave, FirstAttempt, Reconnect
  <2>2. CASE RefreshLiveUpstream \/ RefreshFallbackUpstream \/ OpenAgain
    BY <2>2 DEF RefreshLiveUpstream, RefreshFallbackUpstream, OpenAgain
  <2>3. CASE OpenFails \/ StreamOpens
    BY <2>3 DEF OpenFails, StreamOpens
  <2>4. CASE PlaysOn \/ SegmentEnds
    BY <2>4 DEF PlaysOn, SegmentEnds
  <2>5. CASE LiveGoesOn \/ VodRetries \/ VodEnds
    BY <2>5 DEF LiveGoesOn, VodRetries, VodEnds
  <2>6. CASE Cancel \/ UNCHANGED vars
    BY <2>6 DEF Cancel, vars
  <2>7. QED
    BY <2>1, <2>2, <2>3, <2>4, <2>5, <2>6 DEF Next, RunLoop
<1>3. WatchedInv => WatchedIsNotReplayed
  BY DEF WatchedIsNotReplayed
<1>4. QED
  BY <1>1, <1>2, <1>3, PTL DEF Spec

------------------------------------------------------------------------------
(* The resumable download (MediaSource) *)

\* What is known of the position of each response.  A range response starts at the offset, a
\* whole file at 0, and neither moves the offset while it is opened.
PositionInv ==
    /\ d_offset \in 0..N /\ d_size \in {D!Unknown, N}
    /\ d_body = D!Unknown \/ d_body = d_offset
    /\ d_pc = "discard" => d_fresh \in 0..d_offset
    /\ d_pc = "install" => d_fresh = d_offset

\* Every step keeps the positions, the steps of Destroy among them.
LEMMA PositionStep ==
    ASSUME PositionInv, [D!Next]_D!vars
    PROVE  PositionInv'
<1> USE SourceAssumed DEF D!SourceAssumption, PositionInv, D!Goes, D!fields, D!Unknown
<1>1. CASE D!Read \/ D!Size \/ D!RefreshURL
  BY <1>1 DEF D!Read, D!Size, D!RefreshURL
<1>2. ASSUME NEW target \in 0..N, D!Seek(target) PROVE PositionInv'
  BY <1>2 DEF D!Seek
<1>3. CASE D!Cancel \/ D!CloseBody
  BY <1>3 DEF D!Cancel, D!CloseBody
<1>4. CASE D!ReadLoop
  BY <1>4 DEF D!ReadLoop, D!Return
<1>5. CASE D!ReadData
  <2>1. PICK n \in 1..(N - d_body) : d_offset' = d_offset + n /\ d_body' = d_body + n
    BY <1>5 DEF D!ReadData
  <2>2. d_body = d_offset /\ d_body \in 0..N
    BY <1>5 DEF D!ReadData
  <2>3. d_offset' \in 0..N /\ d_body' = d_offset'
    BY <2>1, <2>2
  <2>4. QED
    BY <1>5, <2>3 DEF D!ReadData, D!Return
<1>6. ASSUME D!Failed PROVE d_pc' \in {"idle", "retry"} /\ d_body' = D!Unknown
  BY <1>6 DEF D!Failed, D!Return
<1>7. CASE D!ReadFails \/ D!OpenFails \/ D!DiscardFails
  BY <1>6, <1>7 DEF D!ReadFails, D!OpenFails, D!DiscardFails
<1>8. CASE D!ReadEnd
  BY <1>6, <1>8 DEF D!ReadEnd, D!Return
<1>9. CASE D!Respond
  BY <1>9 DEF D!Respond, D!PartialSizes
<1>10. CASE D!Discard
  BY <1>10 DEF D!Discard
<1>11. CASE D!Install
  BY <1>11 DEF D!Install
<1>12. CASE UNCHANGED D!vars
  BY <1>12 DEF D!vars
<1>13. QED
  BY <1>1, <1>2, <1>3, <1>4, <1>5, <1>7, <1>8, <1>9, <1>10, <1>11, <1>12 DEF D!Next, D!Progress

\* The positions hold throughout.
LEMMA PositionHolds == SumSpec => []PositionInv
<1>1. SumInit => PositionInv
  BY SourceAssumed DEF SumInit, D!Init, PositionInv, D!SourceAssumption, D!Unknown
<1>2. PositionInv /\ [SumNext]_allVars => PositionInv'
  BY SourceSteps, PositionStep
<1>3. QED
  BY <1>1, <1>2, PTL DEF SumSpec

\* The byte that Read hands to libav next is the one at offset, whatever was dropped, resumed,
\* seeked, re-resolved or answered with the whole file, and whenever Destroy comes.
THEOREM BytesAreAtTheirOffset == SumSpec => []BodyIsAtOffset
<1>1. PositionInv => BodyIsAtOffset
  BY DEF PositionInv, BodyIsAtOffset, D!BodyIsAtOffset
<1>2. QED
  BY <1>1, PositionHolds, PTL

\* Read reports an end only at the end of the file: whatever ends a response early is resumed
\* or an error, never the end of the film.
THEOREM EndsAreTheEnd == SumSpec => D!EofIsTheEnd
<1>1. PositionInv /\ [D!Next]_D!vars
          => [d_result' = "eof" => d_offset' = N \/ d_result = "eof"]_D!vars
  <2> SUFFICES ASSUME PositionInv, D!Next, d_result' = "eof", d_result # "eof"
               PROVE  d_offset' = N
    OBVIOUS
  <2> USE DEF PositionInv, D!Goes, D!Return, D!fields, D!Unknown
  <2>1. ASSUME D!Failed PROVE d_result' \in {d_result, "error"}
    BY <2>1 DEF D!Failed
  <2>2. D!ReadEnd
    <3>1. ~(D!Read \/ D!Size \/ (\E target \in 0..N : D!Seek(target)) \/ D!Cancel \/ D!CloseBody)
      BY DEF D!Read, D!Size, D!Seek, D!Cancel, D!CloseBody
    <3>2. ~(D!ReadLoop \/ D!RefreshURL \/ D!Install \/ D!ReadData \/ D!Respond \/ D!Discard)
      BY DEF D!ReadLoop, D!RefreshURL, D!Install, D!ReadData, D!Respond, D!Discard
    <3>3. ~(D!ReadFails \/ D!OpenFails \/ D!DiscardFails)
      BY <2>1 DEF D!ReadFails, D!OpenFails, D!DiscardFails
    <3>4. QED
      BY <3>1, <3>2, <3>3 DEF D!Next, D!Progress
  <2>3. ~(d_size # D!Unknown /\ d_offset < d_size)
    BY <2>1, <2>2 DEF D!ReadEnd
  <2>4. d_body = d_offset /\ d_offset' = d_offset /\ (d_body = N \/ d_size = N)
    BY <2>2 DEF D!ReadEnd
  <2>5. QED
    BY <2>3, <2>4
<1>2. [SumNext]_allVars => [D!Next]_D!vars BY SourceSteps
<1>3. QED
  BY <1>1, <1>2, PositionHolds, PTL DEF SumSpec, D!EofIsTheEnd

------------------------------------------------------------------------------
(* The gateway of the user account (SelfbotGateway) *)

SelfbotTyped ==
    /\ b_current \in B!Gateways /\ b_undecoded \subseteq B!Gateways
    /\ b_conn \in [B!Gateways -> {"none", "open", "nil"}]
    /\ b_reader \in [B!Gateways -> {"none", "loop", "read", "invalid", "done"}]
    /\ b_identified \in [B!Gateways -> {"empty", "ready", "error"}]

\* A gateway that was not dialled yet has neither a socket nor a reader.
Fresh(g) == g > b_current \/ (g = b_current /\ b_pc = "dial")
FreshIsUntouched ==
    \A g \in B!Gateways :
       Fresh(g) => b_conn[g] = "none" /\ b_reader[g] = "none" /\ b_identified[g] = "empty"

\* Whatever makes connect or maintainGateway give a gateway up has closed it before, except
\* a READY that could not be decoded.
LostIsClosed ==
    \A g \in B!Gateways :
       \/ b_reader[g] = "done"
       \/ b_identified[g] = "error" /\ g \notin b_undecoded
       \/ b_pc = "backoff" /\ g = b_current /\ g \notin b_undecoded
       => b_conn[g] # "open"

SelfbotInv == SelfbotTyped /\ FreshIsUntouched /\ LostIsClosed /\ B!ReplacedIsClosed

\* Closing a gateway closes no other.
LEMMA CloseCloses ==
    ASSUME SelfbotTyped, NEW g \in B!Gateways, B!Close(g)
    PROVE  /\ b_conn' \in [B!Gateways -> {"none", "open", "nil"}]
           /\ b_conn'[g] # "open" /\ (b_conn[g] = "none" => b_conn'[g] = "none")
           /\ \A h \in B!Gateways \ {g} : b_conn'[h] = b_conn[h]
  BY DEF SelfbotTyped, B!Close

\* connect dials a gateway that is fresh, and gives one up that is closed.
LEMMA ConnectKeepsInv == ASSUME SelfbotInv, B!Connect PROVE SelfbotInv'
<1> USE DEF SelfbotInv, SelfbotTyped, FreshIsUntouched, Fresh, LostIsClosed,
            B!ReplacedIsClosed, B!Goto, B!ConnectFails, B!gatewayVars, B!serverVars
<1>1. CASE B!Dial
  BY <1>1, SelfbotAssumed DEF B!Dial, B!Gateways, B!GatewayAssumption
<1>2. CASE B!DialFails BY <1>2 DEF B!DialFails
<1>3. CASE B!Identified BY <1>3 DEF B!Identified
<1>4. CASE B!Disconnected BY <1>4 DEF B!Disconnected
<1>5. CASE B!GiveUp BY <1>5, CloseCloses DEF B!GiveUp
<1> QED BY <1>1, <1>2, <1>3, <1>4, <1>5 DEF B!Connect

\* maintainGateway goes on to a fresh gateway when the one it leaves is closed.
LEMMA MaintainKeepsInv == ASSUME SelfbotInv, B!Maintain PROVE SelfbotInv'
<1> USE SelfbotAssumed
    DEF SelfbotInv, SelfbotTyped, FreshIsUntouched, Fresh, LostIsClosed, B!Gateways,
        B!ReplacedIsClosed, B!GatewayAssumption, B!Goto, B!gatewayVars, B!serverVars
<1>1. CASE B!Lost BY <1>1 DEF B!Lost
<1>2. CASE B!Leave BY <1>2 DEF B!Leave
<1>3. CASE B!Reconnect BY <1>3 DEF B!Reconnect
<1> QED BY <1>1, <1>2, <1>3 DEF B!Maintain

\* A reader ends, or signals an error, only as it closes its gateway, or for a READY that it
\* cannot decode.
LEMMA ReaderKeepsInv ==
    ASSUME SelfbotInv, NEW g \in B!Gateways, B!Receive(g) \/ B!ReadLoop(g)
    PROVE  SelfbotInv'
<1> USE DEF SelfbotInv, SelfbotTyped, FreshIsUntouched, Fresh, LostIsClosed,
            B!ReplacedIsClosed, B!Reader, B!ReaderEnds, B!Receives, B!Signal,
            B!callerVars, B!gatewayVars, B!serverVars
<1>1. CASE B!OnHello(g) BY <1>1 DEF B!OnHello
<1>2. CASE B!OnHeartbeatAck(g) BY <1>2 DEF B!OnHeartbeatAck
<1>3. CASE B!OnReady(g) BY <1>3 DEF B!OnReady
<1>4. CASE B!OnResumed(g) BY <1>4 DEF B!OnResumed
<1>5. CASE B!OnInvalidSession(g) BY <1>5 DEF B!OnInvalidSession
<1>6. CASE B!OnReconnect(g) BY <1>6, CloseCloses DEF B!OnReconnect
<1>7. CASE B!ReadNext(g) BY <1>7 DEF B!ReadNext
<1>8. CASE B!ReaderLeaves(g) BY <1>8, CloseCloses DEF B!ReaderLeaves
<1>9. CASE B!ReadFails(g) BY <1>9, CloseCloses DEF B!ReadFails
<1>10. CASE B!IdentifyAgain(g) BY <1>10 DEF B!IdentifyAgain
<1> QED BY <1>1, <1>2, <1>3, <1>4, <1>5, <1>6, <1>7, <1>8, <1>9, <1>10
        DEF B!Receive, B!ReadLoop

\* Every step of the client and of Discord keeps the invariant.
LEMMA SelfbotKeepsInv == ASSUME SelfbotInv, [B!Next]_B!vars PROVE SelfbotInv'
<1> USE DEF SelfbotInv, SelfbotTyped, FreshIsUntouched, Fresh, LostIsClosed,
            B!ReplacedIsClosed, B!callerVars, B!gatewayVars, B!serverVars
<1>1. ASSUME NEW g \in B!Gateways, B!Beat(g) \/ B!FallSilent(g) PROVE SelfbotInv'
  BY <1>1 DEF B!Beat, B!FallSilent
<1>2. ASSUME NEW g \in B!Gateways, B!Zombie(g) PROVE SelfbotInv'
  BY <1>2, CloseCloses DEF B!Zombie
<1>3. CASE B!ShutDown BY <1>3 DEF B!ShutDown
<1>4. CASE UNCHANGED B!vars BY <1>4 DEF B!vars
<1> HIDE DEF SelfbotInv
<1> QED BY <1>1, <1>2, <1>3, <1>4, ConnectKeepsInv, MaintainKeepsInv, ReaderKeepsInv
        DEF B!Next

\* A gateway is replaced only once it is closed, however many times the connection is lost and
\* wherever that finds connect, the reader and the heartbeat; the exception is one whose
\* READY could not be decoded (selfbot client, gateway.go).
THEOREM ReplacedGatewayIsClosed == SumSpec => []ReplacedIsClosed
<1>1. SumInit => SelfbotInv
  BY SelfbotAssumed DEF SumInit, B!Init, SelfbotInv, SelfbotTyped, FreshIsUntouched, Fresh,
     LostIsClosed, B!ReplacedIsClosed, B!Gateways, B!GatewayAssumption
<1>2. SelfbotInv /\ [SumNext]_allVars => SelfbotInv' BY SelfbotSteps, SelfbotKeepsInv
<1>3. SelfbotInv => ReplacedIsClosed BY DEF SelfbotInv, ReplacedIsClosed
<1> QED BY <1>1, <1>2, <1>3, PTL DEF SumSpec

------------------------------------------------------------------------------
(* The slot of a session with requests that overlap: the theorems about PoolSession, for
   the instance that MC_Retries has of it. *)

OP == INSTANCE PoolSessionProofs WITH
    OverlapStarts <- TRUE, SlowTeardown <- TRUE,
    busy <- o_busy, stopRequested <- o_stopRequested, swapping <- o_swapping,
    controller <- o_controller, request <- o_request, loopDone <- o_loopDone,
    voice <- o_voice, onVoiceLeave <- o_onVoiceLeave, onAir <- o_onAir,
    cancelled <- o_cancelled, closed <- o_closed, report <- o_report,
    started <- o_started, pc <- o_pc, mine <- o_mine, waitOn <- o_waitOn,
    loop <- o_loop, result <- o_result, done <- o_done

\* The two instances are the same specification.
LEMMA SameInit == O!Init => OP!Init
  BY Zenon DEF
     O!Init, OP!Init, O!Nil, OP!Nil, O!Streams, OP!Streams

LEMMA SameNext == O!Next => OP!Next
  BY DEF
     O!Next, OP!Next, O!Acquire, OP!Acquire, O!Begin, OP!Begin, O!BranchOnSwapping,
     OP!BranchOnSwapping, O!CallerRelease, OP!CallerRelease, O!CallerStep, OP!CallerStep,
     O!Cancel, OP!Cancel, O!CloseDone, OP!CloseDone, O!ComputeReason, OP!ComputeReason, O!Goto,
     OP!Goto, O!JoinVoice, OP!JoinVoice, O!LoopEnter, OP!LoopEnter, O!LoopRelease,
     OP!LoopRelease, O!LoopStep, OP!LoopStep, O!Nil, OP!Nil, O!OnClose, OP!OnClose,
     O!OpenPlayback, OP!OpenPlayback, O!Play, OP!Play, O!PlayReusing, OP!PlayReusing, O!Rearm,
     OP!Rearm, O!ReleaseFields, OP!ReleaseFields, O!ReleaseSlot, OP!ReleaseSlot, O!ReleaseVoice,
     OP!ReleaseVoice, O!StartLoop, OP!StartLoop, O!Starting, OP!Starting, O!Step, OP!Step,
     O!Stop, OP!Stop, O!StreamReady, OP!StreamReady, O!StreamReturns, OP!StreamReturns,
     O!Streams, OP!Streams, O!SwapCancel, OP!SwapCancel, O!SwapDone, OP!SwapDone, O!SwapLock,
     OP!SwapLock, O!SwapTimeout, OP!SwapTimeout, O!TeardownForSwap, OP!TeardownForSwap,
     O!VoiceLeft, OP!VoiceLeft, O!callers, OP!callers, O!loops, OP!loops, O!outside, OP!outside,
     O!session, OP!session

LEMMA OverlapRuns == SumSpec => OP!Spec
<1>1. SumInit => OP!Init BY SameInit DEF SumInit
<1>2. [SumNext]_allVars => [OP!Next]_OP!vars
  BY OverlapSteps, SameNext
  DEF O!vars, O!session, O!outside, O!callers, O!loops,
      OP!vars, OP!session, OP!outside, OP!callers, OP!loops
<1> QED BY <1>1, <1>2, PTL DEF SumSpec, OP!Spec

\* With requests that overlap at every step, stops, and teardowns that outlast the timeout of
\* Swap, a Busy session still has somebody who will release it or hand it on (PoolSession,
\* NothingLeaks).
THEOREM OverlappingRequestsLeakNoSlot == SumSpec => []OverlapLeaksNoSlot
<1>1. OP!Spec => []OP!NoLeakedSlot BY StreamsAssumed, OP!NothingLeaks
<1>2. OP!NoLeakedSlot => OverlapLeaksNoSlot
  BY DEF OverlapLeaksNoSlot, O!NoLeakedSlot, OP!NoLeakedSlot, O!AliveLoops, OP!AliveLoops,
         O!Alive, OP!Alive, O!Holding, OP!Holding, O!Streams, OP!Streams
<1> QED BY <1>1, <1>2, OverlapRuns, PTL
=============================================================================
