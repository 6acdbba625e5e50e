---------------------- MODULE ProgressivePlaybackProofs ----------------------
(***************************************************************************)
(* Theorems about ProgressivePlayback, for a media of any length, any      *)
(* number of qualities and seeks, and handlers that interleave with the    *)
(* segment loop at every unlock.                                           *)
(***************************************************************************)
EXTENDS ProgressivePlayback, TLAPS

USE QualitiesAssumption, DurationAssumption

\* Every variable of ProgressivePlayback keeps its type; a position that a seek asks for is
\* never negative.
THEOREM ProgressiveTypeCorrect == Spec => []TypeOK
<1> USE DEF TypeOK, Never
<1>1. Init => TypeOK
  <2> SUFFICES ASSUME Init PROVE TypeOK
    OBVIOUS
  <2>1. upc \in [Users -> {"idle", "callPause", "callResume", "callSeek"}]
    BY DEF Init
  <2>2. 0 \in Nat /\ 0 \in Int /\ 0 < Qualities
    OBVIOUS
  <2>3. QED
    BY <2>1, <2>2, Zenon DEF Init
<1>2. TypeOK /\ [Next]_vars => TypeOK'
  <2> SUFFICES ASSUME TypeOK, [Next]_vars PROVE TypeOK'
    OBVIOUS
  <2> USE DEF loopVars, pauseVars, seekVars, At
  <2>1. CASE NextUrl \/ CreateSource
    BY <2>1 DEF NextUrl, CreateSource
  <2>2. CASE ArmSegment \/ CheckPendingSeek
    <3>1. CASE ArmSegment
      <4>1. seg + 1 \in Nat
        OBVIOUS
      <4>2. QED
        BY <3>1, <4>1 DEF ArmSegment
    <3>2. CASE CheckPendingSeek
      <4>1. cancelled' \subseteq Nat
        BY <3>2 DEF CheckPendingSeek
      <4>2. QED
        BY <3>2, <4>1 DEF CheckPendingSeek
    <3>3. QED
      BY <2>2, <3>1, <3>2
  <2>3. CASE StartTranscode
    BY <2>3 DEF StartTranscode
  <2>4. CASE PublishSegment
    BY <2>4 DEF PublishSegment
  <2>5. CASE ReadPaused \/ ApplyPaused
    BY <2>5 DEF ReadPaused, ApplyPaused
  <2>6. CASE SegmentEnds \/ Probe
    BY <2>6 DEF SegmentEnds, Probe
  <2>7. CASE TakeSeek
    BY <2>7 DEF TakeSeek
  <2>8. CASE QualityFallback
    BY <2>8 DEF QualityFallback
  <2>9. ASSUME NEW target \in Int, SeekTo(target)
        PROVE  /\ pendingSeek' \in Nat /\ cancelled' \subseteq Nat
               /\ segmentCancel' \in Nat
    BY <2>9 DEF SeekTo, Min2, Max2, SeekMargin
  <2>10. CASE Seek
    <3>1. PICK target \in {0, Duration - 1} : SeekTo(target)
      BY <2>10 DEF Seek
    <3>2. target \in Int
      OBVIOUS
    <3>3. QED
      BY <2>9, <2>10, <3>1, <3>2 DEF Seek
  <2>11. CASE CancelStream \/ Tick
    <3>1. CASE CancelStream
      <4>1. paused' \in BOOLEAN
        BY <3>1, Zenon DEF CancelStream
      <4>2. QED
        BY <3>1, <4>1 DEF CancelStream
    <3>2. CASE Tick
      BY <3>2 DEF Tick
    <3>3. QED
      BY <2>11, <3>1, <3>2
  <2>12. ASSUME NEW u \in Users, NEW next \in {"idle", "callPause", "callResume", "callSeek"},
                upc' = [upc EXCEPT ![u] = next]
         PROVE  upc' \in [Users -> {"idle", "callPause", "callResume", "callSeek"}]
    BY <2>12
  <2>13. ASSUME NEW u \in Users, Pause(u) \/ Resume(u) \/ SetCaptions(u)
         PROVE  TypeOK'
    <3>1. upc' \in [Users -> {"idle", "callPause", "callResume", "callSeek"}]
      BY <2>12, <2>13 DEF Pause, Resume, SetCaptions
    <3>2. CASE Pause(u)
      BY <3>1, <3>2 DEF Pause
    <3>3. CASE Resume(u)
      <4>1. startedAt' \in Int
        BY <3>3 DEF Resume
      <4>2. QED
        BY <3>1, <3>3, <4>1 DEF Resume
    <3>4. CASE SetCaptions(u)
      BY <3>1, <3>4 DEF SetCaptions
    <3>5. QED
      BY <2>13, <3>2, <3>3, <3>4
  <2>14. ASSUME NEW u \in Users, Handler(u)
         PROVE  TypeOK'
    <3>1. upc' \in [Users -> {"idle", "callPause", "callResume", "callSeek"}]
      BY <2>12, <2>14 DEF Handler, CallPause, CallResume, RestartAtCurrentPosition
    <3>2. CASE CallPause(u)
      BY <3>1, <3>2 DEF CallPause
    <3>3. CASE CallResume(u)
      BY <3>1, <3>3 DEF CallResume
    <3>4. CASE RestartAtCurrentPosition(u)
      <4>1. Position \in Int
        BY DEF Position
      <4>2. /\ pendingSeek' \in Nat \cup {Never} /\ cancelled' \subseteq Nat
            /\ segmentCancel' \in Nat
        BY <2>9, <3>4, <4>1 DEF RestartAtCurrentPosition
      <4>3. QED
        BY <3>1, <3>4, <4>2 DEF RestartAtCurrentPosition
    <3>5. QED
      BY <2>14, <3>2, <3>3, <3>4 DEF Handler
  <2>15. CASE UNCHANGED vars
    BY <2>15 DEF vars
  <2>16. QED
    BY <2>1, <2>2, <2>3, <2>4, <2>5, <2>6, <2>7, <2>8, <2>10, <2>11, <2>13, <2>14,
       <2>15 DEF Next, RunLoop
<1>3. QED
  BY <1>1, <1>2, PTL DEF Spec

------------------------------------------------------------------------------
(* Seeks: segmentCancel always cancels the segment the loop works on, and after
   CheckPendingSeek a pending seek has cancelled it. *)

Armed == {"check", "start", "publish", "pauseRead", "pauseApply", "run"}
Checked == Armed \ {"check"}
Started == Checked \ {"start"}
Published == Started \ {"publish"}

SeekInv ==
    /\ segmentCancel = seg
    /\ pc \in Armed => seg # 0
    /\ pc \in Checked /\ pendingSeek # Never => Stopped(seg)

\* What a seek does to the segment the loop works on.
LEMMA SeekCancels ==
    ASSUME TypeOK, SeekInv, pc \in Armed, NEW target, SeekTo(target)
    PROVE  seg \in cancelled'
BY DEF SeekInv, SeekTo

LEMMA SeekInvHolds == Spec => []SeekInv
<1> USE DEF SeekInv, Armed, Checked, Stopped
<1>1. Init => SeekInv
  BY DEF Init
<1>2. TypeOK /\ SeekInv /\ [Next]_vars => SeekInv'
  <2> SUFFICES ASSUME TypeOK, SeekInv, [Next]_vars PROVE SeekInv'
    OBVIOUS
  <2> USE DEF loopVars, pauseVars, seekVars, At
  <2>1. CASE NextUrl \/ CreateSource
    BY <2>1 DEF NextUrl, CreateSource
  <2>2. CASE ArmSegment
    BY <2>2 DEF ArmSegment, TypeOK
  <2>3. CASE CheckPendingSeek
    BY <2>3 DEF CheckPendingSeek
  <2>4. CASE StartTranscode \/ PublishSegment
    BY <2>4 DEF StartTranscode, PublishSegment
  <2>5. CASE ReadPaused \/ ApplyPaused
    BY <2>5 DEF ReadPaused, ApplyPaused
  <2>6. CASE SegmentEnds \/ Probe
    BY <2>6 DEF SegmentEnds, Probe
  <2>7. CASE TakeSeek \/ QualityFallback
    BY <2>7 DEF TakeSeek, QualityFallback
  <2>8. CASE Seek
    <3>1. PICK target : SeekTo(target)
      BY <2>8 DEF Seek
    <3>2. UNCHANGED <<pc, seg, segmentCancel, ctxDone>>
      BY <2>8, <3>1 DEF Seek, SeekTo
    <3>3. pc \in Armed => seg \in cancelled'
      BY <3>1, SeekCancels
    <3>4. QED
      BY <3>2, <3>3
  <2>9. CASE CancelStream \/ Tick
    BY <2>9 DEF CancelStream, Tick
  <2>10. ASSUME NEW u \in Users,
                Pause(u) \/ Resume(u) \/ SetCaptions(u) \/ CallPause(u) \/ CallResume(u)
         PROVE  SeekInv'
    BY <2>10 DEF Pause, Resume, SetCaptions, CallPause, CallResume
  <2>11. ASSUME NEW u \in Users, RestartAtCurrentPosition(u)
         PROVE  SeekInv'
    <3>1. CASE pc = "over"
      BY <2>11, <3>1 DEF RestartAtCurrentPosition
    <3>2. CASE pc # "over"
      <4>1. SeekTo(Position)
        BY <2>11, <3>2 DEF RestartAtCurrentPosition
      <4>2. UNCHANGED <<pc, seg, segmentCancel, ctxDone>>
        BY <2>11, <4>1 DEF RestartAtCurrentPosition, SeekTo
      <4>3. pc \in Armed => seg \in cancelled'
        BY <4>1, SeekCancels
      <4>4. QED
        BY <4>2, <4>3
    <3>3. QED
      BY <3>1, <3>2
  <2>12. CASE UNCHANGED vars
    BY <2>12 DEF vars
  <2>13. QED
    BY <2>1, <2>2, <2>3, <2>4, <2>5, <2>6, <2>7, <2>8, <2>9, <2>10, <2>11, <2>12
       DEF Next, RunLoop, Handler
<1>3. QED
  BY <1>1, <1>2, ProgressiveTypeCorrect, PTL DEF Spec

\* A segment never plays against a seek, however many handlers seek at once.
THEOREM SeeksStopTheSegment == Spec => []NoPlayAgainstSeek
<1>1. SeekInv => NoPlayAgainstSeek
  BY DEF SeekInv, NoPlayAgainstSeek, Armed, Checked
<1>2. QED
  BY <1>1, SeekInvHolds, PTL

------------------------------------------------------------------------------
(* Captions: a segment that was started with another setting than the session's is
   cancelled, or somebody is about to cancel it. *)

CaptionInv ==
    pc \in Started /\ ~Stopped(seg) /\ (\A u \in Users : upc[u] # "callSeek")
    => burned = captions

LEMMA CaptionInvHolds == Spec => []CaptionInv
<1> USE DEF CaptionInv, Armed, Checked, Started, Stopped
<1>1. Init => CaptionInv
  BY DEF Init
<1>2. TypeOK /\ SeekInv /\ CaptionInv /\ [Next]_vars => CaptionInv'
  <2> SUFFICES ASSUME TypeOK, SeekInv, CaptionInv, [Next]_vars PROVE CaptionInv'
    OBVIOUS
  <2> USE DEF loopVars, pauseVars, seekVars, At
  <2>1. CASE NextUrl \/ CreateSource \/ ArmSegment \/ CheckPendingSeek
    BY <2>1 DEF NextUrl, CreateSource, ArmSegment, CheckPendingSeek
  <2>2. CASE StartTranscode
    BY <2>2 DEF StartTranscode
  <2>3. CASE PublishSegment \/ ReadPaused \/ ApplyPaused
    BY <2>3 DEF PublishSegment, ReadPaused, ApplyPaused
  <2>4. CASE SegmentEnds \/ Probe
    BY <2>4 DEF SegmentEnds, Probe
  <2>5. CASE TakeSeek \/ QualityFallback
    BY <2>5 DEF TakeSeek, QualityFallback
  <2>6. CASE Seek
    <3>1. PICK target : SeekTo(target)
      BY <2>6 DEF Seek
    <3>2. UNCHANGED <<pc, seg>>
      BY <2>6 DEF Seek
    <3>3. pc \in Armed => seg \in cancelled'
      BY <3>1, SeekCancels
    <3>4. QED
      BY <3>2, <3>3
  <2>7. CASE CancelStream \/ Tick
    <3>1. CASE CancelStream
      <4>1. paused' => paused
        BY <3>1, Zenon DEF CancelStream
      <4>2. QED
        BY <3>1, <4>1 DEF CancelStream
    <3>2. CASE Tick
      BY <3>2 DEF Tick
    <3>3. QED
      BY <2>7, <3>1, <3>2
  <2>8. ASSUME NEW u \in Users, SetCaptions(u)
        PROVE  CaptionInv'
    <3>1. upc'[u] = "callSeek"
      BY <2>8 DEF SetCaptions, TypeOK
    <3>2. QED
      BY <3>1
  <2>9. ASSUME NEW u \in Users, Pause(u) \/ Resume(u) \/ CallPause(u) \/ CallResume(u)
        PROVE  CaptionInv'
    <3>1. upc[u] # "callSeek"
      BY <2>9 DEF Pause, Resume, CallPause, CallResume
    <3>2. \A v \in Users : v # u => upc'[v] = upc[v]
      BY <2>9 DEF Pause, Resume, CallPause, CallResume, TypeOK
    <3>3. UNCHANGED <<pc, seg, ctxDone, cancelled, burned, captions>>
      BY <2>9 DEF Pause, Resume, CallPause, CallResume
    <3>4. QED
      BY <3>1, <3>2, <3>3
  <2>10. ASSUME NEW u \in Users, RestartAtCurrentPosition(u)
         PROVE  CaptionInv'
    <3>1. UNCHANGED <<pc, seg>>
      BY <2>10 DEF RestartAtCurrentPosition
    <3>2. CASE pc \in Armed
      <4>1. SeekTo(Position)
        BY <2>10, <3>2 DEF RestartAtCurrentPosition
      <4>2. seg \in cancelled'
        BY <3>2, <4>1, SeekCancels
      <4>3. QED
        BY <3>1, <4>2
    <3>3. CASE pc \notin Armed
      BY <3>1, <3>3
    <3>4. QED
      BY <3>2, <3>3
  <2>11. CASE UNCHANGED vars
    BY <2>11 DEF vars
  <2>12. QED
    BY <2>1, <2>2, <2>3, <2>4, <2>5, <2>6, <2>7, <2>8, <2>9, <2>10, <2>11
       DEF Next, RunLoop, Handler
<1>3. QED
  BY <1>1, <1>2, ProgressiveTypeCorrect, SeekInvHolds, PTL DEF Spec

\* The caption setting a user has chosen is the one that plays, in every interleaving of
\* handlers with the start of a segment.
THEOREM CaptionsAreBurned == Spec => []CaptionsReachThePicture
<1>1. CaptionInv => CaptionsReachThePicture
  BY DEF CaptionInv, CaptionsReachThePicture, Armed, Checked, Started
<1>2. QED
  BY <1>1, CaptionInvHolds, PTL

------------------------------------------------------------------------------
(* Pauses, of one user: nothing orders the calls to the transcode that two users make. *)

OneUser == \A u, v \in Users : u = v

PauseInv ==
    /\ pc \in Published => transcode = seg
    /\ \A u \in Users : upc[u] = "callResume" => ~paused
    /\ pc = "run" /\ paused /\ (\A u \in Users : upc[u] # "callPause") => seg \in tsPaused

LEMMA PauseInvHolds == ASSUME OneUser PROVE Spec => []PauseInv
<1> USE OneUser DEF OneUser, PauseInv, Armed, Checked, Started, Published
<1>1. Init => PauseInv
  BY DEF Init
<1>2. TypeOK /\ SeekInv /\ PauseInv /\ [Next]_vars => PauseInv'
  <2> SUFFICES ASSUME TypeOK, SeekInv, PauseInv, [Next]_vars PROVE PauseInv'
    OBVIOUS
  <2> USE DEF loopVars, pauseVars, seekVars, At
  <2>1. CASE NextUrl \/ CreateSource \/ ArmSegment \/ CheckPendingSeek
    BY <2>1 DEF NextUrl, CreateSource, ArmSegment, CheckPendingSeek
  <2>2. CASE StartTranscode \/ PublishSegment
    BY <2>2 DEF StartTranscode, PublishSegment
  <2>3. CASE ReadPaused
    BY <2>3 DEF ReadPaused
  <2>4. CASE ApplyPaused
    BY <2>4 DEF ApplyPaused
  <2>5. CASE SegmentEnds \/ Probe
    BY <2>5 DEF SegmentEnds, Probe
  <2>6. CASE TakeSeek \/ QualityFallback
    BY <2>6 DEF TakeSeek, QualityFallback
  <2>7. CASE Seek
    BY <2>7 DEF Seek
  <2>8. CASE CancelStream \/ Tick
    <3>1. CASE CancelStream
      <4>1. paused' => paused
        BY <3>1, Zenon DEF CancelStream
      <4>2. QED
        BY <3>1, <4>1 DEF CancelStream
    <3>2. CASE Tick
      BY <3>2 DEF Tick
    <3>3. QED
      BY <2>8, <3>1, <3>2
  <2>9. ASSUME NEW u \in Users, Pause(u)
        PROVE  PauseInv'
    <3>1. upc'[u] = "callPause" /\ UNCHANGED <<pc, seg, transcode>>
      BY <2>9 DEF Pause, TypeOK
    <3>2. \A v \in Users : upc'[v] # "callResume"
      BY <3>1
    <3>3. QED
      BY <3>1, <3>2
  <2>10. ASSUME NEW u \in Users, Resume(u)
         PROVE  PauseInv'
    BY <2>10 DEF Resume
  <2>11. ASSUME NEW u \in Users, SetCaptions(u) \/ RestartAtCurrentPosition(u)
         PROVE  PauseInv'
    <3>1. UNCHANGED <<pc, seg, transcode, paused, tsPaused>>
      BY <2>11 DEF SetCaptions, RestartAtCurrentPosition
    <3>2. upc[u] # "callPause" /\ upc'[u] # "callResume"
      BY <2>11 DEF SetCaptions, RestartAtCurrentPosition, TypeOK
    <3>3. QED
      BY <3>1, <3>2
  <2>12. ASSUME NEW u \in Users, CallPause(u)
         PROVE  PauseInv'
    <3>1. upc'[u] = "idle" /\ UNCHANGED <<pc, seg, transcode, paused>>
      BY <2>12 DEF CallPause, TypeOK
    <3>2. pc = "run" => seg \in tsPaused'
      BY <2>12 DEF CallPause, SeekInv
    <3>3. QED
      BY <3>1, <3>2
  <2>13. ASSUME NEW u \in Users, CallResume(u)
         PROVE  PauseInv'
    <3>1. ~paused /\ UNCHANGED <<pc, seg, transcode, paused>>
      BY <2>13 DEF CallResume
    <3>2. QED
      BY <3>1
  <2>14. CASE UNCHANGED vars
    BY <2>14 DEF vars
  <2>15. QED
    BY <2>1, <2>2, <2>3, <2>4, <2>5, <2>6, <2>7, <2>8, <2>9, <2>10, <2>11, <2>12, <2>13,
       <2>14 DEF Next, RunLoop, Handler
<1>3. QED
  BY <1>1, <1>2, ProgressiveTypeCorrect, SeekInvHolds, PTL DEF Spec

\* A segment that plays follows every seek, caption setting and pause, for any media and any
\* number of seeks, if one user at a time pauses and resumes.
THEOREM SegmentsFollowTheSession == ASSUME OneUser PROVE Spec => []SegmentFollowsSession
<1>1. PauseInv => PauseReachesTranscode
  <2> SUFFICES ASSUME PauseInv, pc = "run", paused, \A u \in Users : upc[u] = "idle"
               PROVE  seg \in tsPaused
    BY DEF PauseReachesTranscode
  <2>1. \A u \in Users : upc[u] # "callPause"
    OBVIOUS
  <2>2. QED
    BY <2>1 DEF PauseInv
<1>2. NoPlayAgainstSeek /\ CaptionsReachThePicture /\ PauseReachesTranscode
      => SegmentFollowsSession
  BY DEF SegmentFollowsSession
<1>3. QED
  BY <1>1, <1>2, PauseInvHolds, SeeksStopTheSegment, CaptionsAreBurned, PTL

------------------------------------------------------------------------------
(* Positions *)

\* Resume moves startedAt by exactly the length of the pause, whatever the clock, the
\* duration and the other handlers do.
THEOREM ResumesKeepThePosition == Spec => ResumeKeepsPosition
<1>1. TypeOK /\ [Next]_vars
      => [pc = "run" /\ paused /\ ~paused' /\ ~ctxDone' => Position' = Position]_vars
  <2> SUFFICES ASSUME TypeOK, Next, pc = "run", paused, ~paused', ~ctxDone'
               PROVE  Position' = Position
    BY DEF vars
  <2> USE DEF loopVars, pauseVars, seekVars, At
  <2>1. PICK u \in Users : Resume(u)
    <3>1. ~RunLoop
      BY DEF RunLoop, NextUrl, CreateSource, ArmSegment, CheckPendingSeek, StartTranscode,
             PublishSegment, ReadPaused, ApplyPaused, TakeSeek, QualityFallback
    <3>2. ~(SegmentEnds \/ Probe \/ Seek \/ CancelStream \/ Tick)
      BY DEF SegmentEnds, Probe, Seek, CancelStream, Tick
    <3>3. ASSUME NEW u \in Users
          PROVE  ~(Pause(u) \/ SetCaptions(u) \/ Handler(u))
      BY DEF Pause, SetCaptions, Handler, CallPause, CallResume, RestartAtCurrentPosition
    <3>4. QED
      BY <3>1, <3>2, <3>3 DEF Next
  <2>2. UNCHANGED <<now, probed>> /\ ~paused' /\ now \in Int
    BY <2>1 DEF Resume, TypeOK
  <2>3. CASE pausedAt = Never
    BY <2>1, <2>2, <2>3 DEF Resume, Position
  <2>4. CASE pausedAt # Never
    <3>1. startedAt' = startedAt + now - pausedAt
      BY <2>1, <2>4 DEF Resume
    <3>2. startedAt \in Int /\ pausedAt \in Int
      BY <2>4 DEF TypeOK
    <3>3. now - startedAt' = pausedAt - startedAt
      BY <2>2, <3>1, <3>2
    <3>4. QED
      BY <2>2, <2>4, <3>3 DEF Position
  <2>5. QED
    BY <2>3, <2>4
<1>2. QED
  BY <1>1, ProgressiveTypeCorrect, PTL DEF Spec, ResumeKeepsPosition

==============================================================================
