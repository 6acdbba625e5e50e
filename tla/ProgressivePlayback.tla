------------------------- MODULE ProgressivePlayback -------------------------
(***************************************************************************)
(* One progressive stream between the start of its run loop and its end:   *)
(* playProgressive cuts it into segments, each a fresh download and a      *)
(* fresh transcode, and the users' Seek, Pause, Resume, SetCaptions and    *)
(* Stop act on the session while it does.                                  *)
(*                                                                         *)
(* Only pendingSeek and segmentCancel are behind Session.seekMu.  Paused,  *)
(* startedAt, pausedAt, transcodePause/Resume and Captions are plain       *)
(* fields, so Pause, Resume and SetCaptions are two steps each: what they  *)
(* write first, and the call or the seek they make after it.               *)
(***************************************************************************)
EXTENDS Integers

CONSTANTS
    Users,          \* goroutines of interaction handlers
    Qualities,      \* number of ranked quality URLs
    Duration,       \* length of the media
    MaxTime,        \* bound: clock ticks
    MaxSeeks        \* bound: accepted seeks, those of SetCaptions included

ASSUME QualitiesAssumption == Qualities \in Nat \ {0}
ASSUME DurationAssumption == Duration \in Nat

Never == -1         \* the zero time, and no pending seek
SeekMargin == 2     \* Seek keeps two seconds of media

VARIABLES
    pc,             \* where the run loop is
    seg,            \* number of the current segment
    offset,         \* playProgressive's offset
    quality,        \* playProgressive's qualityAttempt
    outcome,        \* how the last segment ended: "eof", "play" or "trans"
    burned,         \* the caption setting the segment was started with
    ctxDone,        \* the context of the run loop is cancelled
    cancelled,      \* the segments whose context is cancelled
    paused, startedAt, pausedAt, captions,   \* fields of the session
    tsPaused,       \* the transcode sessions that are paused
    transcode,      \* whose Pause and Resume the session holds, 0 for nil
    pendingSeek, segmentCancel, probed,
    now, seeks,
    upc             \* what each user's handler still has to call

loopVars == <<pc, seg, offset, quality, outcome, burned>>
pauseVars == <<paused, pausedAt, tsPaused>>
seekVars == <<pendingSeek, segmentCancel, cancelled, seeks>>
vars == <<loopVars, ctxDone, pauseVars, startedAt, captions, transcode,
          seekVars, probed, now, upc>>

TypeOK ==
    /\ pc \in {"top", "create", "arm", "check", "start", "publish", "pauseRead",
               "pauseApply", "run", "take", "fallback", "over"}
    /\ seg \in Nat /\ transcode \in Nat /\ segmentCancel \in Nat
    /\ cancelled \subseteq Nat /\ tsPaused \subseteq Nat
    /\ quality \in Nat /\ quality < Qualities
    /\ outcome \in {"none", "eof", "play", "trans"}
    /\ burned \in BOOLEAN /\ ctxDone \in BOOLEAN /\ paused \in BOOLEAN
    /\ captions \in BOOLEAN /\ probed \in BOOLEAN
    /\ offset \in Nat /\ pendingSeek \in Nat \cup {Never}
    /\ startedAt \in Int /\ pausedAt \in Nat \cup {Never}
    /\ now \in Nat /\ seeks \in Nat
    /\ upc \in [Users -> {"idle", "callPause", "callResume", "callSeek"}]

\* Play has set startedAt, and runLoop has entered stream().
Init ==
    /\ pc = "top" /\ seg = 0 /\ offset = 0 /\ quality = 0 /\ outcome = "none"
    /\ burned = FALSE /\ ctxDone = FALSE /\ cancelled = {}
    /\ paused = FALSE /\ startedAt = 0 /\ pausedAt = Never /\ captions = FALSE
    /\ tsPaused = {} /\ transcode = 0
    /\ pendingSeek = Never /\ segmentCancel = 0 /\ probed = FALSE
    /\ now = 0 /\ seeks = 0
    /\ upc = [u \in Users |-> "idle"]

Stopped(s) == ctxDone \/ s \in cancelled

\* positionMs: frozen while paused, never beyond a known duration.
Position ==
    LET elapsed == (IF paused /\ pausedAt # Never THEN pausedAt ELSE now) - startedAt
    IN  IF probed /\ elapsed > Duration THEN Duration ELSE elapsed

------------------------------------------------------------------------------
(* The run loop: playProgressive and runSegment *)

At(from, to) == pc = from /\ pc' = to

\* The context check and playbackURLForAttempt.
NextUrl ==
    /\ \/ ~ctxDone /\ At("top", "create")
       \/ At("top", "over")
    /\ UNCHANGED <<seg, offset, quality, outcome, burned, ctxDone, pauseVars,
                   startedAt, captions, transcode, seekVars, probed, now, upc>>

\* source.Create opens the URL or gives up.
CreateSource ==
    /\ At("create", "arm") \/ At("create", "over")
    /\ UNCHANGED <<seg, offset, quality, outcome, burned, ctxDone, pauseVars,
                   startedAt, captions, transcode, seekVars, probed, now, upc>>

\* setSegmentCancel, under seekMu.  Nobody holds the last segment's context.
ArmSegment ==
    /\ At("arm", "check")
    /\ seg' = seg + 1
    /\ segmentCancel' = seg + 1 /\ cancelled' = {}
    /\ UNCHANGED <<offset, quality, outcome, burned, ctxDone, pauseVars, startedAt,
                   captions, transcode, pendingSeek, seeks, probed, now, upc>>

\* Mutant of CheckPendingSeek: a seek between two segments is not looked for.
SkipPendingCheck ==
    /\ At("check", "start")
    /\ UNCHANGED <<seg, offset, quality, outcome, burned, ctxDone, pauseVars, startedAt,
                   captions, transcode, seekVars, probed, now, upc>>

\* seekPending, under seekMu.
CheckPendingSeek ==
    /\ At("check", "start")
    /\ cancelled' = IF pendingSeek # Never THEN cancelled \cup {seg} ELSE cancelled
    /\ UNCHANGED <<seg, offset, quality, outcome, burned, ctxDone, pauseVars, startedAt,
                   captions, transcode, pendingSeek, segmentCancel, seeks, probed, now, upc>>

\* The caption track is read and transcode.Start called; it refuses a cancelled
\* context and may fail besides.
StartTranscode ==
    /\ \/ ~Stopped(seg) /\ At("start", "publish") /\ UNCHANGED outcome
       \/ At("start", "take") /\ outcome' = "play"
    /\ burned' = captions
    /\ UNCHANGED <<seg, offset, quality, ctxDone, pauseVars, startedAt, captions,
                   transcode, seekVars, probed, now, upc>>

\* The session learns how to pause this segment, and where it starts; nobody
\* can reach the last transcode any more.
PublishSegment ==
    /\ At("publish", "pauseRead")
    /\ transcode' = seg /\ tsPaused' = {}
    /\ startedAt' = now - offset
    /\ UNCHANGED <<seg, offset, quality, outcome, burned, ctxDone, paused, pausedAt,
                   captions, seekVars, probed, now, upc>>

\* Mutant of ReadPaused: a new segment starts playing whatever Paused says.
ForgetPause ==
    /\ At("pauseRead", "run")
    /\ UNCHANGED <<seg, offset, quality, outcome, burned, ctxDone, pauseVars,
                   startedAt, captions, transcode, seekVars, probed, now, upc>>

\* The session is still paused: so is the new segment, from now on.
ReadPaused ==
    /\ \/ paused /\ At("pauseRead", "pauseApply") /\ pausedAt' = now
       \/ ~paused /\ At("pauseRead", "run") /\ UNCHANGED pausedAt
    /\ UNCHANGED <<seg, offset, quality, outcome, burned, ctxDone, paused, tsPaused,
                   startedAt, captions, transcode, seekVars, probed, now, upc>>

ApplyPaused ==
    /\ At("pauseApply", "run")
    /\ tsPaused' = tsPaused \cup {seg}
    /\ UNCHANGED <<seg, offset, quality, outcome, burned, ctxDone, paused, pausedAt,
                   startedAt, captions, transcode, seekVars, probed, now, upc>>

\* SupplyCTAs reports the probed duration while the segment opens.
Probe ==
    /\ pc = "run" /\ ~probed /\ probed' = TRUE
    /\ UNCHANGED <<loopVars, ctxDone, pauseVars, startedAt, captions, transcode,
                   seekVars, now, upc>>

\* Mutant of SegmentEnds: a paused transcode does not notice that it is cancelled.
PausedOutlivesCancel ==
    /\ At("run", "take") /\ seg \notin tsPaused
    /\ outcome' \in {"eof", "play", "trans"}
    /\ UNCHANGED <<seg, offset, quality, burned, ctxDone, pauseVars, startedAt, captions,
                   transcode, seekVars, probed, now, upc>>

\* playback.Run returns: at the end of the media, on a failure of the sender or
\* of the transcode, or because the segment was cancelled.  A paused transcode
\* emits nothing and does not end by itself.
SegmentEnds ==
    /\ At("run", "take")
    /\ \/ Stopped(seg) /\ outcome' = "play"
       \/ ~Stopped(seg) /\ seg \notin tsPaused /\ outcome' \in {"eof", "play", "trans"}
    /\ UNCHANGED <<seg, offset, quality, burned, ctxDone, pauseVars, startedAt, captions,
                   transcode, seekVars, probed, now, upc>>

\* takeSeek, then the error checks: a pending seek outranks a failure.
TakeSeek ==
    /\ pendingSeek' = Never
    /\ \/ /\ pendingSeek # Never /\ ~ctxDone /\ At("take", "top")
          /\ offset' = pendingSeek
       \/ /\ pendingSeek = Never /\ ~ctxDone /\ outcome = "trans" /\ At("take", "fallback")
          /\ UNCHANGED offset
       \/ /\ ctxDone \/ (pendingSeek = Never /\ outcome # "trans")
          /\ At("take", "over")
          /\ UNCHANGED offset
    /\ UNCHANGED <<seg, quality, outcome, burned, ctxDone, pauseVars, startedAt, captions,
                   transcode, cancelled, segmentCancel, seeks, probed, now, upc>>

\* QualityURL(attempt + 1): the next quality is played from the start.
QualityFallback ==
    /\ \/ /\ quality + 1 < Qualities /\ At("fallback", "top")
          /\ quality' = quality + 1 /\ offset' = 0
       \/ At("fallback", "over") /\ UNCHANGED <<quality, offset>>
    /\ UNCHANGED <<seg, outcome, burned, ctxDone, pauseVars, startedAt, captions,
                   transcode, seekVars, probed, now, upc>>

------------------------------------------------------------------------------
(* The users *)

Min2(a, b) == IF a < b THEN a ELSE b
Max2(a, b) == IF a > b THEN a ELSE b

\* Mutant of SeekTo: the running segment is not cancelled.
SeekWithoutCancel(target) ==
    /\ pendingSeek' = Max2(target, 0)
    /\ UNCHANGED <<cancelled, segmentCancel>>

\* Seek, all of it under seekMu.
SeekTo(target) ==
    /\ pendingSeek' = IF probed THEN Min2(Max2(target, 0), Max2(Duration - SeekMargin, 0))
                      ELSE Max2(target, 0)
    /\ cancelled' = IF segmentCancel # 0 THEN cancelled \cup {segmentCancel} ELSE cancelled
    /\ UNCHANGED segmentCancel

Seek ==
    /\ pc # "over" /\ seeks < MaxSeeks /\ seeks' = seeks + 1
    /\ \E target \in {0, Duration - 1} : SeekTo(target)
    /\ UNCHANGED <<loopVars, ctxDone, pauseVars, startedAt, captions, transcode,
                   probed, now, upc>>

\* SetCaptions turns the track on or off (or to another file), then seeks to the current position.
SetCaptions(u) ==
    /\ pc # "over" /\ seeks < MaxSeeks /\ upc[u] = "idle"
    /\ captions' \in BOOLEAN /\ seeks' = seeks + 1
    /\ upc' = [upc EXCEPT ![u] = "callSeek"]
    /\ UNCHANGED <<loopVars, ctxDone, pauseVars, startedAt, transcode, pendingSeek,
                   segmentCancel, cancelled, probed, now>>

\* Mutant of RestartAtCurrentPosition: the new setting waits for the next segment.
NoRestart(u) ==
    /\ upc[u] = "callSeek" /\ upc' = [upc EXCEPT ![u] = "idle"]
    /\ UNCHANGED <<loopVars, ctxDone, pauseVars, startedAt, captions, transcode,
                   seekVars, probed, now>>

RestartAtCurrentPosition(u) ==
    /\ upc[u] = "callSeek" /\ upc' = [upc EXCEPT ![u] = "idle"]
    /\ \/ pc # "over" /\ SeekTo(Position)
       \/ pc = "over" /\ UNCHANGED <<pendingSeek, segmentCancel, cancelled>>
    /\ UNCHANGED <<seeks, loopVars, ctxDone, pauseVars, startedAt, captions, transcode,
                   probed, now>>

\* Pause up to the call of transcodePause, and that call.
Pause(u) ==
    /\ ~paused /\ pc # "over" /\ upc[u] = "idle"
    /\ paused' = TRUE /\ pausedAt' = now
    /\ upc' = [upc EXCEPT ![u] = "callPause"]
    /\ UNCHANGED <<loopVars, ctxDone, tsPaused, startedAt, captions, transcode,
                   seekVars, probed, now>>

CallPause(u) ==
    /\ upc[u] = "callPause" /\ upc' = [upc EXCEPT ![u] = "idle"]
    /\ tsPaused' = IF transcode = 0 THEN tsPaused ELSE tsPaused \cup {transcode}
    /\ UNCHANGED <<loopVars, ctxDone, paused, pausedAt, startedAt, captions, transcode,
                   seekVars, probed, now>>

\* Mutant of Resume: the start is not moved by the length of the pause.
ResumeWithoutShift(u) ==
    /\ paused /\ upc[u] = "idle"
    /\ paused' = FALSE /\ pausedAt' = Never
    /\ upc' = [upc EXCEPT ![u] = "callResume"]
    /\ UNCHANGED <<loopVars, ctxDone, tsPaused, startedAt, captions, transcode, seekVars,
                   probed, now>>

\* Resume up to the call of transcodeResume, and that call.
Resume(u) ==
    /\ paused /\ upc[u] = "idle"
    /\ startedAt' = IF pausedAt = Never THEN startedAt ELSE startedAt + now - pausedAt
    /\ paused' = FALSE /\ pausedAt' = Never
    /\ upc' = [upc EXCEPT ![u] = "callResume"]
    /\ UNCHANGED <<loopVars, ctxDone, tsPaused, captions, transcode, seekVars, probed, now>>

CallResume(u) ==
    /\ upc[u] = "callResume" /\ upc' = [upc EXCEPT ![u] = "idle"]
    /\ tsPaused' = tsPaused \ {transcode}
    /\ UNCHANGED <<loopVars, ctxDone, paused, pausedAt, startedAt, captions, transcode,
                   seekVars, probed, now>>

\* Pool.Stop also clears Paused; Swap and the voice-leave callback only cancel.
CancelStream ==
    /\ ~ctxDone /\ ctxDone' = TRUE
    /\ paused' \in {FALSE, paused}
    /\ UNCHANGED <<loopVars, pausedAt, tsPaused, startedAt, captions, transcode,
                   seekVars, probed, now, upc>>

Tick ==
    /\ now < MaxTime /\ now' = now + 1
    /\ UNCHANGED <<loopVars, ctxDone, pauseVars, startedAt, captions, transcode,
                   seekVars, probed, upc>>

------------------------------------------------------------------------------
RunLoop ==
    \/ NextUrl \/ CreateSource \/ ArmSegment \/ CheckPendingSeek \/ StartTranscode
    \/ PublishSegment \/ ReadPaused \/ ApplyPaused \/ TakeSeek \/ QualityFallback

Handler(u) == CallPause(u) \/ CallResume(u) \/ RestartAtCurrentPosition(u)

Next ==
    \/ RunLoop \/ SegmentEnds \/ Probe \/ Seek \/ CancelStream \/ Tick
    \/ \E u \in Users : Pause(u) \/ Resume(u) \/ SetCaptions(u) \/ Handler(u)

\* The run loop and the handlers are goroutines; a cancelled segment ends.  The
\* media need not end, and users need not act.
Fairness ==
    /\ WF_vars(RunLoop)
    /\ WF_vars(Stopped(seg) /\ SegmentEnds)
    /\ \A u \in Users : WF_vars(Handler(u))

Spec == Init /\ [][Next]_vars
FairSpec == Spec /\ Fairness

------------------------------------------------------------------------------
(* Properties *)

\* A segment never plays against a seek: whatever the order in which Seek and
\* the start of a segment interleave, one of them cancels the segment.
NoPlayAgainstSeek == pc = "run" /\ pendingSeek # Never => Stopped(seg)

\* Once SetCaptions is through, the segment that plays was started with the
\* caption setting the session shows.
CaptionsReachThePicture ==
    pc = "run" /\ ~Stopped(seg) /\ (\A u \in Users : upc[u] # "callSeek") => burned = captions

\* A pause is never lost between two segments: when no handler is at work, a
\* paused session plays nothing.
PauseReachesTranscode ==
    pc = "run" /\ paused /\ (\A u \in Users : upc[u] = "idle") => seg \in tsPaused

\* The segment that plays is the one the session asks for (runSegment).
SegmentFollowsSession == NoPlayAgainstSeek /\ CaptionsReachThePicture /\ PauseReachesTranscode

\* Resume continues from the position that pause froze.
ResumeKeepsPosition ==
    [][pc = "run" /\ paused /\ ~paused' /\ ~ctxDone' => Position' = Position]_vars

\* An accepted seek is carried out, unless the stream is over first.
SeekIsHonoured == pendingSeek # Never ~> (pendingSeek = Never \/ pc = "over")

\* A cancelled stream comes to its end, paused or not.
CancelEndsStream == ctxDone ~> pc = "over"

\* Seeks and stops get through, whatever the segment loop is doing.
RequestsTakeEffect == SeekIsHonoured /\ CancelEndsStream

\* "Playback has been resumed.": with no handler at work, a session that is not
\* paused has no paused transcode.
ResumeReachesTranscode ==
    pc = "run" /\ ~paused /\ ~ctxDone /\ (\A u \in Users : upc[u] = "idle")
    => seg \notin tsPaused

==============================================================================
