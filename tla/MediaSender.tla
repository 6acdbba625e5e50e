------------------------------ MODULE MediaSender ------------------------------
(***************************************************************************)
(* The sender of one stream: the native transcode thread emits packets     *)
(* into two bounded channels, a video and an audio pump take them out,     *)
(* pace them and hand them to the WebRTC peer.  While the segment is       *)
(* paused, or the video channel is dry, the video pump sends a card in     *)
(* place of frames; both pumps settle the debt of a pause afterwards.      *)
(*                                                                         *)
(* Time is left out: a card is worth 1, a pause lasts 1..MaxPause, and a   *)
(* timer may fire whenever the code waits on it.  Left out as well are     *)
(* what a picture refers to (dropToIDR) and a second peer: once the peer   *)
(* is closed, it stays so.  skew is how much further cards and holds have  *)
(* moved the RTP clock of the video than that of the audio.                *)
(***************************************************************************)
EXTENDS Integers

CONSTANTS
    ChannelCap,             \* capacity of the packet channels
    MaxPackets,             \* bound: packets, over all segments
    MaxPauses, MaxPause,    \* bounds: pauses of a segment, length of a pause
    MaxCards,               \* bound: cards that are not settled
    MaxSegments             \* bound

SenderAssumption ==
    /\ {ChannelCap, MaxPause, MaxSegments} \subseteq Nat \ {0}
    /\ {MaxPackets, MaxPauses, MaxCards} \subseteq Nat

Kinds == {"video", "audio"}

VARIABLES
    seg, live, segCtx, runCtx,      \* segment; its context, and run's, cancelled
    paused, last, epoch,            \* pauseState
    npc, out, emitted,              \* the native thread, its packet
    channel,                        \* packets in the channel of each kind
    pc,                             \* the pumps
    back,                           \* where the video pump goes after a card
    first, overdue,                 \* lastVideoPTSMs < 0; loadingDeadline is set
    pauseEpoch, pauseSent, loadingSent,
    up, skew                        \* the peer is open; its clocks

segVars == <<seg, live>>
ctxVars == <<segCtx, runCtx>>
pauseVars == <<paused, last, epoch>>
nativeVars == <<npc, out, emitted>>
waitVars == <<back, first, overdue>>
debtVars == <<pauseEpoch, pauseSent, loadingSent>>
vars == <<segVars, ctxVars, pauseVars, nativeVars, channel, pc, waitVars, debtVars, up, skew>>

Cancelled == segCtx \/ runCtx
Closed == npc \in {"closed", "done"}    \* the channels are closed
RunOver == \A k \in Kinds : pc[k] = "done"
At(k, from, to) == pc[k] = from /\ pc' = [pc EXCEPT ![k] = to]

TypeOK ==
    /\ seg \in 1..MaxSegments /\ live \in BOOLEAN
    /\ segCtx \in BOOLEAN /\ runCtx \in BOOLEAN
    /\ paused \in BOOLEAN /\ last \in 0..MaxPause /\ epoch \in 0..MaxPauses
    /\ npc \in {"read", "put", "closed", "done"} /\ out \in Kinds
    /\ emitted \in 0..MaxPackets /\ channel \in [Kinds -> 0..ChannelCap]
    /\ pc["audio"] \in {"hold1", "next", "hold2", "clock", "done"}
    /\ pc["video"] \in {"hold1", "next", "hold2", "clock", "done", "card", "encode",
                        "cardPeer", "cardCount", "cardWait"}
    /\ DOMAIN pc = Kinds
    /\ back \in {"next", "hold1", "hold2"} /\ first \in BOOLEAN /\ overdue \in BOOLEAN
    /\ pauseEpoch \in 0..MaxPauses /\ pauseSent \in Nat /\ loadingSent \in Nat
    /\ up \in BOOLEAN /\ skew \in Int

\* OpenPlayback has resolved the peer, and Run has begun the first segment.
Init ==
    /\ seg = 1 /\ live \in BOOLEAN /\ segCtx = FALSE /\ runCtx = FALSE
    /\ paused = FALSE /\ last = 0 /\ epoch = 0
    /\ npc = "read" /\ out = "video" /\ emitted = 0
    /\ channel = [k \in Kinds |-> 0] /\ pc = [k \in Kinds |-> "hold1"]
    /\ back = "next" /\ first = TRUE /\ overdue = FALSE
    /\ pauseEpoch = 0 /\ pauseSent = 0 /\ loadingSent = 0
    /\ up = TRUE /\ skew = 0

------------------------------------------------------------------------------
(* The session's pauseState, and the context of the segment *)

Pause ==
    /\ ~paused /\ epoch < MaxPauses /\ npc # "done"
    /\ paused' = TRUE
    /\ UNCHANGED <<segVars, ctxVars, last, epoch, nativeVars, channel, pc, waitVars,
                   debtVars, up, skew>>

Resume ==
    /\ paused
    /\ paused' = FALSE /\ last' \in 1..MaxPause /\ epoch' = epoch + 1
    /\ UNCHANGED <<segVars, ctxVars, nativeVars, channel, pc, waitVars, debtVars, up, skew>>

\* A seek, a stop, or the five seconds runSegment waits for Done once Run is over.
CancelSegment ==
    /\ ~segCtx /\ ~(RunOver /\ npc = "done")
    /\ segCtx' = TRUE
    /\ UNCHANGED <<segVars, runCtx, pauseVars, nativeVars, channel, pc, waitVars, debtVars,
                   up, skew>>

------------------------------------------------------------------------------
(* The native thread, the goroutine that joins it and the one that aborts it *)

\* libav has a packet for streamlyTranscodeEmit, which waits out a pause: that is how
\* libav is paused.  A source may stall for ever.
NativePacket(k) ==
    /\ npc = "read" /\ ~paused /\ emitted < MaxPackets
    /\ npc' = "put" /\ out' = k /\ emitted' = emitted + 1
    /\ UNCHANGED <<segVars, ctxVars, pauseVars, channel, pc, waitVars, debtVars, up, skew>>

PutPacket == channel[out] < ChannelCap /\ channel' = [channel EXCEPT ![out] = @ + 1]

\* Mutant of EmitPuts: the thread waits for room in the channel alone.
EmitOnlyPuts ==
    /\ npc = "put" /\ npc' = "read" /\ out' = "video" /\ PutPacket
    /\ UNCHANGED <<segVars, ctxVars, pauseVars, emitted, pc, waitVars, debtVars, up, skew>>

\* The select of streamlyTranscodeEmit: room in the channel, or the context.
EmitPuts ==
    /\ npc = "put" /\ npc' = "read" /\ out' = "video"
    /\ PutPacket \/ (segCtx /\ UNCHANGED channel)
    /\ UNCHANGED <<segVars, ctxVars, pauseVars, emitted, pc, waitVars, debtVars, up, skew>>

\* End of input, or an error: transcode_join returns and the channels are closed.
NativeEnds ==
    /\ npc = "read" /\ npc' = "closed"
    /\ UNCHANGED <<segVars, ctxVars, pauseVars, out, emitted, channel, pc, waitVars,
                   debtVars, up, skew>>

\* The goroutine that waits for the context sets the abort flag, under abortMu, and the
\* thread finds it set.
NativeAborts == segCtx /\ NativeEnds

\* Mutant of FreeHandle: release does not wait for the mutex of nativeState.
FreeAtOnce ==
    /\ npc = "closed" /\ npc' = "done"
    /\ UNCHANGED <<segVars, ctxVars, pauseVars, out, emitted, channel, pc, waitVars,
                   debtVars, up, skew>>

\* release takes the mutex that encodePauseFrame holds; then transcode_free, the abort
\* flag freed and cleared, and done.
FreeHandle ==
    /\ npc = "closed" /\ pc["video"] # "encode" /\ npc' = "done"
    /\ UNCHANGED <<segVars, ctxVars, pauseVars, out, emitted, channel, pc, waitVars,
                   debtVars, up, skew>>

------------------------------------------------------------------------------
(* What both pumps do.  applySegmentGap is left out: it moves both RTP clocks by the
   same gap. *)

\* Mutant of SettlePause: the overshoot of the cards is not folded into the audio.
SettleWithoutOvershoot ==
    /\ pauseEpoch' = epoch /\ last' = 0
    /\ pauseSent' = IF epoch = pauseEpoch THEN pauseSent ELSE 0
    /\ skew' = IF epoch # pauseEpoch /\ up
               THEN skew - (IF pauseSent < last THEN pauseSent ELSE last) ELSE skew
    /\ UNCHANGED <<loadingSent, paused, epoch>>

\* applyPauseEvent: the video moves on by what the cards left of the pause, the
\* audio by all of it and by what the cards overshot.  last is not read again.
SettlePause ==
    LET videoGap == IF last > pauseSent THEN last - pauseSent ELSE 0
        audioGap == IF last > pauseSent THEN last ELSE last + (pauseSent - last)
    IN  /\ pauseEpoch' = epoch /\ last' = 0
        /\ pauseSent' = IF epoch = pauseEpoch THEN pauseSent ELSE 0
        /\ skew' = IF epoch # pauseEpoch /\ up THEN skew + videoGap - audioGap ELSE skew
        /\ UNCHANGED <<loadingSent, paused, epoch>>

\* applyLoadingHold: the audio moves on by the loading cards.
SettleLoading ==
    /\ skew' = skew - loadingSent /\ loadingSent' = 0
    /\ UNCHANGED <<pauseEpoch, pauseSent>>

\* A pump leaves holdWhilePaused and settles what it waited for.
Hold(k) ==
    /\ ~paused /\ ~Cancelled
    /\ At(k, "hold1", "next") \/ At(k, "hold2", "clock")
    /\ SettlePause
    /\ UNCHANGED <<segVars, ctxVars, nativeVars, channel, waitVars, up>>

\* nextPacket: a packet, or the end of the channel.
Take(k) ==
    /\ \/ channel[k] > 0 /\ At(k, "next", "hold2")
          /\ channel' = [channel EXCEPT ![k] = @ - 1]
       \/ channel[k] = 0 /\ Closed /\ At(k, "next", "done") /\ UNCHANGED channel
    /\ overdue' = (overdue /\ k # "video")
    /\ UNCHANGED <<segVars, ctxVars, pauseVars, nativeVars, back, first, debtVars, up, skew>>

\* The context ends what the pump waits for, and run cancels the other pump.
Fail(k) ==
    /\ Cancelled /\ pc[k] \in {"hold1", "hold2", "next", "clock"}
    /\ pc[k] \in {"hold1", "hold2"} => ~paused \/ k = "audio"
    /\ pc' = [pc EXCEPT ![k] = "done"] /\ runCtx' = TRUE
    /\ UNCHANGED <<segVars, segCtx, pauseVars, nativeVars, channel, waitVars, debtVars,
                   up, skew>>

\* clock.wait, resolvePeer, which waits for an open peer, and the packet is sent.  A late
\* audio packet shifts the shared clock, which is left out with the time.
Send(k) ==
    /\ up /\ At(k, "clock", "hold1") /\ SettleLoading
    /\ first' = (first /\ k # "video")
    /\ UNCHANGED <<segVars, ctxVars, pauseVars, nativeVars, channel, back, overdue, up>>

------------------------------------------------------------------------------
(* The cards of the video pump: back is "next" for a loading card *)

\* holdWhilePaused: a card while the transcode is paused.
PausedVideo ==
    /\ paused /\ (At("video", "hold1", "card") \/ At("video", "hold2", "card"))
    /\ back' = pc["video"]
    /\ UNCHANGED <<segVars, ctxVars, pauseVars, nativeVars, channel, first, overdue,
                   debtVars, up, skew>>

\* nextPacket: the channel was dry for bufferHoldThreshold or pauseFrameInterval.
Starved ==
    /\ At("video", "next", "card") /\ ~first
    /\ channel["video"] = 0 /\ ~Closed /\ ~Cancelled
    /\ back' = "next" /\ overdue' = (overdue \/ live)
    /\ UNCHANGED <<segVars, ctxVars, pauseVars, nativeVars, channel, first, debtVars,
                   up, skew>>

\* Mutant of LiveTimeout: the deadline of the first picture cuts nothing.
LiveTimeoutOnceShown ==
    /\ live /\ overdue /\ channel["video"] = 0 /\ At("video", "next", "done")
    /\ segCtx' = TRUE /\ runCtx' = TRUE
    /\ UNCHANGED <<segVars, pauseVars, nativeVars, channel, waitVars, debtVars, up, skew>>

\* liveStartupFrameTimeout and liveLoadingTimeout cancel the segment.
LiveTimeout ==
    /\ live /\ (first \/ overdue) /\ channel["video"] = 0 /\ At("video", "next", "done")
    /\ segCtx' = TRUE /\ runCtx' = TRUE
    /\ UNCHANGED <<segVars, pauseVars, nativeVars, channel, waitVars, debtVars, up, skew>>

CardIsWanted == (back = "next" \/ paused) /\ pauseSent + loadingSent < MaxCards

\* PauseFrame and LoadingFrame: the card, or the failure, cached for the epoch, or a new
\* one.  What is cached is left open.
LookUpCard ==
    /\ \/ CardIsWanted /\ At("video", "card", "cardPeer")
       \/ CardIsWanted /\ npc # "done" /\ At("video", "card", "encode")
       \/ At("video", "card", "cardWait")
    /\ UNCHANGED <<segVars, ctxVars, pauseVars, nativeVars, channel, waitVars, debtVars,
                   up, skew>>

\* encodePauseFrame, under the mutex of nativeState.
EncodeCard ==
    /\ At("video", "encode", "cardPeer") \/ At("video", "encode", "cardWait")
    /\ UNCHANGED <<segVars, ctxVars, pauseVars, nativeVars, channel, waitVars, debtVars,
                   up, skew>>

\* resolvePeer and sendVideo of the card, before it is counted.
SendCard ==
    /\ \/ up /\ At("video", "cardPeer", "cardCount") /\ skew' = skew + 1
       \/ Cancelled /\ At("video", "cardPeer", "cardWait") /\ UNCHANGED skew
    /\ UNCHANGED <<segVars, ctxVars, pauseVars, nativeVars, channel, waitVars, debtVars, up>>

\* The tails of sendPauseFrame and sendLoadingFrame, under pauseMu.
CountCard ==
    /\ At("video", "cardCount", "cardWait")
    /\ IF back = "next" THEN loadingSent' = loadingSent + 1 /\ UNCHANGED pauseSent
                        ELSE pauseSent' = pauseSent + 1 /\ UNCHANGED loadingSent
    /\ UNCHANGED <<segVars, ctxVars, pauseVars, nativeVars, channel, waitVars, pauseEpoch,
                   up, skew>>

\* The select after a card: the interval, or the context.
CardWait ==
    /\ \/ (back = "next" \/ ~Cancelled) /\ At("video", "cardWait", back) /\ UNCHANGED runCtx
       \/ back # "next" /\ Cancelled /\ At("video", "cardWait", "done") /\ runCtx' = TRUE
    /\ back' = "next"
    /\ UNCHANGED <<segVars, segCtx, pauseVars, nativeVars, channel, first, overdue,
                   debtVars, up, skew>>

------------------------------------------------------------------------------
(* The media gateway and the run loop around the sender *)

PeerCloses ==
    /\ up /\ up' = FALSE
    /\ UNCHANGED <<segVars, ctxVars, pauseVars, nativeVars, channel, pc, waitVars, debtVars,
                   skew>>

\* beginSegment, with the next transcode; the pool waited for the last one.
BeginSegment ==
    /\ RunOver /\ npc = "done" /\ seg < MaxSegments
    /\ seg' = seg + 1 /\ segCtx' = FALSE /\ runCtx' = FALSE
    /\ paused' = FALSE /\ last' = 0 /\ epoch' = 0
    /\ npc' = "read" /\ out' = "video"
    /\ channel' = [k \in Kinds |-> 0] /\ pc' = [k \in Kinds |-> "hold1"]
    /\ back' = "next" /\ first' = TRUE /\ overdue' = FALSE
    /\ pauseEpoch' = 0
    /\ UNCHANGED <<live, emitted, pauseSent, loadingSent, up, skew>>

NativeStep == EmitPuts \/ NativeAborts \/ FreeHandle
PumpStep(k) == Hold(k) \/ Take(k) \/ Fail(k) \/ Send(k)
CardStep == PausedVideo \/ LookUpCard \/ EncodeCard \/ SendCard \/ CountCard \/ CardWait

Next ==
    \/ Pause \/ Resume \/ CancelSegment
    \/ \E k \in Kinds : NativePacket(k) \/ PumpStep(k)
    \/ NativeStep \/ NativeEnds
    \/ CardStep \/ Starved \/ LiveTimeout
    \/ PeerCloses \/ BeginSegment

Spec == Init /\ [][Next]_vars

\* The goroutines and the timers run, also the one that waits five seconds for Done once
\* Run is over; users, sources and peers need not.
Fairness ==
    /\ WF_vars(NativeStep)
    /\ WF_vars(CardStep \/ PumpStep("video")) /\ WF_vars(PumpStep("audio"))
    /\ WF_vars(Starved) /\ SF_vars(LiveTimeout)
    /\ WF_vars(RunOver /\ CancelSegment)

FairSpec == Spec /\ Fairness

------------------------------------------------------------------------------
(* Properties *)

CardsOwed == pauseSent + loadingSent + (IF pc["video"] = "cardCount" THEN 1 ELSE 0)

\* Whatever the order in which the pumps send cards, count them and settle pauses, the
\* video is ahead of the audio by exactly the cards not settled yet: none is settled
\* twice and none is forgotten, across segments too (mediaSender, play.go).
DebtsAreKept == up => skew = CardsOwed

\* The native handle is not freed under a card that is being encoded (nativeState).
CardUsesLiveHandle == pc["video"] = "encode" => npc # "done"

\* A segment that is cancelled, or whose Run is over, ends its pumps and its native
\* thread, even one blocked on a full channel or in a pause (streamlyTranscodeEmit).
CancelEndsThreads == (segCtx \/ RunOver) ~> (RunOver /\ npc = "done")

\* A live stream that gets no more pictures is cut, so that the pool reconnects, unless
\* it is paused or has no peer to show the loading card to (nextPacket).
StarvedLiveIsCut ==
    (live /\ channel["video"] = 0)
        ~> (segCtx \/ channel["video"] > 0 \/ paused \/ ~up \/ Closed)

\* "pauseSent already advanced video RTP; fold any overshoot into audio so both tracks
\* stay aligned" (play.go): with no pause under way or to settle, no card is left over
\* when a picture is sent.
TracksStayAligned ==
    [][Send("video") /\ ~paused /\ pauseEpoch = epoch => pauseSent = 0]_vars
==============================================================================
