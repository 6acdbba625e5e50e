----------------------------- MODULE MC_Session -----------------------------
(* The session of a guild whose start requests come one after another (extended), and the
   sender that plays a segment of it (S). *)
EXTENDS PoolSession

CONSTANTS ChannelCap, MaxPackets, MaxPauses, MaxPause, MaxCards, MaxSegments

VARIABLES
    on,     \* which component runs in this behaviour
    \* sender: MediaSender
    s_seg, s_live, s_segCtx, s_runCtx, s_paused, s_last, s_epoch, s_npc, s_out,
    s_emitted, s_channel, s_pc, s_back, s_first, s_overdue, s_pauseEpoch, s_pauseSent,
    s_loadingSent, s_up, s_skew

S == INSTANCE MediaSender WITH
    seg <- s_seg, live <- s_live, segCtx <- s_segCtx,
    runCtx <- s_runCtx, paused <- s_paused, last <- s_last, epoch <- s_epoch,
    npc <- s_npc, out <- s_out, emitted <- s_emitted, channel <- s_channel, pc <- s_pc,
    back <- s_back, first <- s_first, overdue <- s_overdue, pauseEpoch <- s_pauseEpoch,
    pauseSent <- s_pauseSent, loadingSent <- s_loadingSent, up <- s_up, skew <- s_skew

ASSUME SenderAssumed == S!SenderAssumption

sVars ==
    <<s_seg, s_live, s_segCtx, s_runCtx, s_paused, s_last, s_epoch, s_npc, s_out,
    s_emitted, s_channel, s_pc, s_back, s_first, s_overdue, s_pauseEpoch, s_pauseSent,
    s_loadingSent, s_up, s_skew>>
allVars == <<on, vars, sVars>>

\* A component that does not run stays in one of its initial states.
SumInit ==
    /\ on \in {"ordered", "sender"}
    /\ Init
    /\ on = "sender" \/ (s_live = FALSE)
    /\ S!Init

SumNext ==
    \/ on = "ordered" /\ Next /\ UNCHANGED <<on, sVars>>
    \/ on = "sender" /\ S!Next /\ UNCHANGED <<on, vars>>

SumFairness ==
    /\ WF_sVars(on = "sender" /\ S!NativeStep)
    /\ WF_sVars(on = "sender" /\ (S!CardStep \/ S!PumpStep("video")))
    /\ WF_sVars(on = "sender" /\ S!PumpStep("audio"))
    /\ WF_sVars(on = "sender" /\ S!Starved)
    /\ SF_sVars(on = "sender" /\ S!LiveTimeout)
    /\ WF_sVars(on = "sender" /\ S!RunOver /\ S!CancelSegment)

SumSpec == SumInit /\ [][SumNext]_allVars /\ SumFairness

------------------------------------------------------------------------------
(* Properties of the components that are not extended. *)

\* Whatever the order in which the pumps send cards, count them and settle pauses, the
\* video is ahead of the audio by exactly the cards not settled yet (mediaSender).
DebtsAreKept == S!DebtsAreKept

\* The native handle is not freed under a card that is being encoded (nativeState).
CardUsesLiveHandle == S!CardUsesLiveHandle

\* A segment that is cancelled, or whose Run is over, ends its pumps and its native
\* thread, even one blocked on a full channel or in a pause (streamlyTranscodeEmit); and a
\* live stream that gets no more pictures is cut, so that the pool reconnects, unless it is
\* paused or has no peer to show the loading card to (nextPacket).
SenderThreadsEnd == S!CancelEndsThreads /\ S!StarvedLiveIsCut
==============================================================================
