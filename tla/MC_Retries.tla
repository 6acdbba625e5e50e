----------------------------- MODULE MC_Retries -----------------------------
(* What times out, retries or starts again: the HLS loops (extended), the resumable
   download (D), the gateway of the user account (B), and the session of a guild with two
   requests that overlap at every step and teardowns that outlast the timeout of Swap
   (O). *)
EXTENDS HlsPlayback

CONSTANTS Callers, MaxStreams, N, MaxDownloadRetries, MaxSeeks, MaxGateways, MaxPackets

VARIABLES
    on,     \* which component runs in this behaviour
    \* overlap: PoolSession
    o_busy, o_stopRequested, o_swapping, o_controller, o_request, o_loopDone, o_voice,
    o_onVoiceLeave, o_onAir, o_cancelled, o_closed, o_report, o_started, o_pc, o_mine,
    o_waitOn, o_loop, o_result, o_done,
    \* source: MediaSource
    d_pc, d_caller, d_offset, d_size, d_body, d_fresh, d_retries, d_ctxDone,
    d_destroyed, d_result, d_seeks,
    \* selfbot: SelfbotGateway
    b_pc, b_current, b_ctx, b_reconnecting, b_saved, b_conn, b_reader, b_heart, b_asked,
    b_sessionID, b_identified, b_silent, b_undecoded, b_packets, b_crashed

O == INSTANCE PoolSession WITH
    OverlapStarts <- TRUE, SlowTeardown <- TRUE,
    busy <- o_busy, stopRequested <- o_stopRequested, swapping <- o_swapping,
    controller <- o_controller, request <- o_request, loopDone <- o_loopDone,
    voice <- o_voice, onVoiceLeave <- o_onVoiceLeave, onAir <- o_onAir,
    cancelled <- o_cancelled, closed <- o_closed, report <- o_report,
    started <- o_started, pc <- o_pc, mine <- o_mine, waitOn <- o_waitOn,
    loop <- o_loop, result <- o_result, done <- o_done

D == INSTANCE MediaSource WITH
    MaxRetries <- MaxDownloadRetries, pc <- d_pc, caller <- d_caller,
    offset <- d_offset, size <- d_size, body <- d_body, fresh <- d_fresh,
    retries <- d_retries, ctxDone <- d_ctxDone, destroyed <- d_destroyed,
    result <- d_result, seeks <- d_seeks

B == INSTANCE SelfbotGateway WITH
    pc <- b_pc, current <- b_current, ctx <- b_ctx,
    reconnecting <- b_reconnecting, saved <- b_saved, conn <- b_conn,
    reader <- b_reader, heart <- b_heart, asked <- b_asked, sessionID <- b_sessionID,
    identified <- b_identified, silent <- b_silent, undecoded <- b_undecoded,
    packets <- b_packets, crashed <- b_crashed

ASSUME SourceAssumed == D!SourceAssumption
ASSUME SelfbotAssumed == B!GatewayAssumption
ASSUME StreamsAssumed == MaxStreams \in Nat \ {0}

oVars ==
    <<o_busy, o_stopRequested, o_swapping, o_controller, o_request, o_loopDone, o_voice,
    o_onVoiceLeave, o_onAir, o_cancelled, o_closed, o_report, o_started, o_pc, o_mine,
    o_waitOn, o_loop, o_result, o_done>>
dVars ==
    <<d_pc, d_caller, d_offset, d_size, d_body, d_fresh, d_retries, d_ctxDone,
    d_destroyed, d_result, d_seeks>>
bVars ==
    <<b_pc, b_current, b_ctx, b_reconnecting, b_saved, b_conn, b_reader, b_heart,
    b_asked, b_sessionID, b_identified, b_silent, b_undecoded, b_packets, b_crashed>>
allVars == <<on, vars, oVars, dVars, bVars>>

\* A component that does not run stays in one of its initial states.
SumInit ==
    /\ on \in {"hls", "overlap", "source", "selfbot"}
    /\ Init
    /\ on # "hls" => live /\ hasBackup
    /\ O!Init
    /\ D!Init
    /\ B!Init

SumNext ==
    \/ on = "hls" /\ Next /\ UNCHANGED <<on, oVars, dVars, bVars>>
    \/ on = "overlap" /\ O!Next /\ UNCHANGED <<on, vars, dVars, bVars>>
    \/ on = "source" /\ D!Next /\ UNCHANGED <<on, vars, oVars, bVars>>
    \/ on = "selfbot" /\ B!Next /\ UNCHANGED <<on, vars, oVars, dVars>>

SumFairness ==
    /\ WF_vars(on = "hls" /\ RunLoop)
    /\ WF_vars(on = "hls" /\ ctxDone /\ SegmentEnds)
    /\ \A c \in Callers : WF_oVars(on = "overlap" /\ O!CallerStep(c))
    /\ \A n \in O!Streams :
          /\ WF_oVars(on = "overlap" /\ O!LoopStep(n))
          /\ WF_oVars(on = "overlap" /\ n \in o_cancelled /\ O!StreamReturns(n))
    /\ WF_dVars(on = "source" /\ D!Progress)
    /\ WF_bVars(on = "selfbot" /\ B!Connect)
    /\ WF_bVars(on = "selfbot" /\ B!Maintain)
    /\ \A g \in B!Gateways :
          /\ WF_bVars(on = "selfbot" /\ (B!ReadNext(g) \/ B!ReaderLeaves(g) \/ B!ReadFailsClosed(g) \/ B!IdentifyAgain(g)))
          /\ WF_bVars(on = "selfbot" /\ (B!Beat(g) \/ B!Zombie(g)))

SumSpec == SumInit /\ [][SumNext]_allVars /\ SumFairness

------------------------------------------------------------------------------
(* Properties of the components that are not extended. *)

\* Whatever was dropped, resumed, re-resolved or seeked, the next byte of the body is the
\* one at offset, so libav never gets bytes of another position (source.go).
BodyIsAtOffset == D!BodyIsAtOffset

\* No server can hold the transcode thread: each Read and each Size returns, after at
\* most MaxRetries new attempts (the watchdogs of open, discard and readBody); and Read
\* reports the end of the file nowhere else, for a connection that is cut is resumed.
ReadReturns == D!ReadReturns /\ D!EofIsTheEnd

\* A gateway is replaced only once it is closed, so that the events of one account never
\* come from two sockets; the exception is one whose READY could not be decoded.
ReplacedIsClosed == B!ReplacedIsClosed

\* A connection on which Discord says nothing more is noticed at every stage, before HELLO
\* by the timeout of connect and afterwards by the heartbeat, and closed; and a lost gateway
\* is followed by another attempt, for maintainGateway never stops before the context ends.
SilentIsReplaced == B!SilentIsClosed /\ B!LostIsFollowed

\* A Busy session always has somebody who will release it or hand it on, so no guild is
\* locked out by a slot nobody owns, however requests, stops and timeouts interleave.
OverlapLeaksNoSlot == O!NoLeakedSlot

\* Swap never blocks its request for good, even behind a run loop that hangs (the two
\* requests are interchangeable), and a stop that finds the run loop's controller ends the
\* stream and its card.
OverlapRequestsEnd == O!SwapReturnsTo(CHOOSE c \in Callers : TRUE) /\ O!StopEndsStream
==============================================================================
