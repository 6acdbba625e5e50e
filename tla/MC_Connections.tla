--------------------------- MODULE MC_Connections ---------------------------
(* The connections to Discord that media go through: a media gateway (extended), and the
   voice and stream connections whose credentials its events bring (V), and the
   encryption of what a gateway sends (E). *)
EXTENDS MediaGateway

CONSTANTS
    Users, MaxEpochs, MaxTransitions, MaxAcks,      \* of DaveSession
    EventCap, MaxJoins, MaxStreams, MaxKicks        \* of StreamConnections

VARIABLES
    on,     \* which component runs in this behaviour
    \* dave: DaveSession
    e_protocolVersion, e_preparedTransitions, e_lastPreparedTransitionVersion,
    e_passthrough, e_ratchet, e_decryptors, e_sessionVersion, e_epoch, e_announced,
    e_pending, e_lastId, e_executed, e_acks, e_sent,
    \* connections: StreamConnections
    v_pc, v_voice, v_joins, v_session, v_voiceToken, v_callback, v_told, v_stream,
    v_streams, v_rtcServerID, v_token, v_running, v_failed, v_events, v_dropped,
    v_listener, v_crashed, v_kicks

E == INSTANCE DaveSession WITH
    Pipelined <- FALSE, protocolVersion <- e_protocolVersion,
    preparedTransitions <- e_preparedTransitions,
    lastPreparedTransitionVersion <- e_lastPreparedTransitionVersion,
    passthrough <- e_passthrough, ratchet <- e_ratchet, decryptors <- e_decryptors,
    sessionVersion <- e_sessionVersion, epoch <- e_epoch, announced <- e_announced,
    pending <- e_pending, lastId <- e_lastId, executed <- e_executed, acks <- e_acks,
    sent <- e_sent

V == INSTANCE StreamConnections WITH
    pc <- v_pc, voice <- v_voice, joins <- v_joins, session <- v_session,
    voiceToken <- v_voiceToken, callback <- v_callback, told <- v_told,
    stream <- v_stream, streams <- v_streams, rtcServerID <- v_rtcServerID,
    token <- v_token, running <- v_running, failed <- v_failed, events <- v_events,
    dropped <- v_dropped, listener <- v_listener, crashed <- v_crashed, kicks <- v_kicks

ASSUME ConnectionsAssumed == V!ConnectionsAssumption
ASSUME DaveAssumed == E!DaveAssumption

eVars ==
    <<e_protocolVersion, e_preparedTransitions, e_lastPreparedTransitionVersion,
    e_passthrough, e_ratchet, e_decryptors, e_sessionVersion, e_epoch, e_announced,
    e_pending, e_lastId, e_executed, e_acks, e_sent>>
vVars ==
    <<v_pc, v_voice, v_joins, v_session, v_voiceToken, v_callback, v_told, v_stream,
    v_streams, v_rtcServerID, v_token, v_running, v_failed, v_events, v_dropped,
    v_listener, v_crashed, v_kicks>>
allVars == <<on, vars, eVars, vVars>>

\* A component that does not run stays in one of its initial states.
SumInit ==
    /\ on \in {"media", "dave", "connections"}
    /\ Init
    /\ on # "media" => signalingOnly
    /\ E!Init
    /\ V!Init

SumNext ==
    \/ on = "media" /\ Next /\ UNCHANGED <<on, eVars, vVars>>
    \/ on = "dave" /\ E!Next /\ UNCHANGED <<on, vars, vVars>>
    \/ on = "connections" /\ V!Next /\ UNCHANGED <<on, vars, eVars>>

SumFairness ==
    /\ WF_vars(on = "media" /\ ~crashed /\ Listener)
    /\ WF_vars(on = "media" /\ ~crashed /\ ReconnectLoop)
    /\ SF_vars(on = "media" /\ ~crashed /\ Redial)
    /\ WF_vars(on = "media" /\ ~crashed /\ StopGoesOn)
    /\ \A k \in Sockets : WF_vars(on = "media" /\ ~crashed /\ ReadLoop(k))

SumSpec == SumInit /\ [][SumNext]_allVars /\ SumFairness

------------------------------------------------------------------------------
(* Properties of the components that are not extended. *)

\* A media gateway that still runs though its stream connection was replaced was left behind
\* by a CreateStream that failed: a stream that played is always stopped.
OnlyFailedIsOrphaned == V!OnlyFailedIsOrphaned

\* Once both events of the stream being created were applied, and emit dropped neither, its
\* gateway has the credentials: no answer goes to the connection of another stream.
AnswerIsNotLost == V!AnswerIsNotLost

\* onVoiceLeave stops the stream of the current voice connection, never for the answer to
\* the LeaveVoice of an earlier one.
LeaveIsGenuine == V!LeaveIsGenuine

\* What is sent changes its key exactly when Discord executes a transition: no key is used
\* before, and while the session is in the epoch executed last each frame is sealed with its key
\* unless libdave refuses it.  Once frames are encrypted, they are until the protocol is version
\* 0 again (dave_session.go, media_gateway.go).
KeysFollowTransitions == E!KeysFollowTransitions
==============================================================================
