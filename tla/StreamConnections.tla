--------------------------- MODULE StreamConnections ---------------------------
(***************************************************************************)
(* A worker's Streamer: the session's goroutine joins and leaves voice,    *)
(* creates and stops streams, while the listener applies Discord's events  *)
(* to whatever connection is current when they arrive.  All connections    *)
(* of a worker have the same guild, channel and user, so the filters on    *)
(* these let the late event of an earlier connection through.              *)
(*                                                                         *)
(* The n-th JoinVoice makes voice connection n, the n-th CreateStream      *)
(* stream connection n; 0 is nil.  Only the current ones' fields are kept. *)
(* A media gateway, whose own module is MediaGateway, is ready once the    *)
(* credentials it was given last are its own.                              *)
(***************************************************************************)
EXTENDS Naturals, Sequences, SequencesExt

CONSTANTS
    EventCap,                           \* capacity of Client.events
    MaxJoins, MaxStreams, MaxKicks      \* bounds

ConnectionsAssumption == {EventCap, MaxJoins, MaxStreams, MaxKicks} \subseteq Nat

VARIABLES
    pc,                     \* the session's goroutine
    voice, joins, session, voiceToken,
    callback, told,         \* onVoiceLeave is set; it has been called
    stream, streams, rtcServerID, token,
    running,                \* stream connections whose gateway is not stopped
    failed,                 \* those whose CreateStream returned an error
    events,                 \* gateway events on their way, Client.events first
    dropped,                \* stream connections an event of which emit dropped
    listener,               \* the event it is about to apply to stream, or NoEvent
    crashed, kicks

voiceVars == <<voice, joins, session, voiceToken, callback, told>>
streamVars == <<stream, streams, rtcServerID, token, running, failed>>
eventVars == <<events, dropped, listener, crashed, kicks>>
vars == <<pc, voiceVars, streamVars, eventVars>>

Event(type, n) == [type |-> type, of |-> n]
NoEvent == Event("none", 0)
Goto(from, to) == ~crashed /\ pc = from /\ pc' = to

Init ==
    /\ pc = "out"
    /\ voice = 0 /\ joins = 0 /\ session = FALSE /\ voiceToken = 0
    /\ callback = FALSE /\ told = FALSE
    /\ stream = 0 /\ streams = 0 /\ rtcServerID = 0 /\ token = 0
    /\ running = {} /\ failed = {}
    /\ events = <<>> /\ dropped = {} /\ listener = NoEvent /\ crashed = FALSE /\ kicks = 0

------------------------------------------------------------------------------
(* The session's goroutine *)

\* newVoiceConnection under the lock, then the request, which Discord answers.
JoinVoice ==
    /\ Goto("out", "joining") /\ joins < MaxJoins
    /\ joins' = joins + 1 /\ voice' = joins' /\ session' = FALSE /\ voiceToken' = 0
    /\ events' = events \o <<Event("voiceState", joins'), Event("voiceServer", joins')>>
    /\ UNCHANGED <<callback, told, streamVars, dropped, listener, crashed, kicks>>

VoiceReady ==
    /\ Goto("joining", "joined") /\ session /\ voiceToken = voice
    /\ UNCHANGED <<voiceVars, streamVars, eventVars>>

\* voiceJoinTimeout, or the request is cancelled: the session is released.
JoinFails ==
    /\ Goto("joining", "leave") /\ UNCHANGED <<voiceVars, streamVars, eventVars>>

SetOnVoiceLeave ==
    /\ Goto("joined", "in") /\ callback' = TRUE /\ told' = FALSE
    /\ UNCHANGED <<voice, joins, session, voiceToken, streamVars, eventVars>>

\* Mutant of Install: the stream connection of an earlier attempt is kept.
InstallOnce ==
    /\ streams < MaxStreams
    /\ streams' = streams + 1 /\ stream' = IF stream = 0 THEN streams' ELSE stream
    /\ running' = running \cup {stream'}
    /\ UNCHANGED <<rtcServerID, token, failed>>

Install ==
    /\ streams < MaxStreams
    /\ streams' = streams + 1 /\ stream' = streams' /\ rtcServerID' = 0 /\ token' = 0
    /\ running' = running \cup {streams'}
    /\ UNCHANGED failed

\* CreateStream hangs the new connection off the voice connection before it asks.
CreateStream ==
    /\ Goto("in", "signal") /\ Install
    /\ UNCHANGED <<voiceVars, eventVars>>

SignalStream ==
    /\ Goto("signal", "creating")
    /\ events' = events \o <<Event("streamCreate", streams), Event("streamServer", streams)>>
    /\ UNCHANGED <<voiceVars, streamVars, dropped, listener, crashed, kicks>>

\* The gateway has signalled its peer on the channel CreateStream waits on.
StreamReady ==
    /\ Goto("creating", "streaming") /\ rtcServerID = stream /\ token = stream
    /\ UNCHANGED <<voiceVars, streamVars, eventVars>>

\* The timeout, or the context of the stream: the connection stays where it is.
CreateFails ==
    /\ Goto("creating", "in") /\ failed' = failed \cup {stream}
    /\ UNCHANGED <<voiceVars, stream, streams, rtcServerID, token, running, eventVars>>

\* Mutant of StopConnection: the connection is forgotten but its gateway goes on.
ForgetConnection == stream' = 0 /\ UNCHANGED <<streams, rtcServerID, token, running, failed>>

StopConnection ==
    /\ running' = running \ {stream} /\ stream' = 0
    /\ UNCHANGED <<streams, rtcServerID, token, failed>>

\* Playback.Close, and OpenPlayback when the peer could not be resolved.
StopStream ==
    /\ Goto("streaming", "in") /\ StopConnection
    /\ UNCHANGED <<voiceVars, eventVars>>

\* Mutant of ClearOnVoiceLeave: the callback stays set while the worker leaves.
KeepOnVoiceLeave ==
    /\ (Goto("in", "leave2") \/ Goto("leave", "leave2"))
    /\ UNCHANGED <<voiceVars, streamVars, eventVars>>

\* Release: SetOnVoiceLeave(nil), then LeaveVoice.
ClearOnVoiceLeave ==
    /\ (Goto("in", "leave2") \/ Goto("leave", "leave2"))
    /\ callback' = FALSE
    /\ UNCHANGED <<voice, joins, session, voiceToken, told, streamVars, eventVars>>

LeaveVoice ==
    /\ Goto("leave2", "leave3") /\ voice' = 0
    /\ UNCHANGED <<joins, session, voiceToken, callback, told, streamVars, eventVars>>

\* The rest of LeaveVoice: VoiceConnection.stop, and the request to leave.
StopVoiceConnection ==
    /\ Goto("leave3", "out")
    /\ IF stream # 0 THEN StopConnection ELSE UNCHANGED streamVars
    /\ events' = Append(events, Event("left", joins))
    /\ UNCHANGED <<voiceVars, dropped, listener, crashed, kicks>>

------------------------------------------------------------------------------
(* Discord, and the reader of the gateway *)

\* Somebody disconnects the worker from its channel.
Kick ==
    /\ ~crashed /\ kicks < MaxKicks /\ pc \in {"in", "signal", "creating", "streaming"}
    /\ kicks' = kicks + 1 /\ events' = Append(events, Event("left", voice))
    /\ UNCHANGED <<pc, voiceVars, streamVars, dropped, listener, crashed>>

\* emit finds Client.events full.
Emit ==
    /\ ~crashed /\ Len(events) > EventCap
    /\ events' = RemoveAt(events, EventCap + 1)
    /\ LET e == events[EventCap + 1]
       IN dropped' = IF e.type \in {"streamCreate", "streamServer"}
                     THEN dropped \cup {e.of} ELSE dropped
    /\ UNCHANGED <<pc, voiceVars, streamVars, listener, crashed, kicks>>

------------------------------------------------------------------------------
(* The listener *)

Handles(types) ==
    /\ ~crashed /\ listener = NoEvent /\ events # <<>> /\ Head(events).type \in types
    /\ events' = Tail(events)

OnVoiceStateUpdate ==
    /\ Handles({"voiceState", "left"})
    /\ session' = (session \/ voice # 0)
    /\ told' = (told \/ (voice # 0 /\ Head(events).type = "left" /\ callback))
    /\ UNCHANGED <<pc, voice, joins, voiceToken, callback, streamVars, dropped, listener,
                   crashed, kicks>>

OnVoiceServerUpdate ==
    /\ Handles({"voiceServer"})
    /\ voiceToken' = IF voice = 0 THEN voiceToken ELSE Head(events).of
    /\ UNCHANGED <<pc, voice, joins, session, callback, told, streamVars, dropped, listener,
                   crashed, kicks>>

\* Both stream events find out that there is a stream connection ...
OnStreamEvent ==
    /\ Handles({"streamCreate", "streamServer"})
    /\ listener' = IF voice # 0 /\ stream # 0 THEN Head(events) ELSE NoEvent
    /\ UNCHANGED <<pc, voiceVars, streamVars, dropped, crashed, kicks>>

\* ... and then use it, without the lock: nil by now, it ends the process.
ApplyStreamEvent ==
    /\ ~crashed /\ listener # NoEvent /\ listener' = NoEvent
    /\ crashed' = (stream = 0)
    /\ \/ /\ listener.type = "streamCreate" /\ UNCHANGED token
          /\ rtcServerID' = IF stream = 0 THEN rtcServerID ELSE listener.of
       \/ /\ listener.type = "streamServer" /\ UNCHANGED rtcServerID
          /\ token' = IF stream = 0 THEN token ELSE listener.of
    /\ UNCHANGED <<pc, voiceVars, stream, streams, running, failed, events, dropped, kicks>>

------------------------------------------------------------------------------
Session ==
    \/ JoinVoice \/ VoiceReady \/ JoinFails \/ SetOnVoiceLeave
    \/ CreateStream \/ SignalStream \/ StreamReady \/ CreateFails \/ StopStream
    \/ ClearOnVoiceLeave \/ LeaveVoice \/ StopVoiceConnection

Listen == OnVoiceStateUpdate \/ OnVoiceServerUpdate \/ OnStreamEvent \/ ApplyStreamEvent

Next == Session \/ Kick \/ Emit \/ Listen

Spec == Init /\ [][Next]_vars

------------------------------------------------------------------------------
(* Properties *)

\* onVoiceLeave stops the stream of the current voice connection: it is called only when
\* that connection was taken out of its channel, never for the answer to the LeaveVoice
\* of an earlier one, which may come while the next is being joined or after.
LeaveIsGenuine == [][~told /\ told' => Head(events).of = voice]_vars

\* A media gateway that still runs though its stream connection was replaced was left
\* behind by a CreateStream that failed: a stream that played is always stopped.
OnlyFailedIsOrphaned == \A s \in running : s = stream \/ s \in failed

\* Once both events of the stream being created were applied, and emit dropped neither,
\* its gateway has the credentials: no answer goes to the connection of another stream.
AnswerIsNotLost ==
    pc = "creating" /\ listener = NoEvent /\ streams \notin dropped
        => \/ \E i \in DOMAIN events :
                 events[i] \in {Event("streamCreate", streams), Event("streamServer", streams)}
           \/ rtcServerID = stream /\ token = stream

==============================================================================
