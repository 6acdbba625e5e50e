------------------------------ MODULE Subtitles ------------------------------
(***************************************************************************)
(* /subtitles and the captions of a session: the track (a temporary file   *)
(* and whether it is on) that every segment burns in, the handlers that    *)
(* fetch a file for seconds while the guild's session may end its stream   *)
(* or swap it for another, and the fetch that a new stream does itself     *)
(* when the guild prefers captions (warmCaptions).  How a file is found is *)
(* SubtitleFetch.  Streams are numbered; each has a title of its own.      *)
(***************************************************************************)
EXTENDS Integers, FiniteSets

CONSTANTS
    Handlers,    \* /subtitles commands in progress
    MaxStreams,  \* bound: streams of the session
    MaxFiles     \* bound: temporary files

SubtitlesAssumption == MaxStreams \in Nat \ {0} /\ MaxFiles \in Nat \ {0}

VARIABLES
    stream,   \* the stream the session is about
    phase,    \* "idle", "claimed" by Acquire, "rearmed" by Swap, "preparing", "playing"
    track,    \* session.Captions: its file (0: none) and whether it is enabled
    key,      \* session.CaptionQueryKey: the stream it was made for, 0: none
    files,    \* the temporary files that exist
    about,    \* about[f]: the stream whose subtitles were fetched into f
    made,     \* files made so far
    burnt,    \* the file the running segment burns in, 0: none
    restart,  \* the segment has been cancelled to start again
    prefers,  \* the guild's stored preference
    pc, target, path,
    late      \* the files set when the stream they were fetched for was over

trackVars == <<track, key>>
fileVars == <<files, about, made>>
segmentVars == <<burnt, restart>>
handlerVars == <<pc, target, path, late>>
vars == <<stream, phase, trackVars, fileVars, segmentVars, prefers, handlerVars>>

TypeOK ==
    /\ stream \in 0..MaxStreams
    /\ phase \in {"idle", "claimed", "rearmed", "preparing", "playing"}
    /\ track \in [file : 0..MaxFiles, on : BOOLEAN]
    /\ key \in 0..MaxStreams
    /\ files \subseteq 1..MaxFiles
    /\ about \in [1..MaxFiles -> 0..MaxStreams]
    /\ made \in 0..MaxFiles
    /\ burnt \in 0..MaxFiles
    /\ restart \in BOOLEAN /\ prefers \in BOOLEAN
    /\ pc \in [Handlers -> {"idle", "fetch", "seek"}]
    /\ target \in [Handlers -> 0..MaxStreams]
    /\ path \in [Handlers -> 0..MaxFiles]
    /\ late \subseteq 1..MaxFiles

NoTrack == [file |-> 0, on |-> FALSE]

Init ==
    /\ stream = 0 /\ phase = "idle"
    /\ track = NoTrack /\ key = 0
    /\ files = {} /\ about = [f \in 1..MaxFiles |-> 0] /\ made = 0
    /\ burnt = 0 /\ restart = FALSE
    /\ prefers \in BOOLEAN
    /\ pc = [h \in Handlers |-> "idle"]
    /\ target = [h \in Handlers |-> 0]
    /\ path = [h \in Handlers |-> 0]
    /\ late = {}

\* session.request: a session that is rearmed still has the request of the stream that was
\* swapped out; its metadata are gone.
HasRequest == phase \in {"rearmed", "preparing", "playing"}
HasMetadata == phase \in {"preparing", "playing"}

Enabled == track.on /\ track.file # 0

RemoveTracked == files' = files \ {track.file} /\ UNCHANGED <<about, made>>

\* Track.Reset
Reset == RemoveTracked /\ track' = NoTrack

-----------------------------------------------------------------------------
(* The session.                                                            *)

ClaimKeepsTrack ==
    /\ phase \in {"idle", "playing"} /\ stream < MaxStreams
    /\ phase' = (IF phase = "idle" THEN "claimed" ELSE "rearmed")
    /\ burnt' = 0 /\ restart' = FALSE
    /\ UNCHANGED <<stream, trackVars, fileVars, prefers, handlerVars>>

\* Acquire, or Swap of a stream that plays: the track is replaced, its file stays behind.
Claim ==
    /\ phase \in {"idle", "playing"} /\ stream < MaxStreams
    /\ phase' = (IF phase = "idle" THEN "claimed" ELSE "rearmed")
    /\ track' = NoTrack /\ key' = 0
    /\ burnt' = 0 /\ restart' = FALSE
    /\ UNCHANGED <<stream, fileVars, prefers, handlerVars>>

\* Play: the session gets the metadata of its new stream and OnPrepare runs.
Play ==
    /\ phase \in {"claimed", "rearmed"}
    /\ stream' = stream + 1
    /\ phase' = IF prefers THEN "preparing" ELSE "playing"
    /\ restart' = ~prefers
    /\ UNCHANGED <<trackVars, fileVars, burnt, prefers, handlerVars>>

NewFile == made < MaxFiles /\ made' = made + 1

\* warmCaptions: within four seconds, or the stream starts without.
WarmCaptions ==
    /\ phase = "preparing"
    /\ phase' = "playing" /\ restart' = TRUE
    /\ \/ /\ NewFile
          /\ files' = files \cup {made'} /\ about' = [about EXCEPT ![made'] = stream]
          /\ track' = [file |-> made', on |-> TRUE] /\ key' = stream
       \/ UNCHANGED <<trackVars, fileVars>>
    /\ UNCHANGED <<stream, burnt, prefers, handlerVars>>

\* runSegment
StartSegment ==
    /\ phase = "playing" /\ restart
    /\ burnt' = (IF Enabled THEN track.file ELSE 0)
    /\ restart' = FALSE
    /\ UNCHANGED <<stream, phase, trackVars, fileVars, prefers, handlerVars>>

\* Release, by the run loop of a stream or by a start that could not join voice.
Release ==
    /\ phase \in {"claimed", "rearmed", "playing"}
    /\ phase' = "idle"
    /\ Reset /\ key' = 0
    /\ burnt' = 0 /\ restart' = FALSE
    /\ UNCHANGED <<stream, prefers, handlerVars>>

-----------------------------------------------------------------------------
(* The handlers.                                                           *)

\* The last step of SetCaptions is a seek to where the stream is.
SeekNext(h) == pc' = [pc EXCEPT ![h] = "seek"]

\* enableSubtitles: the file of this very stream is used again if it is still good; otherwise
\* what there is is dropped and the lookup begins.
Enable(h) ==
    /\ pc[h] = "idle" /\ HasMetadata /\ ~Enabled
    /\ target' = [target EXCEPT ![h] = stream]
    /\ \/ /\ track.file # 0 /\ key = stream /\ track.file \in files
          /\ track' = [track EXCEPT !.on = TRUE]
          /\ SeekNext(h)
          /\ path' = [path EXCEPT ![h] = 0]
          /\ UNCHANGED <<key, fileVars>>
       \/ /\ ~(track.file # 0 /\ key = stream /\ track.file \in files)
          /\ NewFile /\ track' = NoTrack
          /\ files' = (files \ {track.file}) \cup {made'}
          /\ about' = [about EXCEPT ![made'] = stream]
          /\ path' = [path EXCEPT ![h] = made']
          /\ pc' = [pc EXCEPT ![h] = "fetch"]
          /\ UNCHANGED key
    /\ UNCHANGED <<stream, phase, segmentVars, prefers, late>>

Return(h) ==
    /\ pc' = [pc EXCEPT ![h] = "idle"]
    /\ target' = [target EXCEPT ![h] = 0]
    /\ path' = [path EXCEPT ![h] = 0]

RemoveOwn(h) == files' = files \ {path[h]} /\ UNCHANGED <<about, made>>

\* Nothing was found, or there is no stream any more to set it for.
FetchFails(h) ==
    /\ pc[h] = "fetch"
    /\ RemoveOwn(h) /\ Return(h)
    /\ UNCHANGED <<stream, phase, trackVars, segmentVars, prefers, late>>

\* SetCaptions with the file that was found: the session has to be busy with some request.
SetCaptions(h) ==
    /\ pc[h] = "fetch" /\ HasRequest
    /\ track' = [file |-> path[h], on |-> TRUE]
    /\ key' = target[h]
    /\ SeekNext(h)
    /\ late' = IF phase # "rearmed" /\ target[h] = stream THEN late ELSE late \cup {path[h]}
    /\ UNCHANGED <<stream, phase, fileVars, segmentVars, prefers, target, path>>

\* restartAtCurrentPosition; when the stream has just ended the file is removed again.
Restart(h) ==
    /\ pc[h] = "seek"
    /\ IF HasRequest
       THEN restart' = (phase = "playing") /\ prefers' = track.on /\ UNCHANGED fileVars
       ELSE RemoveOwn(h) /\ UNCHANGED <<restart, prefers>>
    /\ Return(h)
    /\ UNCHANGED <<stream, phase, trackVars, burnt, late>>

\* disableSubtitles
Disable(h) ==
    /\ pc[h] = "idle" /\ HasMetadata /\ Enabled
    /\ track' = [track EXCEPT !.on = FALSE]
    /\ SeekNext(h)
    /\ UNCHANGED <<stream, phase, key, fileVars, segmentVars, prefers, target, path, late>>

-----------------------------------------------------------------------------
Next ==
    \/ Claim \/ Play \/ WarmCaptions \/ StartSegment \/ Release
    \/ \E h \in Handlers :
          Enable(h) \/ FetchFails(h) \/ SetCaptions(h) \/ Restart(h) \/ Disable(h)

Spec == Init /\ [][Next]_vars

-----------------------------------------------------------------------------
\* Whoever resets, replaces or removes files while others fetch and streams end: what the
\* track has enabled, and so what a segment is given to burn in, exists.
EnabledFileExists == Enabled => track.file \in files

\* "/subtitles turns them on or off for the active stream" (README.md).  SetCaptions does not
\* look which stream its file was fetched for, so one that comes late is shown in the next
\* stream; that is the only way in which a stream gets the subtitles of another.
SubtitlesAreOfTheStream == burnt # 0 => about[burnt] = stream \/ burnt \in late

==============================================================================
