---------------------------- MODULE LookupsProofs ----------------------------
(* Theorems about what is looked up to start a stream and to show it: the subscriptions, for
   any finite set of rows, any guilds, any capacity of the semaphore and any number of matches
   and restarts; the subtitle track, for any commands, streams and files; the search for a
   subtitle file, for any variants, paths and contents; the list of channels, for any listing
   and metadata; the overlays of a title, for any records and seeks; and the schedule of
   matches, for any lists of the provider. *)
EXTENDS MC_Lookups, TLAPS, FiniteSetTheorems, SequenceTheorems

USE SubsAssumption, BoundsAssumption

------------------------------------------------------------------------------
(* The subscriptions: theorems about Spec of Subscriptions. *)

\* Every variable of Subscriptions keeps its type.
THEOREM SubscriptionsTypeCorrect == Spec => []TypeOK
<1> USE DEF TypeOK, Nothing, ByUser, ForMatch, Idle, Inside
<1> DEFINE Shows == {Nothing, ByUser} \cup [by : Subs, id : 0..MaxMatch]
<1>1. Init => TypeOK
  <2> SUFFICES ASSUME Init PROVE TypeOK
    OBVIOUS
  <2>1. /\ lastMatchID \in [Subs -> 0..MaxMatch] /\ plays \in [Matches -> SUBSET Subs]
        /\ row \in [Subs -> 0..MaxMatch] /\ event \in [Subs -> 0..MaxMatch]
        /\ crashes \in 0..Crashes
    BY DEF Init
  <2>2. wpc \in [Subs -> {Idle, "sem"} \cup Inside]
    BY DEF Init
  <2>3. onAir \in [Guilds -> Shows]
    <3>1. Nothing \in Shows
      OBVIOUS
    <3> HIDE DEF Shows, Nothing
    <3>2. QED
      BY <3>1 DEF Init
  <2>4. QED
    BY <2>1, <2>2, <2>3 DEF Init
<1>2. TypeOK /\ [Next]_vars => TypeOK'
  <2> SUFFICES ASSUME TypeOK, [Next]_vars PROVE TypeOK'
    OBVIOUS
  <2> USE DEF rowVars, worldVars, Return
  <2>1. ASSUME NEW s \in Subs, CreateSubscription(s) \/ DeleteSubscription(s) PROVE TypeOK'
    BY <2>1 DEF CreateSubscription, DeleteSubscription
  <2>2. ASSUME NEW m \in Matches, MatchBegins(m) \/ MatchEnds(m) PROVE TypeOK'
    BY <2>2 DEF MatchBegins, MatchEnds
  <2>3. ASSUME NEW g \in Guilds, StreamChanges(g) PROVE TypeOK'
    BY <2>3 DEF StreamChanges
  <2>4. CASE Poll \/ PollDone
    BY <2>4 DEF Poll, PollDone
  <2>5. ASSUME NEW s \in Subs, Enter(s) \/ Find(s) PROVE TypeOK'
    <3>1. CASE Enter(s) BY <3>1 DEF Enter
    <3>2. CASE Find(s)
      <4>1. wpc' \in [Subs -> {Idle, "sem"} \cup Inside] BY <3>2 DEF Find
      <4>2. event' \in [Subs -> 0..MaxMatch]
        <5>1. \A m \in TeamEvents(s) : m \in 0..MaxMatch BY DEF TeamEvents, Matches
        <5>2. event' = event \/ \E m \in TeamEvents(s) : event' = [event EXCEPT ![s] = m]
          BY <3>2 DEF Find
        <5> QED BY <5>1, <5>2
      <4> HIDE DEF Nothing
      <4> QED BY <3>2, <4>1, <4>2 DEF Find
    <3> QED BY <2>5, <3>1, <3>2
  <2>6. ASSUME NEW s \in Subs, AcquireForPlayback(s) PROVE TypeOK'
    <3>1. onAir' \in [Guilds -> Shows]
      <4>1. \A g \in Guilds : [onAir EXCEPT ![g] = Nothing] \in [Guilds -> Shows]
        OBVIOUS
      <4>2. QED
        BY <2>6, <4>1 DEF AcquireForPlayback
    <3>2. wpc' \in [Subs -> {Idle, "sem"} \cup Inside]
      BY <2>6 DEF AcquireForPlayback
    <3> HIDE DEF Nothing
    <3>3. QED
      BY <2>6, <3>1, <3>2 DEF AcquireForPlayback
  <2>7. ASSUME NEW s \in Subs, StartStream(s) PROVE TypeOK'
    <3>1. ForMatch(s, event[s]) \in Shows /\ Nothing \in Shows
      OBVIOUS
    <3> HIDE DEF Shows, Nothing, ForMatch
    <3>2. onAir \in [Guilds -> Shows]
      BY DEF Shows, Nothing
    <3>3. onAir' \in [Guilds -> Shows]
      BY <2>7, <3>1, <3>2 DEF StartStream
    <3>4. wpc' \in [Subs -> {Idle, "sem"} \cup Inside]
      BY <2>7 DEF StartStream
    <3>5. QED
      BY <2>7, <3>3, <3>4 DEF StartStream, Shows, Nothing
  <2>8. ASSUME NEW s \in Subs, Announce(s) \/ Mark(s) PROVE TypeOK'
    BY <2>8 DEF Announce, Mark
  <2>9. CASE Restart
    <3>1. onAir' \in [Guilds -> Shows]
      <4>1. Nothing \in Shows
        OBVIOUS
      <4> HIDE DEF Shows, Nothing
      <4>2. QED
        BY <2>9, <4>1 DEF Restart
    <3>2. wpc' \in [Subs -> {Idle, "sem"} \cup Inside]
      BY <2>9 DEF Restart
    <3>3. crashes' \in 0..Crashes
      <4>1. crashes \in Nat /\ crashes < Crashes /\ crashes' = crashes + 1 /\ Crashes \in Nat
        BY <2>9 DEF Restart
      <4>2. QED
        BY ONLY <4>1
    <3>4. polling' \in BOOLEAN
      BY <2>9, Zenon DEF Restart
    <3>5. UNCHANGED <<guildOf, stored, deleted, lastMatchID, plays, active, row, event>>
      BY <2>9 DEF Restart
    <3> HIDE DEF Nothing
    <3>6. QED
      BY <3>1, <3>2, <3>3, <3>4, <3>5
  <2>10. CASE UNCHANGED vars
    BY <2>10 DEF vars
  <2>11. QED
    BY <2>1, <2>2, <2>3, <2>4, <2>5, <2>6, <2>7, <2>8, <2>9, <2>10 DEF Next, Goroutine
<1>3. QED
  BY <1>1, <1>2, PTL DEF Spec

------------------------------------------------------------------------------
(* The semaphore *)

Workers == {s \in Subs : wpc[s] \in Inside}

\* A step that lets nobody in keeps the semaphore.
LEMMA FewerWorkers ==
    ASSUME SemaphoreHolds, Workers' \subseteq Workers
    PROVE  SemaphoreHolds'
<1>1. IsFiniteSet(Workers) /\ IsFiniteSet(Workers')
  BY FS_Subset DEF Workers
<1>2. Cardinality(Workers') <= Cardinality(Workers)
  BY <1>1, FS_Subset
<1>3. Cardinality(Workers) \in Nat /\ Cardinality(Workers') \in Nat
  BY <1>1, FS_CardinalityType
<1>4. QED
  BY <1>2, <1>3 DEF SemaphoreHolds, Workers

\* At most Concurrency goroutines are past the semaphore.
THEOREM SemaphoreIsKept == Spec => []SemaphoreHolds
<1>1. Init => SemaphoreHolds
  <2> SUFFICES ASSUME Init PROVE SemaphoreHolds
    OBVIOUS
  <2>1. {s \in Subs : wpc[s] \in Inside} = {}
    BY DEF Init, Inside, Idle
  <2>2. QED
    BY <2>1, FS_EmptySet DEF SemaphoreHolds
<1>2. TypeOK /\ SemaphoreHolds /\ [Next]_vars => SemaphoreHolds'
  <2> SUFFICES ASSUME TypeOK, SemaphoreHolds, [Next]_vars PROVE SemaphoreHolds'
    OBVIOUS
  <2> USE DEF Inside, Idle, TypeOK
  <2>1. ASSUME NEW s \in Subs, Enter(s) PROVE SemaphoreHolds'
    <3>1. IsFiniteSet(Workers)
      BY FS_Subset DEF Workers
    <3>2. Workers' = Workers \cup {s} /\ s \notin Workers
      BY <2>1 DEF Enter, Workers
    <3>3. Cardinality(Workers') = Cardinality(Workers) + 1
      BY <3>1, <3>2, FS_AddElement
    <3>4. Cardinality(Workers) < Concurrency /\ Cardinality(Workers) \in Nat
      BY <2>1, <3>1, FS_CardinalityType DEF Enter, Workers
    <3>5. QED
      BY <3>3, <3>4 DEF SemaphoreHolds, Workers
  <2>2. ASSUME NEW s \in Subs, \/ Find(s) \/ AcquireForPlayback(s) \/ StartStream(s)
                               \/ Announce(s) \/ Mark(s)
        PROVE SemaphoreHolds'
    <3>1. Workers' \subseteq Workers
      BY <2>2 DEF Find, AcquireForPlayback, StartStream, Announce, Mark, Return, Workers
    <3>2. QED
      BY <3>1, FewerWorkers
  <2>3. CASE Poll \/ PollDone \/ Restart
    <3>1. Workers' \subseteq Workers
      BY <2>3 DEF Poll, PollDone, Restart, Workers
    <3>2. QED
      BY <3>1, FewerWorkers
  <2>4. ASSUME UNCHANGED wpc PROVE SemaphoreHolds'
    BY <2>4 DEF SemaphoreHolds
  <2>5. ASSUME \/ \E s \in Subs : CreateSubscription(s) \/ DeleteSubscription(s)
               \/ \E m \in Matches : MatchBegins(m) \/ MatchEnds(m)
        PROVE UNCHANGED wpc
    BY <2>5 DEF CreateSubscription, DeleteSubscription, MatchBegins, MatchEnds
  <2>6. (\E g \in Guilds : StreamChanges(g)) \/ UNCHANGED vars => UNCHANGED wpc
    BY DEF StreamChanges, vars
  <2>7. QED
    BY <2>1, <2>2, <2>3, <2>4, <2>5, <2>6 DEF Next, Goroutine
<1>3. QED
  BY <1>1, <1>2, SubscriptionsTypeCorrect, PTL DEF Spec

------------------------------------------------------------------------------
(* What a goroutine knows of its row *)

Working == Inside \cup {"sem"}

\* The copy a goroutine was given still says what the row says: only the
\* goroutine itself writes LastMatchID, and a poll waits for all of them.
RowIsCurrent == \A s \in Subs : wpc[s] # Idle => row[s] = lastMatchID[s] /\ polling

\* Past the comparison, the match is one the row has not recorded.
EventIsNew ==
    \A s \in Subs : wpc[s] \in {"acquire", "play", "announce", "mark"} => event[s] # row[s]

\* A row that no longer exists had a goroutine only if it was deleted under it.
RowWasStored == \A s \in Subs : wpc[s] # Idle => s \in stored \cup deleted

RowInv == RowIsCurrent /\ EventIsNew /\ RowWasStored

\* A goroutine's row stays what the goroutine was given, whoever subscribes or
\* deletes meanwhile.
LEMMA RowInvInductive ==
    /\ Init => RowInv
    /\ TypeOK /\ RowInv /\ [Next]_vars => RowInv'
<1> USE DEF RowInv, RowIsCurrent, EventIsNew, RowWasStored, Inside, Idle
<1>1. Init => RowInv
  BY DEF Init
<1>2. TypeOK /\ RowInv /\ [Next]_vars => RowInv'
  <2> SUFFICES ASSUME TypeOK, RowInv, [Next]_vars PROVE RowInv'
    OBVIOUS
  <2> USE DEF rowVars, worldVars, Return, TypeOK
  <2>1. ASSUME NEW s \in Subs, CreateSubscription(s) \/ DeleteSubscription(s) PROVE RowInv'
    BY <2>1 DEF CreateSubscription, DeleteSubscription
  <2>2. ASSUME NEW m \in Matches, MatchBegins(m) \/ MatchEnds(m) PROVE RowInv'
    BY <2>2 DEF MatchBegins, MatchEnds
  <2>3. ASSUME NEW g \in Guilds, StreamChanges(g) PROVE RowInv'
    BY <2>3 DEF StreamChanges
  <2>4. CASE Poll
    BY <2>4 DEF Poll
  <2>5. CASE PollDone
    BY <2>5 DEF PollDone
  <2>6. ASSUME NEW s \in Subs, Enter(s) PROVE RowInv'
    BY <2>6 DEF Enter
  <2>7. ASSUME NEW s \in Subs, Find(s) PROVE RowInv'
    BY <2>7 DEF Find, TeamEvents
  <2>8. ASSUME NEW s \in Subs, AcquireForPlayback(s) \/ StartStream(s) \/ Announce(s) PROVE RowInv'
    BY <2>8 DEF AcquireForPlayback, StartStream, Announce
  <2>9. ASSUME NEW s \in Subs, Mark(s) PROVE RowInv'
    BY <2>9 DEF Mark
  <2>10. CASE Restart
    BY <2>10 DEF Restart
  <2>11. CASE UNCHANGED vars
    BY <2>11 DEF vars
  <2>12. QED
    BY <2>1, <2>2, <2>3, <2>4, <2>5, <2>6, <2>7, <2>8, <2>9, <2>10, <2>11 DEF Next, Goroutine
<1>3. QED
  BY <1>1, <1>2

\* No stream is started for a match that the row has recorded by then.
THEOREM NoStartOnceRecorded == Spec => RecordedMatchIsNotStarted
<1> DEFINE Fresh == \A s \in Subs :
                       wpc[s] = "play" /\ wpc'[s] = "announce" /\ s \in stored
                           => lastMatchID[s] # event[s]
<1>1. RowInv => Fresh
  BY DEF RowInv, RowIsCurrent, EventIsNew, Idle
<1>2. QED
  BY <1>1, RowInvInductive, SubscriptionsTypeCorrect, PTL DEF Spec, RecordedMatchIsNotStarted

------------------------------------------------------------------------------
(* The stream of a match *)

\* What a guild shows was recorded, is about to be, or belongs to a row that no
\* poll will see again.
ShownInv ==
    \A s \in Subs, g \in Guilds :
        onAir[g].by = s =>
            /\ g = guildOf[s]
            /\ \/ lastMatchID[s] = onAir[g].id /\ wpc[s] \notin {"play", "announce", "mark"}
               \/ wpc[s] \in {"announce", "mark"} /\ event[s] = onAir[g].id
               \/ s \in deleted /\ wpc[s] = Idle

\* With a Discord and a database that answer, a subscription never tears down the stream it has
\* itself started for the very match it is about to start, whoever else follows that match in
\* the guild; and the stream of another row only as long as its own has not recorded the match
\* (subscribe.go, subscriptions.go).
THEOREM NoRestartOfRunningMatch ==
    ASSUME ~AnnounceFails, "nobody" \notin Subs, "user" \notin Subs
    PROVE  Spec => RunningMatchIsNotRestarted
<1> DEFINE Spared == \A s \in Subs :
                        wpc[s] = "acquire" /\ wpc'[s] = "play"
                            => LET air == onAir[guildOf[s]]
                               IN  air.id = event[s] => air.by # s /\ lastMatchID[s] # event[s]
<1> USE DEF Inside, Idle, Nothing, ByUser, ForMatch
<1>1. Init => ShownInv
  BY DEF Init, ShownInv
<1>2. TypeOK /\ RowInv /\ ShownInv /\ [Next]_vars => ShownInv'
  <2> SUFFICES ASSUME TypeOK, RowInv, ShownInv, [Next]_vars PROVE ShownInv'
    OBVIOUS
  <2> USE DEF ShownInv, TypeOK, rowVars, worldVars, Return
  <2>1. ASSUME NEW s \in Subs, CreateSubscription(s) \/ DeleteSubscription(s) PROVE ShownInv'
    BY <2>1 DEF CreateSubscription, DeleteSubscription
  <2>2. ASSUME NEW m \in Matches, MatchBegins(m) \/ MatchEnds(m) PROVE ShownInv'
    BY <2>2 DEF MatchBegins, MatchEnds
  <2>3. ASSUME NEW g \in Guilds, StreamChanges(g) PROVE ShownInv'
    BY <2>3 DEF StreamChanges
  <2>4. CASE Poll
    <3>1. \A s \in Subs : s \in deleted => wpc'[s] = wpc[s]
      BY <2>4 DEF Poll
    <3>2. \A s \in Subs : wpc[s] \notin {"announce", "mark"}
      BY <2>4 DEF Poll, RowInv, RowIsCurrent
    <3>3. QED
      BY <2>4, <3>1, <3>2 DEF Poll
  <2>5. CASE PollDone
    BY <2>5 DEF PollDone
  <2>6. ASSUME NEW s \in Subs, Enter(s) \/ Find(s) PROVE ShownInv'
    BY <2>6 DEF Enter, Find
  <2>7. ASSUME NEW s \in Subs, AcquireForPlayback(s) PROVE ShownInv'
    BY <2>7 DEF AcquireForPlayback
  <2>8. ASSUME NEW s \in Subs, StartStream(s) PROVE ShownInv'
    <3>1. CASE /\ wpc' = [wpc EXCEPT ![s] = "announce"]
               /\ onAir' = [onAir EXCEPT ![guildOf[s]] = ForMatch(s, event[s])]
      BY <2>8, <3>1 DEF StartStream
    <3>2. CASE Return(s) /\ onAir' = [onAir EXCEPT ![guildOf[s]] = Nothing]
      BY <2>8, <3>2 DEF StartStream
    <3>3. QED
      BY <2>8, <3>1, <3>2 DEF StartStream
  <2>9. ASSUME NEW s \in Subs, Announce(s) PROVE ShownInv'
    BY <2>9 DEF Announce
  <2>10. ASSUME NEW s \in Subs, Mark(s) PROVE ShownInv'
    BY <2>10 DEF Mark, RowInv, RowWasStored
  <2>11. CASE Restart
    BY <2>11 DEF Restart
  <2>12. CASE UNCHANGED vars
    BY <2>12 DEF vars
  <2>13. QED
    BY <2>1, <2>2, <2>3, <2>4, <2>5, <2>6, <2>7, <2>8, <2>9, <2>10, <2>11, <2>12
    DEF Next, Goroutine
<1>3. TypeOK /\ RowInv /\ ShownInv => Spared
  <2> SUFFICES ASSUME TypeOK, RowInv, ShownInv, NEW s \in Subs, wpc[s] = "acquire",
                      onAir[guildOf[s]].id = event[s]
               PROVE  onAir[guildOf[s]].by # s /\ lastMatchID[s] # event[s]
    OBVIOUS
  <2>1. event[s] # lastMatchID[s]
    BY DEF RowInv, RowIsCurrent, EventIsNew
  <2>2. guildOf[s] \in Guilds
    BY DEF TypeOK
  <2>3. QED
    BY <2>1, <2>2 DEF ShownInv
<1>4. QED
  BY <1>1, <1>2, <1>3, RowInvInductive, SubscriptionsTypeCorrect, PTL
  DEF Spec, RunningMatchIsNotRestarted

------------------------------------------------------------------------------
(* The subtitle track of a session (Subtitles) *)

\* A step of the sum that is not one of the subtitles leaves their variables alone.
LEMMA SubtitleSteps == [SumNext]_allVars => [T!Next]_T!vars
  BY DEF SumNext, allVars, tVars, T!vars, T!trackVars, T!fileVars, T!segmentVars, T!handlerVars

\* No variable names a file that has not been made.
FilesAreMade ==
    /\ t_made \in 0..MaxFiles /\ t_burnt \in 0..t_made
    /\ t_track \in [file : 0..t_made, on : BOOLEAN]
    /\ t_path \in [Commands -> 0..t_made]

\* The file of a fetch that goes on is the handler's own: it exists and nobody else has it.
FetchIsAlone ==
    \A h \in Commands : t_pc[h] = "fetch" =>
        /\ t_path[h] # 0 /\ t_path[h] \in t_files /\ t_path[h] # t_track.file
        /\ t_about[t_path[h]] = t_target[h]
        /\ \A k \in Commands \ {h} : t_path[k] # t_path[h]

\* What the track holds exists and belongs to a request; unless it came late, it is about the
\* stream whose metadata the session has.
TrackIsWhole ==
    t_track.file # 0 =>
        /\ t_track.file \in t_files /\ T!HasRequest
        /\ t_track.file \in t_late \/ (T!HasMetadata /\ t_about[t_track.file] = t_stream)

\* Only a stream that plays burns anything in.
BurntWhilePlaying == t_burnt # 0 => t_phase = "playing"

SubtitlesTyped ==
    /\ t_stream \in Nat /\ t_about \in [1..MaxFiles -> Nat]
    /\ t_pc \in [Commands -> {"idle", "fetch", "seek"}] /\ t_target \in [Commands -> Nat]

SubtitlesInv ==
    /\ SubtitlesTyped /\ FilesAreMade /\ FetchIsAlone /\ TrackIsWhole /\ BurntWhilePlaying
    /\ T!SubtitlesAreOfTheStream

\* The session replaces, resets or keeps the track; no fetch is disturbed by it.
LEMMA SessionKeepsSubtitles ==
    ASSUME SubtitlesInv, T!Claim \/ T!Play \/ T!WarmCaptions \/ T!StartSegment \/ T!Release
    PROVE  SubtitlesInv'
<1> USE SubtitlesAssumed
    DEF SubtitlesInv, SubtitlesTyped, FilesAreMade, FetchIsAlone, TrackIsWhole,
        BurntWhilePlaying, T!SubtitlesAreOfTheStream, T!SubtitlesAssumption, T!HasRequest,
        T!HasMetadata, T!trackVars, T!fileVars, T!segmentVars, T!handlerVars, T!NoTrack
<1>1. CASE T!Claim BY <1>1 DEF T!Claim
<1>2. CASE T!Play BY <1>2 DEF T!Play
<1>3. CASE T!WarmCaptions
  <2>1. CASE UNCHANGED <<T!trackVars, T!fileVars>> BY <1>3, <2>1 DEF T!WarmCaptions
  <2>2. CASE ~UNCHANGED <<T!trackVars, T!fileVars>>
    <3>1. /\ t_made' = t_made + 1 /\ t_made' \in 1..MaxFiles
          /\ t_files' = t_files \cup {t_made'} /\ t_about' = [t_about EXCEPT ![t_made'] = t_stream]
          /\ t_track' = [file |-> t_made', on |-> TRUE]
          /\ t_phase = "preparing" /\ t_phase' = "playing"
          /\ UNCHANGED <<t_stream, t_burnt, t_pc, t_target, t_path, t_late>>
      BY <1>3, <2>2 DEF T!WarmCaptions, T!NewFile
    <3>2. SubtitlesTyped' /\ FilesAreMade' BY <3>1
    <3>3. \A f \in 1..t_made : t_about'[f] = t_about[f] BY <3>1
    <3>4. FetchIsAlone' BY <3>1, <3>3
    <3>5. TrackIsWhole' /\ BurntWhilePlaying' BY <3>1
    <3>6. T!SubtitlesAreOfTheStream' BY <3>1
    <3> QED BY <3>2, <3>4, <3>5, <3>6
  <2> QED BY <2>1, <2>2
<1>4. CASE T!StartSegment BY <1>4 DEF T!StartSegment, T!Enabled
<1>5. CASE T!Release BY <1>5 DEF T!Release, T!Reset, T!RemoveTracked
<1> QED BY <1>1, <1>2, <1>3, <1>4, <1>5

\* A handler that fetches, sets, drops or removes its file takes no file from another handler
\* or from the track.
LEMMA HandlerKeepsSubtitles ==
    ASSUME SubtitlesInv, NEW h \in Commands,
           T!Enable(h) \/ T!FetchFails(h) \/ T!SetCaptions(h) \/ T!Restart(h) \/ T!Disable(h)
    PROVE  SubtitlesInv'
<1> USE SubtitlesAssumed
    DEF SubtitlesInv, SubtitlesTyped, FilesAreMade, FetchIsAlone, TrackIsWhole,
        BurntWhilePlaying, T!SubtitlesAreOfTheStream, T!SubtitlesAssumption, T!HasRequest,
        T!HasMetadata, T!trackVars, T!fileVars, T!segmentVars, T!handlerVars, T!NoTrack
<1>1. CASE T!Enable(h)
  <2>1. CASE UNCHANGED T!fileVars
    <3>1. t_pc' = [t_pc EXCEPT ![h] = "seek"] /\ t_path' = [t_path EXCEPT ![h] = 0]
      BY <1>1, <2>1 DEF T!Enable, T!NewFile, T!SeekNext
    <3>2. /\ t_track' = [t_track EXCEPT !.on = TRUE]
          /\ t_target' = [t_target EXCEPT ![h] = t_stream]
          /\ UNCHANGED <<t_stream, t_phase, t_burnt, t_late, t_files, t_about, t_made>>
      BY <1>1, <2>1 DEF T!Enable, T!NewFile
    <3>3. SubtitlesTyped' BY <3>1, <3>2
    <3>4. t_track'.file = t_track.file /\ t_track' \in [file : 0..t_made, on : BOOLEAN] BY <3>2
    <3>5. FilesAreMade' BY <3>1, <3>2, <3>4
    <3>6. FetchIsAlone' BY <3>1, <3>2, <3>4
    <3>7. TrackIsWhole' /\ BurntWhilePlaying' /\ T!SubtitlesAreOfTheStream' BY <3>2, <3>4
    <3> QED BY <3>3, <3>5, <3>6, <3>7
  <2>2. CASE ~UNCHANGED T!fileVars
    <3>1. /\ t_made' = t_made + 1 /\ t_made' \in 1..MaxFiles
          /\ t_files' = (t_files \ {t_track.file}) \cup {t_made'}
          /\ t_about' = [t_about EXCEPT ![t_made'] = t_stream]
          /\ t_track' = [file |-> 0, on |-> FALSE]
          /\ t_pc' = [t_pc EXCEPT ![h] = "fetch"] /\ t_path' = [t_path EXCEPT ![h] = t_made']
          /\ t_target' = [t_target EXCEPT ![h] = t_stream]
          /\ UNCHANGED <<t_stream, t_phase, t_burnt, t_late>>
      BY <1>1, <2>2 DEF T!Enable, T!NewFile
    <3>2. SubtitlesTyped' /\ FilesAreMade' BY <3>1
    <3>3. \A f \in 1..t_made : t_about'[f] = t_about[f] BY <3>1
    <3>4. FetchIsAlone' BY <3>1, <3>3
    <3>5. TrackIsWhole' /\ BurntWhilePlaying' BY <3>1
    <3>6. T!SubtitlesAreOfTheStream' BY <3>1
    <3> QED BY <3>2, <3>4, <3>5, <3>6
  <2> QED BY <2>1, <2>2
<1>2. CASE T!FetchFails(h) BY <1>2 DEF T!FetchFails, T!RemoveOwn, T!Return
<1>3. CASE T!SetCaptions(h) BY <1>3 DEF T!SetCaptions, T!SeekNext
<1>4. CASE T!Restart(h)
  <2>1. CASE T!HasRequest BY <1>4, <2>1 DEF T!Restart, T!Return
  <2>2. CASE ~T!HasRequest BY <1>4, <2>2 DEF T!Restart, T!RemoveOwn, T!Return
  <2> QED BY <2>1, <2>2
<1>5. CASE T!Disable(h) BY <1>5 DEF T!Disable, T!Enabled, T!SeekNext
<1> QED BY <1>1, <1>2, <1>3, <1>4, <1>5

\* However many handlers fetch while streams end and are swapped: the file that a segment is
\* given exists, and it is about the stream that plays unless SetCaptions came too late for the
\* stream it was fetched for (track.go, pool.go).
THEOREM SubtitlesStayWithTheirStream == SumSpec => []SubtitlesBelong
<1>1. SumInit => SubtitlesInv
  BY SubtitlesAssumed
  DEF SumInit, T!Init, SubtitlesInv, SubtitlesTyped, FilesAreMade, FetchIsAlone, TrackIsWhole,
      BurntWhilePlaying, T!SubtitlesAreOfTheStream, T!SubtitlesAssumption, T!NoTrack
<1>2. SubtitlesInv /\ [T!Next]_T!vars => SubtitlesInv'
  <2>1. CASE UNCHANGED T!vars
    BY <2>1
    DEF T!vars, T!trackVars, T!fileVars, T!segmentVars, T!handlerVars, SubtitlesInv,
        SubtitlesTyped, FilesAreMade, FetchIsAlone, TrackIsWhole, BurntWhilePlaying,
        T!SubtitlesAreOfTheStream, T!HasRequest, T!HasMetadata
  <2> QED BY <2>1, SessionKeepsSubtitles, HandlerKeepsSubtitles DEF T!Next
<1>3. SubtitlesInv => SubtitlesBelong
  BY DEF SubtitlesInv, TrackIsWhole, SubtitlesBelong, T!EnabledFileExists, T!Enabled
<1> QED BY <1>1, <1>2, <1>3, SubtitleSteps, PTL DEF SumSpec

------------------------------------------------------------------------------
(* The list of channels (ChannelCatalog) *)

\* A step of the sum that is not one of the channels leaves their variables alone.
LEMMA ChannelSteps == [SumNext]_allVars => [L!Next]_L!vars
  BY DEF SumNext, allVars, lVars, L!vars

\* An index holds only what the files know.
LEMMA IndexIsKnown ==
    ASSUME NEW p \in L!Pointers, NEW of \in p
    PROVE  of \subseteq Known
  BY DEF L!Pointers, L!None, L!Indexes, L!Index

\* The list is one channel; the index of a loop is one that was stored.
CatalogTyped ==
    /\ l_catalog \in L!Channels
    /\ l_metadata \in L!Pointers /\ l_index \in [L!Loops -> L!Pointers]
    /\ l_pc \in [L!Loops -> {"idle", "fetch", "index", "apply"}]

\* A list that has not been enriched is as it was fetched.
FreshIsListed == l_catalog.passes = 0 => l_catalog = L!Listed(l_catalog.id)

\* While there are metadata, a loop is about to enrich the list that has not been.
SomebodyWillEnrich ==
    l_metadata # L!None /\ l_catalog.passes = 0 =>
        \E l \in L!Loops : l_pc[l] \in {"index", "apply"}

CatalogInv == CatalogTyped /\ FreshIsListed /\ SomebodyWillEnrich /\ L!CountryIsAsked

\* An entry of another country than the one that is asked for does not score enough, whatever
\* its keys, logo and categories.
LEMMA OtherCountriesScoreLow ==
    ASSUME NEW e \in Known, NEW i \in Nat \ {0}, NEW hint,
           hint # L!NoCountry, e.country \notin {hint, L!NoCountry}
    PROVE  ~(L!Score(e, i, hint) >= 100)
<1>1. e.logo \in BOOLEAN /\ e.categories \in BOOLEAN
  BY CatalogAssumed DEF L!CatalogAssumption
<1>2. L!Score(e, i, hint) =
          101 - i + (-30) + (IF e.logo THEN 10 ELSE 0) + (IF e.categories THEN 5 ELSE 0)
  BY DEF L!Score
<1>3. (IF e.logo THEN 10 ELSE 0) \in 0..10 /\ (IF e.categories THEN 5 ELSE 0) \in 0..5
  BY <1>1
<1> QED BY <1>2, <1>3

\* What a list is enriched with when its name asks for a country.
LEMMA MatchesAreOfTheCountry ==
    ASSUME NEW name \in L!Names, NEW of \in SUBSET Known, NEW e \in L!Matches(name, of),
           name.hint # L!NoCountry
    PROVE  e.country \in {name.hint, L!NoCountry}
<1>1. PICK c \in L!Candidates(name, of) : c[1] = e /\ L!Score(c[1], c[2], name.hint) >= 100
  BY DEF L!Matches
<1>2. c[1] \in Known /\ c[2] \in DOMAIN name.keys
  BY <1>1 DEF L!Candidates
<1>3. c[2] \in Nat \ {0}
  <2>1. PICK m \in 0..2 : name.keys \in [1..m -> Keys]
    BY DEF L!Names, L!SeqOf
  <2> QED BY <1>2, <2>1
<1> QED BY <1>1, <1>2, <1>3, OtherCountriesScoreLow

\* A listed channel is one.
LEMMA ListedIsChannel ==
    ASSUME NEW l \in Listings PROVE L!Listed(l) \in L!Channels
  BY CatalogAssumed DEF L!CatalogAssumption, L!Listed, L!Channels

\* What Enriched makes of a channel.
LEMMA EnrichedIsChannel ==
    ASSUME NEW channel \in L!Channels, NEW e \in Known
    PROVE  /\ L!Enriched(channel, e) \in L!Channels
           /\ L!Enriched(channel, e).id = channel.id
           /\ L!Enriched(channel, e).passes = channel.passes
           /\ L!Enriched(channel, e).country =
                  (IF e.country # L!NoCountry THEN e.country ELSE channel.country)
<1> DEFINE name == [keys |-> <<e.keys[1]>>, hint |-> L!NoCountry]
<1>1. e.keys[1] \in Keys /\ e.country \in Countries \cup {L!NoCountry}
  BY CatalogAssumed DEF L!CatalogAssumption
<1>2. <<e.keys[1]>> \in [1..1 -> Keys]
  BY <1>1
<1>3. name \in L!Names
  BY <1>2 DEF L!Names, L!SeqOf
<1> HIDE DEF name
<1>4. L!Enriched(channel, e) =
          [channel EXCEPT !.name = name, !.enriched = TRUE,
             !.country = IF e.country # L!NoCountry THEN e.country ELSE channel.country]
  BY DEF L!Enriched, name, L!Channels
<1> QED BY <1>1, <1>3, <1>4 DEF L!Channels

\* Enriching keeps the invariant: the first time, the list is as it was fetched.
LEMMA ApplyKeepsCatalog ==
    ASSUME CatalogInv, NEW l \in L!Loops, L!Apply(l) PROVE CatalogInv'
<1> USE DEF CatalogInv, CatalogTyped
<1>1. PICK of \in l_index[l] : l_catalog' \in L!EnrichedBy(l_catalog, of)
  BY DEF L!Apply
<1>2. of \subseteq Known
  BY <1>1, IndexIsKnown
<1>3. PICK c : /\ l_catalog' = L!Pass(c)
               /\ c = l_catalog
                  \/ \E e \in L!Matches(l_catalog.name, of) : c = L!Enriched(l_catalog, e)
  BY <1>1 DEF L!EnrichedBy
<1>4. \A e \in L!Matches(l_catalog.name, of) : e \in Known
  BY <1>2 DEF L!Matches, L!Candidates
<1>5. c \in L!Channels /\ c.id = l_catalog.id /\ c.passes = l_catalog.passes
  BY <1>3, <1>4, EnrichedIsChannel
<1>6. /\ l_catalog' \in L!Channels /\ l_catalog'.id = c.id
      /\ l_catalog'.country = c.country /\ l_catalog'.enriched = c.enriched
      /\ l_catalog'.passes # 0
      /\ l_catalog'.passes = 1 => l_catalog.passes = 0
  BY <1>3, <1>5 DEF L!Pass, L!Channels
<1>7. CatalogTyped'
  BY <1>6 DEF L!Apply, L!Goto, L!Pointers, L!Loops
<1>8. ASSUME l_catalog'.enriched, l_catalog'.passes = 1, l_catalog.id.name.hint # L!NoCountry
      PROVE  c.country \in {l_catalog.id.name.hint, l_catalog.id.country}
  <2>1. l_catalog = L!Listed(l_catalog.id)
    BY <1>6, <1>8 DEF FreshIsListed
  <2>2. ~l_catalog.enriched /\ l_catalog.country = l_catalog.id.country
        /\ l_catalog.name = l_catalog.id.name
    BY <2>1 DEF L!Listed
  <2>3. PICK e \in L!Matches(l_catalog.name, of) : c = L!Enriched(l_catalog, e)
    BY <1>3, <1>6, <1>8, <2>2
  <2>4. e.country \in {l_catalog.name.hint, L!NoCountry}
    BY <1>2, <1>8, <2>2, <2>3, MatchesAreOfTheCountry DEF L!Channels
  <2> QED BY <1>4, <2>2, <2>3, <2>4, EnrichedIsChannel
<1>9. L!CountryIsAsked'
  BY <1>5, <1>6, <1>8 DEF L!CountryIsAsked
<1> QED BY <1>6, <1>7, <1>9 DEF FreshIsListed, SomebodyWillEnrich

\* A step of a loop that does not enrich keeps the invariant.
LEMMA LoopKeepsCatalog ==
    ASSUME CatalogInv, NEW l \in L!Loops,
           L!Tick(l) \/ L!FetchFails(l) \/ L!ReadIndex(l)
    PROVE  CatalogInv'
<1> USE DEF CatalogInv, CatalogTyped, FreshIsListed, SomebodyWillEnrich, L!CountryIsAsked,
            L!Goto
<1>1. CASE L!Tick(l) BY <1>1 DEF L!Tick
<1>2. CASE L!FetchFails(l) BY <1>2 DEF L!FetchFails
<1>3. CASE L!ReadIndex(l) BY <1>3 DEF L!ReadIndex
<1> QED BY <1>1, <1>2, <1>3

\* So does storing a new list, or new metadata: the loop that stores them enriches next.
LEMMA StoreKeepsCatalog ==
    ASSUME CatalogInv, L!StoreCatalog \/ L!StoreMetadata PROVE CatalogInv'
<1> USE DEF CatalogInv, CatalogTyped, FreshIsListed, SomebodyWillEnrich, L!CountryIsAsked,
            L!Goto, L!Loops
<1>1. CASE L!StoreCatalog
  <2>1. PICK k \in Listings : l_catalog' = L!Listed(k)
    BY <1>1 DEF L!StoreCatalog
  <2>2. l_catalog'.id = k /\ l_catalog'.passes = 0 /\ ~l_catalog'.enriched
    BY <2>1 DEF L!Listed
  <2> QED BY <1>1, <2>1, <2>2, ListedIsChannel DEF L!StoreCatalog
<1>2. CASE L!StoreMetadata BY <1>2 DEF L!StoreMetadata
<1> QED BY <1>1, <1>2

\* The loops read the metadata and the list under different locks; still, when neither is about
\* to enrich, the list that is served has been enriched if there are any metadata.  And the
\* first enrichment gives no channel to a country its name does not ask for, whatever the
\* entries, their keys and logos (enrich.go).
THEOREM ServedListIsEnriched == SumSpec => []SettledIsEnriched
<1>1. SumInit => CatalogInv
  <2> SUFFICES ASSUME SumInit PROVE CatalogInv OBVIOUS
  <2>1. PICK k \in Listings : l_catalog = L!Listed(k) BY DEF SumInit, L!Init
  <2>2. l_catalog.id = k /\ l_catalog.passes = 0 /\ ~l_catalog.enriched
    BY <2>1 DEF L!Listed
  <2> QED
    BY <2>1, <2>2, ListedIsChannel
    DEF SumInit, L!Init, CatalogInv, CatalogTyped, FreshIsListed, SomebodyWillEnrich,
        L!CountryIsAsked, L!Pointers
<1>2. CatalogInv /\ [L!Next]_L!vars => CatalogInv'
  <2>1. CASE UNCHANGED L!vars
    BY <2>1 DEF L!vars, CatalogInv, CatalogTyped, FreshIsListed, SomebodyWillEnrich,
       L!CountryIsAsked
  <2> QED BY <2>1, ApplyKeepsCatalog, LoopKeepsCatalog, StoreKeepsCatalog DEF L!Next
<1>3. CatalogInv => SettledIsEnriched
  BY DEF CatalogInv, CatalogTyped, L!Channels, SomebodyWillEnrich, SettledIsEnriched,
     L!SettledIsEnriched, L!Settled
<1> QED BY <1>1, <1>2, <1>3, ChannelSteps, PTL DEF SumSpec

------------------------------------------------------------------------------
(* Enumerations of a set *)

\* A sequence without repetitions that is as long as a finite set, and in it, has all of it.
LEMMA EnumerationIsOnto ==
    ASSUME NEW S, IsFiniteSet(S), NEW q \in [1..Cardinality(S) -> S],
           \A i, j \in 1..Cardinality(S) : i # j => q[i] # q[j]
    PROVE  /\ q \in Seq(S) /\ Len(q) = Cardinality(S)
           /\ \A x \in S : \E i \in 1..Len(q) : q[i] = x
           /\ q = << >> => S = {}
<1> DEFINE n == Cardinality(S)
<1>1. n \in Nat BY FS_CardinalityType
<1>2. q \in Injection(1..n, S) BY DEF Injection, IsInjective
<1>3. IsFiniteSet(1..n) /\ Cardinality(1..n) = n BY <1>1, FS_Interval
<1>4. q \in Surjection(1..n, S) BY <1>2, <1>3, FS_Injection
<1>5. q \in Seq(S) /\ Len(q) = n BY <1>1
<1>6. \A x \in S : \E i \in 1..n : q[i] = x BY <1>4 DEF Surjection
<1> HIDE DEF n
<1>7. q = << >> => n = 0 BY <1>5
<1>8. n = 0 => S = {} BY <1>1, <1>6
<1> QED BY <1>5, <1>6, <1>7, <1>8 DEF n

------------------------------------------------------------------------------
(* The search for a subtitle file (SubtitleFetch) *)

\* A step of the sum that is not one of the search leaves its variables alone.
LEMMA FetchSteps == [SumNext]_allVars => [F!Next]_F!vars
  BY DEF SumNext, allVars, fVars, F!vars

FetchTyped ==
    /\ f_service \in F!Services /\ f_expired \in BOOLEAN /\ f_unwritten \in BOOLEAN
    /\ f_pc \in {"sidecar", "search", "download", "done"}
    /\ f_variant \in 1..(Variants + 1) /\ f_paths \in Seq(Paths) /\ f_tried \in 0..Len(f_paths)

\* Where the search is says how far it has come.
SearchIsInStep ==
    /\ f_pc \in {"sidecar", "search"} => f_variant <= Variants
    /\ f_pc = "sidecar" => f_variant = 1 /\ f_paths = << >>
    /\ f_pc \in {"sidecar", "search"} => f_tried = 0
    /\ f_pc = "download" => f_variant = Variants + 1
    /\ f_pc # "done" => f_result = "pending" /\ f_from = 0

\* The instance counts a set as this module does.
LEMMA SameSets ==
    \A S : (F!IsFiniteSet(S) <=> IsFiniteSet(S)) /\ F!Cardinality(S) = Cardinality(S)
  BY DEF F!IsFiniteSet, IsFiniteSet, F!Cardinality, Cardinality

\* The first variant whose hits have the path.
FirstIn(p, v) ==
    v \in 1..Variants /\ p \in f_service.hits[v] /\ \A u \in 1..(v - 1) : p \notin f_service.hits[u]

\* Among the hits of one variant p is to be tried no later than q.
NoWorse(p, q) ==
    IF f_service.episode THEN f_service.kind[p] <= f_service.kind[q] ELSE p <= q

\* p is to be tried no later than q, by the variants that have been searched.
Ahead(p, q) ==
    \E u, v \in 1..(f_variant - 1) :
        /\ FirstIn(p, u) /\ FirstIn(q, v)
        /\ u < v \/ (u = v /\ NoWorse(p, q))

\* While the context is alive: the hits of every variant that answered are among the paths, the
\* best first.
HitsAreRanked ==
    ~f_expired =>
        /\ \A v \in 1..(f_variant - 1) : f_service.hits[v] # F!Fails =>
              \A p \in f_service.hits[v] : \E i \in 1..Len(f_paths) : f_paths[i] = p
        /\ \A i, j \in 1..Len(f_paths) : i <= j => Ahead(f_paths[i], f_paths[j])

\* What has been tried without success was not English.
TriedInVain ==
    ~f_expired =>
        /\ ~f_unwritten /\ f_pc \in {"search", "download"} => f_service.sidecar # "english"
        /\ f_pc = "download" => \A i \in 1..f_tried : f_service.body[f_paths[i]] # "english"

FetchInv ==
    /\ FetchTyped /\ SearchIsInStep /\ HitsAreRanked /\ TriedInVain
    /\ F!NoSourceIsSkipped /\ F!ReliableFirst

\* The variant that FirstVariant chooses.
LEMMA FirstInIsFirst == ASSUME FetchTyped, NEW p, NEW v, FirstIn(p, v) PROVE F!FirstVariant(p) = v
<1>1. \A w \in 1..Variants :
          p \in f_service.hits[w] /\ (\A u \in 1..(w - 1) : p \notin f_service.hits[u]) => w = v
  BY FetchAssumed DEF FirstIn, F!SubtitleAssumption
<1> QED BY <1>1 DEF FirstIn, F!FirstVariant

\* An English path of a variant that was searched is among the paths.
LEMMA EnglishIsFound ==
    ASSUME FetchTyped, HitsAreRanked, ~f_expired, f_variant = Variants + 1,
           NEW p \in Paths, F!English(p)
    PROVE  \E i \in 1..Len(f_paths) : f_paths[i] = p
<1>1. PICK v \in 1..Variants : p \in f_service.hits[v] BY DEF F!English
<1>2. f_service.hits[v] # F!Fails BY <1>1, FetchAssumed DEF F!Fails, F!SubtitleAssumption
<1>3. v \in 1..(f_variant - 1) BY FetchAssumed DEF F!SubtitleAssumption
<1> QED BY <1>1, <1>2, <1>3 DEF HitsAreRanked

\* The paths of a variant that answered go behind those there are.
LEMMA FoundIsRanked ==
    ASSUME FetchTyped, SearchIsInStep, HitsAreRanked, f_pc = "search",
           ~f_expired, f_service.hits[f_variant] # F!Fails,
           f_paths' \in F!Found, f_variant' = f_variant + 1, UNCHANGED <<f_service, f_expired>>
    PROVE  /\ f_paths' \in Seq(Paths) /\ Len(f_paths') >= Len(f_paths)
           /\ HitsAreRanked'
<1> DEFINE hits == f_service.hits[f_variant]
           S == hits \ F!Range(f_paths)
<1> USE FetchAssumed DEF FetchTyped, F!SubtitleAssumption
<1>1. f_variant \in 1..Variants /\ hits \subseteq Paths
  BY DEF SearchIsInStep, F!Services
<1>2. IsFiniteSet(S) /\ F!Cardinality(S) = Cardinality(S)
  <2>1. IsFiniteSet(Paths) BY SameSets
  <2> QED BY <1>1, <2>1, FS_Subset, SameSets
<1>3. PICK q \in F!PickPaths(S) : f_paths' = f_paths \o q
  BY DEF F!Found
<1>4. /\ q \in [1..Cardinality(S) -> S]
      /\ \A i, j \in 1..Cardinality(S) : i # j => q[i] # q[j]
      /\ \A i, j \in DOMAIN q : i < j => F!Before(q[i], q[j])
  BY <1>2, <1>3 DEF F!PickPaths, F!SetToSeqs
<1>5. /\ q \in Seq(S) /\ Len(q) = Cardinality(S)
      /\ \A x \in S : \E i \in 1..Len(q) : q[i] = x
  <2> HIDE DEF S
  <2>1. /\ IsFiniteSet(S) /\ q \in [1..Cardinality(S) -> S]
        /\ \A i, j \in 1..Cardinality(S) : i # j => q[i] # q[j]
    BY <1>2, <1>4
  <2> QED BY ONLY <2>1, EnumerationIsOnto
<1> DEFINE L1 == Len(f_paths)
           L2 == Len(q)
<1>6. L1 \in Nat /\ L2 \in Nat /\ DOMAIN q = 1..L2 /\ q \in Seq(Paths)
  BY <1>1, <1>5, LenProperties
<1>7. /\ f_paths' \in Seq(Paths) /\ Len(f_paths') = L1 + L2
      /\ \A i \in 1..(L1 + L2) :
            f_paths'[i] = IF i <= L1 THEN f_paths[i] ELSE q[i - L1]
  BY <1>3, <1>6, ConcatProperties
<1> HIDE DEF L1, L2
\* The old paths keep their places, the new ones stand behind them.
<1>8. \A i \in 1..L1 : f_paths'[i] = f_paths[i]
  BY <1>6, <1>7
<1>9. \A i \in 1..L2 : L1 + i \in 1..(L1 + L2) /\ f_paths'[L1 + i] = q[i]
  BY <1>6, <1>7
<1>10. \A i \in 1..(L1 + L2) : i \in 1..L1 \/ (i - L1 \in 1..L2 /\ f_paths'[i] = q[i - L1])
  BY <1>6, <1>7
<1>11. \A i \in 1..L1 : i \in 1..(L1 + L2)
  BY <1>6
<1>12. 1..(f_variant' - 1) = 1..(f_variant - 1) \cup {f_variant}
  BY <1>1
<1>13. \A p \in hits : \E i \in 1..(L1 + L2) : f_paths'[i] = p
  <2> SUFFICES ASSUME NEW p \in hits PROVE \E i \in 1..(L1 + L2) : f_paths'[i] = p
    OBVIOUS
  <2>1. CASE p \in S BY <1>5, <1>9, <2>1 DEF L2
  <2>2. CASE p \notin S
    <3>1. p \in F!Range(f_paths) BY <2>2
    <3>2. DOMAIN f_paths = 1..L1 BY DEF L1
    <3>3. PICK i \in 1..L1 : f_paths[i] = p BY <3>1, <3>2 DEF F!Range
    <3> QED BY <1>8, <1>11, <3>3
  <2> QED BY <2>1, <2>2
<1>14. ASSUME NEW v \in 1..(f_variant' - 1), f_service.hits[v] # F!Fails,
              NEW p \in f_service.hits[v]
       PROVE  \E i \in 1..(L1 + L2) : f_paths'[i] = p
  <2>1. CASE v = f_variant BY <1>13, <2>1
  <2>2. CASE v \in 1..(f_variant - 1)
    <3>1. PICK i \in 1..L1 : f_paths[i] = p BY <1>14, <2>2 DEF HitsAreRanked, L1
    <3> QED BY <1>8, <1>11, <3>1
  <2> QED BY <1>12, <2>1, <2>2
\* What is new was in no hits before.
<1>15. \A p \in S : FirstIn(p, f_variant)
  <2> SUFFICES ASSUME NEW p \in S, NEW u \in 1..(f_variant - 1), p \in f_service.hits[u]
               PROVE  FALSE
    BY <1>1 DEF FirstIn
  <2>1. p # 0 BY <1>1
  <2>2. f_service.hits[u] # F!Fails BY <2>1 DEF F!Fails
  <2>3. PICK i \in 1..Len(f_paths) : f_paths[i] = p BY <2>2 DEF HitsAreRanked
  <2> QED BY <2>3 DEF F!Range
<1>16. \A p, v : FirstIn(p, v)' <=> FirstIn(p, v)
  BY DEF FirstIn
<1>17. ASSUME NEW i \in 1..(L1 + L2), NEW j \in 1..(L1 + L2), i <= j
       PROVE  Ahead(f_paths[i], f_paths[j])'
  <2>1. CASE i \in 1..L1 /\ j \in 1..L1
    <3>1. Ahead(f_paths[i], f_paths[j]) BY <1>17, <2>1 DEF HitsAreRanked, L1
    <3> QED BY <1>8, <1>12, <1>16, <2>1, <3>1 DEF Ahead, NoWorse
  <2>2. CASE i \in 1..L1 /\ j - L1 \in 1..L2 /\ f_paths'[j] = q[j - L1]
    <3>1. i <= i /\ Ahead(f_paths[i], f_paths[i])
      BY <1>6, <2>2 DEF HitsAreRanked, L1
    <3>2. PICK u \in 1..(f_variant - 1) : FirstIn(f_paths[i], u) BY <3>1 DEF Ahead
    <3>3. q[j - L1] \in S BY <1>5, <2>2 DEF L2
    <3>4. FirstIn(f_paths'[j], f_variant) BY <1>15, <2>2, <3>3
    <3>5. u < f_variant BY <1>1, <3>2
    <3> QED BY <1>8, <1>12, <1>16, <2>2, <3>2, <3>4, <3>5 DEF Ahead
  <2>3. CASE /\ i - L1 \in 1..L2 /\ f_paths'[i] = q[i - L1]
             /\ j - L1 \in 1..L2 /\ f_paths'[j] = q[j - L1]
    <3>1. q[i - L1] \in S /\ q[j - L1] \in S BY <1>5, <2>3 DEF L2
    <3>2. FirstIn(f_paths'[i], f_variant) /\ FirstIn(f_paths'[j], f_variant)
      BY <1>15, <2>3, <3>1
    <3>3. i = j \/ i - L1 < j - L1 BY <1>6, <1>17
    <3>4. NoWorse(q[i - L1], q[j - L1])
      <4>1. /\ f_service.kind[q[i - L1]] \in Nat /\ f_service.kind[q[j - L1]] \in Nat
            /\ q[i - L1] \in Nat /\ q[j - L1] \in Nat
        BY <1>1, <3>1 DEF F!Services
      <4>2. CASE i = j BY <4>1, <4>2 DEF NoWorse
      <4>3. CASE i - L1 < j - L1
        <5>1. F!Before(q[i - L1], q[j - L1]) BY <1>4, <1>6, <2>3, <4>3
        <5> QED BY <4>1, <5>1 DEF F!Before, F!BeforeByKind, F!BeforeByListing, NoWorse
      <4> QED BY <3>3, <4>2, <4>3
    <3>5. NoWorse(f_paths[i], f_paths[j])' BY <2>3, <3>4 DEF NoWorse
    <3> QED BY <1>12, <1>16, <3>2, <3>5 DEF Ahead
  <2>4. ~(i - L1 \in 1..L2 /\ j \in 1..L1) BY <1>6, <1>17
  <2> QED BY <1>10, <2>1, <2>2, <2>3, <2>4
<1>18. Len(f_paths') >= Len(f_paths) BY <1>6, <1>7 DEF L1
<1> QED BY <1>7, <1>14, <1>17, <1>18 DEF HitsAreRanked

\* A search that answers, fails or finds its context over leaves the paths ranked.
LEMMA ResolveKeepsFetch == ASSUME FetchInv, F!Resolve PROVE FetchInv'
<1> DEFINE fails == f_service.hits[f_variant] = F!Fails \/ f_expired
<1> USE FetchAssumed DEF FetchInv, F!SubtitleAssumption
<1>1. /\ f_pc = "search" /\ f_variant' = f_variant + 1 /\ f_variant \in 1..Variants
      /\ UNCHANGED <<f_service, f_tried, f_expired, f_unwritten>> /\ f_tried = 0
      /\ IF fails THEN f_paths' = f_paths ELSE f_paths' \in F!Found
  BY DEF F!Resolve, FetchTyped, SearchIsInStep
<1>2. f_paths' \in Seq(Paths) /\ Len(f_paths') \in Nat /\ HitsAreRanked'
  <2>1. CASE ~fails
    BY <1>1, <2>1, FoundIsRanked, LenProperties
  <2>2. CASE fails
    <3>1. f_paths' = f_paths BY <1>1, <2>2
    <3>2. 1..(f_variant' - 1) = 1..(f_variant - 1) \cup {f_variant} BY <1>1
    <3>3. \A p, v : FirstIn(p, v)' <=> FirstIn(p, v) BY <1>1 DEF FirstIn
    <3>4. \A p, q : Ahead(p, q) => Ahead(p, q)' BY <1>1, <3>2, <3>3 DEF Ahead, NoWorse
    <3>5. ASSUME ~f_expired, NEW i \in 1..Len(f_paths), NEW j \in 1..Len(f_paths), i <= j
          PROVE  Ahead(f_paths[i], f_paths[j])'
      <4>1. Ahead(f_paths[i], f_paths[j]) BY <3>5 DEF HitsAreRanked
      <4> QED BY <1>1, <3>1, <3>2, <3>3, <4>1 DEF Ahead, NoWorse
    <3>6. HitsAreRanked' BY <1>1, <2>2, <3>1, <3>2, <3>5 DEF HitsAreRanked
    <3> QED BY <3>1, <3>6, LenProperties DEF FetchTyped
  <2> QED BY <2>1, <2>2
<1>3. CASE f_pc' = "search"
  <2>1. f_variant < Variants /\ UNCHANGED <<f_result, f_from>>
    BY <1>1, <1>3 DEF F!Resolve, F!Continue, F!Finish
  <2>2. FetchTyped' BY <1>1, <1>2, <1>3, <2>1 DEF FetchTyped
  <2>3. SearchIsInStep' /\ TriedInVain' /\ F!NoSourceIsSkipped' /\ F!ReliableFirst'
    BY <1>1, <1>3, <2>1
    DEF SearchIsInStep, TriedInVain, F!NoSourceIsSkipped, F!ReliableFirst, FetchTyped
  <2> QED BY <1>2, <2>2, <2>3
<1>4. CASE f_pc' = "download"
  <2>1. f_variant = Variants /\ UNCHANGED <<f_result, f_from>>
    BY <1>1, <1>4 DEF F!Resolve, F!Continue, F!Finish
  <2>2. FetchTyped' BY <1>1, <1>2, <1>4, <2>1 DEF FetchTyped
  <2>3. SearchIsInStep' /\ TriedInVain' /\ F!NoSourceIsSkipped' /\ F!ReliableFirst'
    BY <1>1, <1>4, <2>1
    DEF SearchIsInStep, TriedInVain, F!NoSourceIsSkipped, F!ReliableFirst, FetchTyped
  <2> QED BY <1>2, <2>2, <2>3
<1>5. CASE f_pc' \notin {"search", "download"}
  <2>1. f_variant = Variants /\ f_paths' = << >> /\ f_pc' = "done" /\ f_from' = 0
    BY <1>1, <1>5 DEF F!Resolve, F!Continue, F!Finish
  <2>2. FetchTyped' BY <1>1, <1>2, <2>1 DEF FetchTyped
  <2>3. SearchIsInStep' /\ TriedInVain' /\ F!ReliableFirst'
    BY <2>1 DEF SearchIsInStep, TriedInVain, F!ReliableFirst
  <2>4. ASSUME ~f_expired', ~f_unwritten'
        PROVE  f_service'.sidecar # "english" /\ \A p \in Paths : ~F!English(p)'
    <3>1. f_service'.sidecar # "english" BY <1>1, <2>4 DEF TriedInVain
    <3>2. Len(f_paths') = 0 BY <2>1
    <3>3. f_variant' = Variants + 1 BY <1>1, <2>1
    <3>4. ASSUME NEW p \in Paths, NEW v \in 1..Variants, p \in f_service'.hits[v] PROVE FALSE
      <4>1. f_service'.hits[v] # F!Fails BY <3>4 DEF F!Fails
      <4>2. v \in 1..(f_variant' - 1) BY <3>3
      <4>3. \E i \in 1..Len(f_paths') : f_paths'[i] = p
        BY <1>2, <2>4, <3>4, <4>1, <4>2 DEF HitsAreRanked
      <4> QED BY <3>2, <4>3
    <3> QED BY <3>1, <3>4 DEF F!English
  <2> QED BY <1>2, <2>2, <2>3, <2>4 DEF F!NoSourceIsSkipped
<1> QED BY <1>3, <1>4, <1>5

\* Downloading takes the paths in their order until one is English.
LEMMA DownloadKeepsFetch == ASSUME FetchInv, F!DownloadPath PROVE FetchInv'
<1> USE FetchAssumed DEF FetchInv, F!SubtitleAssumption
<1>1. /\ f_pc = "download" /\ f_variant = Variants + 1 /\ f_from = 0 /\ f_result = "pending"
      /\ UNCHANGED <<f_service, f_variant, f_paths, f_expired>>
  BY DEF F!DownloadPath, SearchIsInStep
<1>2. HitsAreRanked'
  BY <1>1 DEF HitsAreRanked, Ahead, FirstIn, NoWorse
<1>3. Len(f_paths) \in Nat /\ f_tried \in 0..Len(f_paths)
  BY LenProperties DEF FetchTyped
<1>4. CASE f_tried = Len(f_paths)
  <2>1. f_pc' = "done" /\ f_from' = 0 /\ f_tried' = f_tried /\ f_unwritten' = f_unwritten
    BY <1>4 DEF F!DownloadPath, F!Finish, F!Written
  <2>2. FetchTyped' /\ SearchIsInStep' /\ TriedInVain' /\ F!ReliableFirst'
    BY <1>1, <2>1 DEF FetchTyped, SearchIsInStep, TriedInVain, F!ReliableFirst
  <2>3. ASSUME ~f_expired, NEW p \in Paths, F!English(p) PROVE FALSE
    <3>1. PICK i \in 1..Len(f_paths) : f_paths[i] = p BY <1>1, <2>3, EnglishIsFound
    <3>2. f_service.body[f_paths[i]] # "english" BY <1>1, <1>4, <2>3 DEF TriedInVain
    <3> QED BY <2>3, <3>1, <3>2 DEF F!English
  <2>4. F!NoSourceIsSkipped'
    BY <1>1, <2>1, <2>3 DEF F!NoSourceIsSkipped, F!English, TriedInVain
  <2> QED BY <1>2, <2>2, <2>4
<1>5. CASE f_tried # Len(f_paths)
  <2> DEFINE path == f_paths[f_tried + 1]
             body == IF f_expired THEN "unavailable" ELSE f_service.body[path]
  <2>1. /\ f_tried' = f_tried + 1 /\ f_tried + 1 \in 1..Len(f_paths)
        /\ f_unwritten' \in BOOLEAN
        /\ IF body = "english"
           THEN \/ F!Finish("english", path)
                \/ f_unwritten' /\ F!Finish("error", 0)
           ELSE F!Continue("download") /\ UNCHANGED f_unwritten
    <3>1. /\ f_tried' = f_tried + 1
          /\ IF body = "english"
             THEN \/ F!Written /\ F!Finish("english", path)
                  \/ F!NotWritten /\ F!Finish("error", 0)
             ELSE F!Written /\ F!Continue("download")
      BY <1>5 DEF F!DownloadPath
    <3>2. f_tried + 1 \in 1..Len(f_paths) BY <1>3, <1>5
    <3> HIDE DEF path, body
    <3>3. CASE body = "english"
      BY <3>1, <3>2, <3>3 DEF F!Written, F!NotWritten, FetchTyped
    <3>4. CASE body # "english"
      BY <3>1, <3>2, <3>4 DEF F!Written, FetchTyped
    <3> QED BY <3>3, <3>4
  <2>2. CASE body = "english" /\ F!Finish("english", path)
    <3>1. /\ ~f_expired /\ f_service.body[path] = "english"
          /\ f_pc' = "done" /\ f_result' = "english" /\ f_from' = path
      BY <2>2 DEF F!Finish
    <3>2. FetchTyped' /\ SearchIsInStep' /\ TriedInVain' /\ F!NoSourceIsSkipped'
      BY <1>1, <1>3, <2>1, <3>1
      DEF FetchTyped, SearchIsInStep, TriedInVain, F!NoSourceIsSkipped
    <3>3. ASSUME NEW p \in Paths, F!English(p)
          PROVE  \/ F!FirstVariant(path) < F!FirstVariant(p)
                 \/ /\ F!FirstVariant(path) = F!FirstVariant(p)
                    /\ IF f_service.episode THEN f_service.kind[path] <= f_service.kind[p]
                                            ELSE path <= p
      <4>1. PICK i \in 1..Len(f_paths) : f_paths[i] = p BY <1>1, <3>1, <3>3, EnglishIsFound
      <4>2. f_service.body[f_paths[i]] = "english" BY <3>3, <4>1 DEF F!English
      <4>3. ~(i \in 1..f_tried) BY <1>1, <3>1, <4>2 DEF TriedInVain
      <4>4. f_tried + 1 <= i BY <1>3, <4>3
      <4>5. Ahead(path, f_paths[i]) BY <2>1, <3>1, <4>4 DEF HitsAreRanked
      <4> HIDE DEF path
      <4> QED BY <4>1, <4>5, FirstInIsFirst DEF Ahead, NoWorse
    <3>4. F!ReliableFirst'
      <4> HIDE DEF path
      <4>1. \A p : F!FirstVariant(p)' = F!FirstVariant(p)
        BY <1>1 DEF F!FirstVariant
      <4>2. F!FirstVariant(f_from)' = F!FirstVariant(path)
        BY <1>1, <3>1 DEF F!FirstVariant
      <4>3. \A p : F!English(p)' <=> F!English(p)
        BY <1>1 DEF F!English
      <4> QED BY <1>1, <3>1, <3>3, <4>1, <4>2, <4>3 DEF F!ReliableFirst
    <3> QED BY <1>2, <3>2, <3>4
  <2>3. CASE body # "english"
    <3>1. f_pc' = "download" /\ f_result' = "pending" /\ f_from' = 0
      BY <1>1, <2>1, <2>3 DEF F!Continue
    <3>2. TriedInVain'
      <4>1. ~f_expired => f_service.body[path] # "english" BY <2>3
      <4>2. \A i \in 1..(f_tried + 1) : i \in 1..f_tried \/ i = f_tried + 1 BY <1>3
      <4> QED BY <1>1, <2>1, <3>1, <4>1, <4>2 DEF TriedInVain
    <3>3. /\ FetchTyped' /\ SearchIsInStep'
          /\ F!NoSourceIsSkipped' /\ F!ReliableFirst'
      BY <1>1, <1>3, <2>1, <3>1
      DEF FetchTyped, SearchIsInStep, F!NoSourceIsSkipped, F!ReliableFirst
    <3> QED BY <1>2, <3>2, <3>3
  <2>4. CASE body = "english" /\ f_unwritten' /\ F!Finish("error", 0)
    <3>1. f_pc' = "done" /\ f_result' = "error" /\ f_from' = 0
      BY <2>4 DEF F!Finish
    <3>2. /\ FetchTyped' /\ SearchIsInStep' /\ TriedInVain'
          /\ F!NoSourceIsSkipped' /\ F!ReliableFirst'
      BY <1>1, <1>3, <2>1, <2>4, <3>1
      DEF FetchTyped, SearchIsInStep, TriedInVain, F!NoSourceIsSkipped, F!ReliableFirst
    <3> QED BY <1>2, <3>2
  <2> HIDE DEF body
  <2> QED BY <2>1, <2>2, <2>3, <2>4
<1> QED BY <1>4, <1>5

\* For any variants, paths and contents, and wherever the context expires or the disk is full: one
\* source that fails hides no other that works, and the file comes from the first variant with an
\* English one; for an episode it is of the most reliable kind there, for a film the first one
\* listed (fetcher.go, subdl.go).
THEOREM SearchFindsTheBest == SumSpec => []BestSourceIsTaken
<1> USE FetchAssumed DEF F!SubtitleAssumption
<1>1. SumInit => FetchInv
  <2> SUFFICES ASSUME SumInit PROVE FetchInv OBVIOUS
  <2>1. /\ f_service \in F!Services /\ f_expired \in BOOLEAN /\ f_unwritten = FALSE
        /\ f_pc = "sidecar" /\ f_variant = 1 /\ f_paths = << >> /\ f_tried = 0
        /\ f_result = "pending" /\ f_from = 0
    BY DEF SumInit, F!Init
  <2>2. FetchTyped
    <3>1. f_paths \in Seq(Paths) /\ f_tried \in 0..Len(f_paths) BY <2>1
    <3>2. f_variant \in 1..(Variants + 1) BY <2>1
    <3> QED BY ONLY <2>1, <3>1, <3>2, Zenon DEF FetchTyped
  <2> QED
    BY <2>1, <2>2 DEF FetchInv, SearchIsInStep, HitsAreRanked, TriedInVain,
       F!NoSourceIsSkipped, F!ReliableFirst
<1>2. FetchInv /\ [F!Next]_F!vars => FetchInv'
  <2> SUFFICES ASSUME FetchInv, [F!Next]_F!vars PROVE FetchInv' OBVIOUS
  <2>1. CASE F!Expire
    BY <2>1 DEF F!Expire, FetchInv, FetchTyped, SearchIsInStep, HitsAreRanked, TriedInVain,
       F!NoSourceIsSkipped, F!ReliableFirst
  <2>2. CASE F!TryFebbox
    <3>1. /\ f_pc = "sidecar" /\ f_from' = 0 /\ f_unwritten' \in BOOLEAN
          /\ \/ f_pc' = "done" /\ f_result' = "english"
             \/ /\ f_pc' = "search" /\ f_result' = "pending"
                /\ f_unwritten' \/ f_expired \/ f_service.sidecar # "english"
          /\ UNCHANGED <<f_service, f_variant, f_paths, f_tried, f_expired>>
      BY <2>2 DEF F!TryFebbox, F!Finish, F!Continue, F!Written, F!NotWritten, FetchInv,
         FetchTyped, SearchIsInStep
    <3>2. HitsAreRanked' BY <3>1 DEF FetchInv, HitsAreRanked, Ahead, FirstIn, NoWorse
    <3> QED
      BY <3>1, <3>2 DEF FetchInv, FetchTyped, SearchIsInStep, TriedInVain,
         F!NoSourceIsSkipped, F!ReliableFirst
  <2>3. CASE UNCHANGED F!vars
    <3> USE <2>3 DEF F!vars, FetchInv
    <3>1. FetchTyped' /\ SearchIsInStep' /\ TriedInVain'
      BY DEF FetchTyped, SearchIsInStep, TriedInVain
    <3>2. HitsAreRanked' BY DEF HitsAreRanked, Ahead, FirstIn, NoWorse
    <3>3. F!NoSourceIsSkipped' BY DEF F!NoSourceIsSkipped, F!English
    <3>4. F!ReliableFirst'
      <4>1. \A p : F!FirstVariant(p)' = F!FirstVariant(p) BY DEF F!FirstVariant
      <4>2. F!FirstVariant(f_from)' = F!FirstVariant(f_from) BY DEF F!FirstVariant
      <4>3. \A p : F!English(p)' <=> F!English(p) BY DEF F!English
      <4> QED BY <4>1, <4>2, <4>3 DEF F!ReliableFirst
    <3> QED BY <3>1, <3>2, <3>3, <3>4
  <2> QED BY <2>1, <2>2, <2>3, ResolveKeepsFetch, DownloadKeepsFetch DEF F!Next
<1>3. FetchInv => BestSourceIsTaken
  BY DEF FetchInv, BestSourceIsTaken
<1> QED BY <1>1, <1>2, <1>3, FetchSteps, PTL DEF SumSpec

------------------------------------------------------------------------------
(* The largest and the least of finitely many numbers *)

\* A function on a finite set that is not empty has a largest value.
LEMMA LargestOf ==
    ASSUME NEW S, IsFiniteSet(S), S # {}, NEW f \in [S -> Int]
    PROVE  \E x \in S : \A y \in S : f[y] <= f[x]
<1> DEFINE Without == {U \in FiniteSubsetsOf(S) :
                          U # {} /\ ~\E x \in U : \A y \in U : f[y] <= f[x]}
<1>1. SUFFICES Without = {}
  BY DEF FiniteSubsetsOf
<1>2. SUFFICES ASSUME Without # {} PROVE FALSE
  OBVIOUS
<1>3. PICK U \in Without : \A V \in Without : <<V, U>> \notin StrictSubsetOrdering(S)
  <2>1. Without \subseteq FiniteSubsetsOf(S) OBVIOUS
  <2> HIDE DEF Without
  <2> QED BY <1>2, <2>1, FS_StrictSubsetOrderingWellFounded, WFMin
<1>4. PICK z \in U : TRUE
  OBVIOUS
<1> DEFINE V == U \ {z}
<1>5. V \in FiniteSubsetsOf(S) /\ V \subseteq U /\ V # U
  BY <1>4, FS_RemoveElement DEF FiniteSubsetsOf
<1>6. V \notin Without
  BY <1>3, <1>5 DEF StrictSubsetOrdering, FiniteSubsetsOf
<1>7. \E x \in U : \A y \in U : f[y] <= f[x]
  <2>1. \A x \in U : f[x] \in Int BY DEF FiniteSubsetsOf
  <2>2. CASE V = {} BY <2>1, <2>2
  <2>3. CASE V # {}
    <3>1. PICK m \in V : \A y \in V : f[y] <= f[m] BY <1>5, <1>6, <2>3
    <3>2. CASE f[m] <= f[z] BY <1>4, <2>1, <3>1, <3>2
    <3>3. CASE ~(f[m] <= f[z]) BY <1>4, <2>1, <3>1, <3>3
    <3> QED BY <3>2, <3>3
  <2> QED BY <2>2, <2>3
<1> QED BY <1>7

\* So does a set of indexes have a least one.
LEMMA LeastOf ==
    ASSUME NEW n \in Nat, NEW S \in SUBSET (1..n), S # {}
    PROVE  \E x \in S : \A j \in 1..(x - 1) : j \notin S
<1> DEFINE f == [x \in S |-> -x]
<1>1. IsFiniteSet(S)
  <2>1. IsFiniteSet(1..n) BY FS_Interval
  <2> QED BY <2>1, FS_Subset
<1>2. f \in [S -> Int] OBVIOUS
<1>3. \A x \in S : f[x] = -x OBVIOUS
<1> HIDE DEF f
<1>4. PICK x \in S : \A y \in S : f[y] <= f[x] BY <1>1, <1>2, LargestOf
<1>5. \A y \in S : x <= y BY <1>3, <1>4
<1>6. \A j \in 1..(x - 1) : ~(x <= j) BY <1>4
<1> QED BY <1>5, <1>6

------------------------------------------------------------------------------
(* The overlays of a title (SegmentOverlays) *)

\* A step of the sum that is not one of the overlays leaves their variables alone.
LEMMA OverlaySteps == [SumNext]_allVars => [G!Next]_G!vars
  BY DEF SumNext, allVars, gVars, G!vars, G!segmentVars

\* The intros that end, sorted: each is one of the record, all of the record are there, and there
\* is none only if the record has none.
LEMMA SortingsOf ==
    ASSUME NEW r \in Seq(G!Segments), NEW q \in G!Sortings(r)
    PROVE  /\ q \in Seq(G!Segments)
           /\ \A k \in 1..Len(q) : \E i \in DOMAIN r : G!HasEnd(r[i]) /\ q[k] = r[i]
           /\ \A i \in DOMAIN r : G!HasEnd(r[i]) => \E k \in 1..Len(q) : q[k] = r[i]
           /\ q = << >> => \A i \in DOMAIN r : ~G!HasEnd(r[i])
<1> DEFINE E == {i \in DOMAIN r : G!HasEnd(r[i])}
<1>1. DOMAIN r = 1..Len(r) /\ Len(r) \in Nat
  BY LenProperties
<1>2. IsFiniteSet(E) /\ G!Cardinality(E) = Cardinality(E)
  <2>1. IsFiniteSet(1..Len(r)) BY <1>1, FS_Interval
  <2>2. \A S : G!Cardinality(S) = Cardinality(S) BY DEF G!Cardinality, Cardinality
  <2> QED BY <1>1, <2>1, <2>2, FS_Subset
<1>3. PICK p \in G!SetToSeqs(E) : q = [i \in DOMAIN p |-> r[p[i]]]
  BY DEF G!Sortings
<1> HIDE DEF E
<1>4. /\ p \in [1..Cardinality(E) -> E]
      /\ \A i, j \in 1..Cardinality(E) : i # j => p[i] # p[j]
  BY <1>2, <1>3 DEF G!SetToSeqs
<1>5. p \in Seq(E) /\ Len(p) = Cardinality(E) /\ \A x \in E : \E i \in 1..Len(p) : p[i] = x
  BY ONLY <1>2, <1>4, EnumerationIsOnto
<1>6. DOMAIN p = 1..Len(p) /\ Len(p) \in Nat /\ \A i \in 1..Len(p) : p[i] \in E
  <2>1. DOMAIN p = 1..Len(p) /\ Len(p) \in Nat BY <1>5
  <2> QED BY <1>4, <1>5, <2>1
<1>7. \A i \in 1..Len(p) : p[i] \in DOMAIN r /\ G!HasEnd(r[p[i]]) /\ r[p[i]] \in G!Segments
  BY <1>1, <1>6 DEF E
<1>8. /\ q \in Seq(G!Segments) /\ Len(q) = Len(p)
      /\ \A i \in 1..Len(p) : q[i] = r[p[i]]
  BY <1>3, <1>6, <1>7
<1>9. q = << >> => E = {}
  <2>1. q = << >> => Cardinality(E) = 0 BY <1>5, <1>8
  <2> QED BY <1>2, <2>1, FS_EmptySet
<1>10. \A x \in E : \E i \in 1..Len(q) : q[i] = r[x]
  BY <1>5, <1>8
<1> QED BY <1>7, <1>8, <1>9, <1>10 DEF E

\* Dropping short intros leaves some of those there were, all that are long enough, and at least
\* one.
LEMMA DropShortKeeps ==
    ASSUME NEW q \in Seq(G!Segments)
    PROVE  /\ G!DropShort(q) \in Seq(G!Segments)
           /\ \A k \in 1..Len(G!DropShort(q)) : \E i \in 1..Len(q) : G!DropShort(q)[k] = q[i]
           /\ \A i \in 1..Len(q) : q[i].end - q[i].start >= MinIntro =>
                 \E k \in 1..Len(G!DropShort(q)) : G!DropShort(q)[k] = q[i]
           /\ G!DropShort(q) = << >> => q = << >>
<1>1. Len(q) \in Nat /\ DOMAIN q = 1..Len(q) /\ \A i \in 1..Len(q) : q[i] \in G!Segments
  BY LenProperties, ElementOfSeq
<1>2. CASE q = << >>
  BY <1>2 DEF G!DropShort
<1>3. CASE q # << >>
  <2> DEFINE Long(i) == q[i].end - q[i].start >= MinIntro
             Firsts == {i \in 1..Len(q) : Long(i) \/ i = Len(q)}
             IsFirst(i) == /\ Long(i) \/ i = Len(q)
                           /\ \A j \in 1..(i - 1) : ~Long(j)
             first == CHOOSE i \in DOMAIN q : IsFirst(i)
  <2>1. Len(q) \in 1..Len(q) /\ Len(q) > 0
    BY <1>1, <1>3, EmptySeq
  <2> HIDE DEF Long
  <2>2. \E i \in DOMAIN q : IsFirst(i)
    <3>1. Firsts \in SUBSET (1..Len(q)) /\ Firsts # {} BY <2>1
    <3> HIDE DEF Firsts
    <3>2. PICK m \in Firsts : \A j \in 1..(m - 1) : j \notin Firsts BY <1>1, <3>1, LeastOf
    <3>3. m \in 1..Len(q) BY <3>1
    <3>4. \A j \in 1..(m - 1) : j \in 1..Len(q) BY <1>1, <3>3
    <3> USE DEF Firsts
    <3> QED BY <1>1, <3>2, <3>3, <3>4
  <2> HIDE DEF IsFirst, Firsts
  <2>4. first \in 1..Len(q) /\ \A j \in 1..(first - 1) : ~Long(j)
    <3>1. first \in DOMAIN q /\ IsFirst(first) BY <2>2
    <3> QED BY <1>1, <3>1 DEF IsFirst
  <2>5. G!DropShort(q) = SubSeq(q, first, Len(q))
    BY <1>3 DEF G!DropShort, IsFirst, Long
  <2> HIDE DEF first
  <2>6. \A i \in first..Len(q) : q[i] \in G!Segments
    BY <1>1, <2>4
  <2>7. /\ SubSeq(q, first, Len(q)) \in Seq(G!Segments)
        /\ Len(SubSeq(q, first, Len(q))) = Len(q) - first + 1
        /\ \A k \in 1..(Len(q) - first + 1) : SubSeq(q, first, Len(q))[k] = q[first + k - 1]
    <3>1. first \in Int /\ Len(q) \in Int /\ first <= Len(q) BY <1>1, <2>4
    <3> QED BY <2>6, <3>1, SubSeqProperties
  <2>8. \A k \in 1..(Len(q) - first + 1) : first + k - 1 \in 1..Len(q)
    BY <1>1, <2>4
  <2>9. Len(q) - first + 1 > 0
    BY <1>1, <2>4
  <2> DEFINE d == SubSeq(q, first, Len(q))
  <2> HIDE DEF d
  <2>10. \A k \in 1..Len(d) : \E i \in 1..Len(q) : d[k] = q[i]
    BY <2>7, <2>8 DEF d
  <2>11. d # << >>
    <3>1. Len(d) > 0 BY <2>7, <2>9 DEF d
    <3> QED BY <3>1
  <2>12. ASSUME NEW i \in 1..Len(q), Long(i) PROVE \E k \in 1..Len(d) : d[k] = q[i]
    <3>1. ~(i \in 1..(first - 1)) BY <2>4, <2>12
    <3>2. /\ i - first + 1 \in 1..(Len(q) - first + 1)
          /\ first + (i - first + 1) - 1 = i
      BY <1>1, <2>4, <3>1
    <3>3. d[i - first + 1] = q[i] /\ i - first + 1 \in 1..Len(d) BY <2>7, <3>2 DEF d
    <3> QED BY <3>3
  <2>13. \A i \in 1..Len(q) : q[i].end - q[i].start >= MinIntro =>
            \E k \in 1..Len(d) : d[k] = q[i]
    BY <2>12 DEF Long
  <2> QED BY <2>5, <2>7, <2>10, <2>11, <2>13 DEF d
<1> QED BY <1>2, <1>3

\* What the viable intros of a record are.
LEMMA ViableIntrosOf ==
    ASSUME NEW r \in Seq(G!Segments), NEW q \in G!ViableIntros(r)
    PROVE  /\ q \in Seq(G!Segments)
           /\ \A k \in 1..Len(q) : \E i \in DOMAIN r : G!HasEnd(r[i]) /\ q[k] = r[i]
           /\ \A i \in DOMAIN r : G!HasEnd(r[i]) /\ r[i].end - r[i].start >= MinIntro =>
                 \E k \in 1..Len(q) : q[k] = r[i]
           /\ q = << >> <=> \A i \in DOMAIN r : ~G!HasEnd(r[i])
<1>1. PICK s \in G!Sortings(r) : q = G!DropShort(s)
  BY DEF G!ViableIntros
<1>2. s \in Seq(G!Segments) BY SortingsOf
<1>3. /\ q \in Seq(G!Segments)
      /\ q = << >> => s = << >>
      /\ \A k \in 1..Len(q) : \E j \in 1..Len(s) : q[k] = s[j]
      /\ \A j \in 1..Len(s) : s[j].end - s[j].start >= MinIntro =>
            \E k \in 1..Len(q) : q[k] = s[j]
  BY <1>1, <1>2, DropShortKeeps
<1>4. ASSUME NEW k \in 1..Len(q) PROVE \E i \in DOMAIN r : G!HasEnd(r[i]) /\ q[k] = r[i]
  <2>1. PICK j \in 1..Len(s) : q[k] = s[j] BY <1>3
  <2>2. \E i \in DOMAIN r : G!HasEnd(r[i]) /\ s[j] = r[i] BY SortingsOf
  <2> QED BY <2>1, <2>2
<1>5. q = << >> => \A i \in DOMAIN r : ~G!HasEnd(r[i])
  BY <1>3, SortingsOf
<1>6. q # << >> => 1 \in 1..Len(q)
  BY <1>3, EmptySeq
<1>7. (\A i \in DOMAIN r : ~G!HasEnd(r[i])) => q = << >>
  BY <1>4, <1>6
<1>8. ASSUME NEW i \in DOMAIN r, G!HasEnd(r[i]), r[i].end - r[i].start >= MinIntro
      PROVE  \E k \in 1..Len(q) : q[k] = r[i]
  <2>1. PICK j \in 1..Len(s) : s[j] = r[i] BY <1>1, <1>8, SortingsOf
  <2> QED BY <1>3, <1>8, <2>1
<1> QED BY <1>3, <1>4, <1>5, <1>7, <1>8

\* /skip-intro goes forward from a position, to where one of the intros ends; it refuses only
\* outside of all of them, and says that they are over only when all are.
LEMMA TargetIsAhead ==
    ASSUME NEW q \in Seq(G!Segments), NEW p \in Nat,
           \A k \in 1..Len(q) : G!HasEnd(q[k])
    PROVE  LET target == G!IntroSkipTarget(q, p)
           IN  /\ target.kind = "ok" =>
                     target.to > p /\ \E k \in 1..Len(q) : target.to = q[k].end
               /\ target.kind = "none" <=> q = << >>
               /\ target.kind = "notIn" => \A k \in 1..Len(q) : ~G!Shows(q[k], p)
               /\ target.kind = "past" => \A k \in 1..Len(q) : q[k].end <= p
<1> DEFINE In(i) == q[i].start <= p /\ p < q[i].end
           IsFirst(i) == In(i) /\ \A j \in 1..(i - 1) : ~In(j)
           first == CHOOSE i \in DOMAIN q : IsFirst(i)
<1>1. /\ Len(q) \in Nat /\ DOMAIN q = 1..Len(q)
      /\ q # << >> => 1 \in 1..Len(q)
      /\ \A i \in 1..Len(q) : q[i].end \in Nat
  <2>1. Len(q) \in Nat /\ DOMAIN q = 1..Len(q) BY LenProperties
  <2>2. \A i \in 1..Len(q) : q[i] \in G!Segments BY ElementOfSeq
  <2>3. q # << >> => 1 \in 1..Len(q) BY EmptySeq
  <2> QED BY <2>1, <2>2, <2>3 DEF G!Segments, G!HasEnd
<1>2. CASE q = << >>
  BY <1>1, <1>2 DEF G!IntroSkipTarget
<1>3. CASE q # << >> /\ \E i \in DOMAIN q : In(i)
  <2> DEFINE Ins == {i \in 1..Len(q) : In(i)}
  <2> HIDE DEF In
  <2>2. \E i \in DOMAIN q : IsFirst(i)
    <3>1. Ins \in SUBSET (1..Len(q)) /\ Ins # {} BY <1>1, <1>3
    <3> HIDE DEF Ins
    <3>2. PICK m \in Ins : \A j \in 1..(m - 1) : j \notin Ins BY <1>1, <3>1, LeastOf
    <3>3. m \in 1..Len(q) BY <3>1
    <3>4. \A j \in 1..(m - 1) : j \in 1..Len(q) BY <1>1, <3>3
    <3> USE DEF Ins
    <3> QED BY <1>1, <3>2, <3>3, <3>4
  <2> HIDE DEF IsFirst, Ins
  <2>3. first \in DOMAIN q /\ IsFirst(first)
    BY <2>2
  <2>4. G!IntroSkipTarget(q, p) = [kind |-> "ok", to |-> q[first].end]
    BY <1>3 DEF G!IntroSkipTarget, IsFirst, In
  <2> HIDE DEF first
  <2>5. first \in 1..Len(q) /\ q[first].end > p
    BY <1>1, <2>3 DEF IsFirst, In
  <2> QED BY <1>3, <2>4, <2>5
<1>4. CASE q # << >> /\ ~\E i \in DOMAIN q : In(i)
  <2>1. G!IntroSkipTarget(q, p) =
            IF p < q[1].end THEN [kind |-> "ok", to |-> q[1].end]
            ELSE IF \E i \in DOMAIN q : p < q[i].end
                 THEN [kind |-> "notIn", to |-> G!Never] ELSE [kind |-> "past", to |-> G!Never]
    BY <1>4 DEF G!IntroSkipTarget
  <2>2. 1 \in 1..Len(q) /\ q[1].end \in Nat BY <1>1, <1>4
  <2>3. \A k \in 1..Len(q) : ~G!Shows(q[k], p) BY <1>1, <1>4 DEF G!Shows
  <2>4. (~\E i \in DOMAIN q : p < q[i].end) => \A k \in 1..Len(q) : q[k].end <= p
    BY <1>1
  <2> HIDE DEF In
  <2> QED BY <1>4, <2>1, <2>2, <2>3, <2>4
<1> QED BY <1>2, <1>3, <1>4

\* The credits begin at a position of the title, if they are found.
LEMMA CreditsStartOf ==
    ASSUME NEW r \in Seq(G!Segments) PROVE G!CreditsStart(r) \in Nat \cup {G!Never}
<1> DEFINE Late(percent) == {i \in DOMAIN r : G!HasEnd(r[i])
                                              /\ r[i].start >= (Duration * percent) \div 100}
           Latest(S) == CHOOSE i \in S : \A j \in S : r[j].start <= r[i].start
           LastOf(S) == CHOOSE i \in S : \A j \in S : j <= i
<1>1. /\ Len(r) \in Nat /\ DOMAIN r = 1..Len(r) /\ IsFiniteSet(1..Len(r))
      /\ \A i \in 1..Len(r) : r[i].start \in Nat
  <2>1. Len(r) \in Nat /\ DOMAIN r = 1..Len(r) BY LenProperties
  <2>2. IsFiniteSet(1..Len(r)) BY <2>1, FS_Interval
  <2>3. \A i \in 1..Len(r) : r[i] \in G!Segments BY ElementOfSeq
  <2> QED BY <2>1, <2>2, <2>3 DEF G!Segments
<1>2. \A percent : Late(percent) \subseteq 1..Len(r)
  BY <1>1
<1>3. ASSUME NEW S \in SUBSET (1..Len(r)), S # {}
      PROVE  Latest(S) \in S /\ LastOf(S) \in S
  <2> DEFINE f == [i \in S |-> r[i].start]
             g == [i \in S |-> i]
  <2>1. IsFiniteSet(S) BY <1>1, FS_Subset
  <2>2. f \in [S -> Int] /\ \A i \in S : f[i] = r[i].start BY <1>1
  <2>3. g \in [S -> Int] /\ \A i \in S : g[i] = i BY <1>1
  <2> HIDE DEF f, g
  <2>4. \E i \in S : \A j \in S : f[j] <= f[i] BY <1>3, <2>1, <2>2, LargestOf
  <2>5. \E i \in S : \A j \in S : g[j] <= g[i] BY <1>3, <2>1, <2>3, LargestOf
  <2>6. \E i \in S : \A j \in S : r[j].start <= r[i].start BY <2>2, <2>4
  <2>7. \E i \in S : \A j \in S : j <= i BY <2>3, <2>5
  <2> QED BY <2>6, <2>7
<1>4. G!CreditsStart(r) =
          IF Late(75) # {} THEN r[Latest(Late(75))].start
          ELSE IF Late(65) # {} THEN r[LastOf(Late(65))].start ELSE G!Never
  BY DEF G!CreditsStart
<1> HIDE DEF Late, Latest, LastOf
<1>5. Late(75) # {} => Latest(Late(75)) \in 1..Len(r) BY <1>2, <1>3
<1>6. Late(65) # {} => LastOf(Late(65)) \in 1..Len(r) BY <1>2, <1>3
<1> QED BY <1>1, <1>4, <1>5, <1>6

OverlaysTyped ==
    /\ g_record \in Seq(G!Segments) /\ g_creditsTrigger \in Nat
    /\ \A c \in g_timedCTAs :
          c \in [kind : {"intro", "credits"}, start : Nat, end : Nat]
    /\ g_offset \in Nat \cup {G!Never} /\ g_position \in Nat
    /\ g_answer.kind = "asked" => g_answer.from \in Nat

\* A segment draws what BuildCTAWindows makes of the overlays it was requested with, unless the
\* path of the font was lost once it was probed.
WindowsAreBuilt ==
    g_offset # G!Never =>
        /\ g_built \subseteq g_timedCTAs
        /\ \/ g_probed /\ g_windows = {}
           \/ g_windows = G!BuildCTAWindows(g_built, g_offset)

\* There is an overlay of the credits exactly when there is a trigger, and it begins there.
CreditsAreAtTrigger ==
    /\ g_creditsTrigger > 0 =>
          \E c \in g_timedCTAs : c.kind = "credits" /\ c.start = g_creditsTrigger
    /\ \A c \in g_timedCTAs :
          c.kind = "credits" => g_creditsTrigger > 0 /\ c.start = g_creditsTrigger

OverlaysInv ==
    OverlaysTyped /\ WindowsAreBuilt /\ CreditsAreAtTrigger /\ G!SkipLeavesTheIntro

\* A window is drawn at a time of the segment exactly when its overlay is due at the position.
LEMMA WindowsAreInTime ==
    ASSUME NEW ctas, \A c \in ctas : c.start \in Nat /\ c.end \in Nat,
           NEW kind, NEW from \in Nat, NEW p \in Nat, from <= p
    PROVE  (\E w \in G!BuildCTAWindows(ctas, from) : w.kind = kind /\ G!Shows(w, p - from))
               <=> \E c \in ctas : c.kind = kind /\ G!Shows(c, p)
<1> DEFINE Window(c) == [kind |-> c.kind, start |-> IF c.start < from THEN 0 ELSE c.start - from,
                         end |-> c.end - from]
<1>1. \A c \in ctas : /\ Window(c).kind = c.kind
                      /\ c.end > from /\ G!Shows(Window(c), p - from) <=> G!Shows(c, p)
  BY DEF G!Shows
<1>2. G!BuildCTAWindows(ctas, from) = {Window(c) : c \in {d \in ctas : d.end > from}}
  BY DEF G!BuildCTAWindows
<1> HIDE DEF Window
<1> QED BY <1>1, <1>2

\* Arming adds at most the overlay of an intro.
LEMMA ArmedIntroOf ==
    ASSUME NEW r \in Seq(G!Segments), NEW ctas, NEW armed \in G!ArmedIntro(r, ctas)
    PROVE  \/ armed = ctas
           \/ \E c \in [kind : {"intro"}, start : Nat, end : Nat] : armed = ctas \cup {c}
<1>1. PICK q \in G!ViableIntros(r) :
          armed = IF G!Has("intro", ctas) \/ q = << >> THEN ctas
                  ELSE ctas \cup {[kind |-> "intro", start |-> q[1].start, end |-> q[1].end]}
  BY DEF G!ArmedIntro
<1>2. CASE armed # ctas
  <2>1. q # << >> /\ q \in Seq(G!Segments) BY <1>1, <1>2, ViableIntrosOf
  <2>2. 1 \in 1..Len(q) BY <2>1, EmptySeq
  <2>3. PICK i \in DOMAIN r : G!HasEnd(r[i]) /\ q[1] = r[i] BY <2>2, ViableIntrosOf
  <2>4. q[1] \in G!Segments BY <2>1, <2>2, ElementOfSeq
  <2>5. q[1].start \in Nat /\ q[1].end \in Nat
    BY <2>3, <2>4 DEF G!Segments, G!HasEnd
  <2> QED BY <1>1, <1>2, <2>5
<1> QED BY <1>2

\* Records are sequences of segments.
LEMMA RecordsAreSegments == \A r \in Records \cup {<< >>} : r \in Seq(G!Segments)
  BY OverlaysAssumed, EmptySeq DEF G!OverlaysAssumption

\* When a segment is probed the overlays are armed, and what it draws stays or is lost.
LEMMA SupplyKeepsOverlays == ASSUME OverlaysInv, G!SupplyCTAs PROVE OverlaysInv'
<1> USE DEF OverlaysInv
<1>1. g_record' \in Seq(G!Segments)
  BY RecordsAreSegments DEF G!SupplyCTAs, OverlaysTyped
<1>2. PICK ctas \in G!ArmedIntro(g_record', g_timedCTAs) : G!ArmCredits(g_record', ctas)
  BY DEF G!SupplyCTAs
<1>windows. ASSUME g_timedCTAs \subseteq g_timedCTAs' PROVE WindowsAreBuilt'
  BY <1>windows DEF G!SupplyCTAs, G!Playing, G!Finished, WindowsAreBuilt
<1>others. /\ g_offset' \in {g_offset, G!Never} /\ g_position' = g_position /\ g_answer' = g_answer
  BY DEF G!SupplyCTAs, G!Playing, G!Finished
<1>answer. G!SkipLeavesTheIntro'
  BY <1>others DEF G!SkipLeavesTheIntro
<1> DEFINE start == G!CreditsStart(g_record')
           Credits == [kind |-> "credits", start |-> start, end |-> Duration]
<1>3. start \in Nat \cup {G!Never} /\ Duration \in Nat
  BY <1>1, CreditsStartOf, OverlaysAssumed DEF G!OverlaysAssumption
<1> HIDE DEF start
\* What an intro adds does not concern the credits.
<1>4. /\ \A c \in ctas : c \in [kind : {"intro", "credits"}, start : Nat, end : Nat]
      /\ \A c : c.kind = "credits" => (c \in ctas <=> c \in g_timedCTAs)
      /\ g_timedCTAs \subseteq ctas
  <2>1. CASE ctas = g_timedCTAs BY <2>1 DEF OverlaysTyped
  <2>2. CASE ctas # g_timedCTAs
    <3>1. PICK c \in [kind : {"intro"}, start : Nat, end : Nat] : ctas = g_timedCTAs \cup {c}
      BY <1>1, <1>2, <2>2, ArmedIntroOf
    <3> QED BY <3>1 DEF OverlaysTyped
  <2> QED BY <2>1, <2>2
<1>5. CASE g_creditsTrigger > 0 \/ ~g_autoNext \/ start <= 0
  <2>1. g_timedCTAs' = ctas /\ g_creditsTrigger' = g_creditsTrigger
    BY <1>2, <1>5 DEF G!ArmCredits, start
  <2>2. OverlaysTyped' BY <1>1, <1>4, <1>others, <2>1 DEF OverlaysTyped
  <2>3. CreditsAreAtTrigger' BY <1>4, <2>1 DEF CreditsAreAtTrigger
  <2> QED BY <1>4, <1>windows, <1>answer, <2>1, <2>2, <2>3
<1>6. CASE ~(g_creditsTrigger > 0 \/ ~g_autoNext \/ start <= 0)
  <2>1. ~G!Has("credits", ctas) BY <1>4, <1>6 DEF G!Has, CreditsAreAtTrigger
  <2>2. g_creditsTrigger' = start /\ g_timedCTAs' = ctas \cup {Credits}
    BY <1>2, <1>6, <2>1 DEF G!ArmCredits, start
  <2>3. start \in Nat /\ start > 0 BY <1>3, <1>6
  <2>4. OverlaysTyped'
    BY <1>1, <1>3, <1>4, <1>others, <2>2, <2>3 DEF OverlaysTyped
  <2>5. CreditsAreAtTrigger'
    <3>1. Credits.kind = "credits" /\ Credits.start = start OBVIOUS
    <3>2. \A c \in ctas : c.kind # "credits" BY <2>1 DEF G!Has
    <3> HIDE DEF Credits
    <3> QED BY <2>2, <2>3, <3>1, <3>2 DEF CreditsAreAtTrigger
  <2> QED BY <1>4, <1>windows, <1>answer, <2>2, <2>4, <2>5
<1> QED BY <1>5, <1>6

\* /skip-intro answers with the target among the viable intros of the record it looked up, as
\* seen from the position it had read.
LEMMA SkipKeepsOverlays ==
    ASSUME OverlaysInv, NEW r \in Records, G!ResolveIntroSkipTarget(r)
    PROVE  OverlaysInv'
<1> DEFINE p == g_answer.from
<1> USE DEF OverlaysInv
<1>1. PICK q \in G!ViableIntros(r) :
          LET target == G!IntroSkipTarget(q, p)
          IN  /\ g_answer' = [of |-> r, from |-> p, kind |-> target.kind, to |-> target.to]
              /\ G!Finished \/ (G!Playing /\ UNCHANGED g_probed)
  BY DEF G!ResolveIntroSkipTarget
<1>2. /\ g_offset' = G!Never \/ UNCHANGED <<g_offset, g_built, g_windows, g_probed>>
      /\ UNCHANGED <<g_record, g_timedCTAs, g_creditsTrigger, g_position>>
  BY <1>1 DEF G!ResolveIntroSkipTarget, G!Finished, G!Playing
<1> DEFINE target == G!IntroSkipTarget(q, p)
           ended == {i \in DOMAIN r : G!HasEnd(r[i])}
           long == {i \in ended : r[i].end - r[i].start >= MinIntro}
<1>3. r \in Seq(G!Segments) /\ p \in Nat
  BY RecordsAreSegments DEF G!ResolveIntroSkipTarget, OverlaysTyped
<1>4. /\ q \in Seq(G!Segments)
      /\ \A k \in 1..Len(q) : \E i \in ended : q[k] = r[i]
      /\ \A i \in long : \E k \in 1..Len(q) : q[k] = r[i]
      /\ q = << >> <=> ended = {}
  <2>1. /\ q \in Seq(G!Segments)
        /\ \A k \in 1..Len(q) : \E i \in DOMAIN r : G!HasEnd(r[i]) /\ q[k] = r[i]
        /\ \A i \in DOMAIN r : G!HasEnd(r[i]) /\ r[i].end - r[i].start >= MinIntro =>
              \E k \in 1..Len(q) : q[k] = r[i]
        /\ q = << >> <=> \A i \in DOMAIN r : ~G!HasEnd(r[i])
    BY <1>3, ViableIntrosOf
  <2> QED BY <2>1
<1>5. \A k \in 1..Len(q) : G!HasEnd(q[k])
  BY <1>4
<1>6. /\ target.kind = "ok" => target.to > p /\ \E k \in 1..Len(q) : target.to = q[k].end
      /\ target.kind = "none" <=> q = << >>
      /\ target.kind = "notIn" => \A k \in 1..Len(q) : ~G!Shows(q[k], p)
      /\ target.kind = "past" => \A k \in 1..Len(q) : q[k].end <= p
  BY <1>3, <1>4, <1>5, TargetIsAhead
<1> HIDE DEF target, p
<1>7. /\ g_answer'.of = r /\ g_answer'.from = p
      /\ g_answer'.kind = target.kind /\ g_answer'.to = target.to
  BY <1>1 DEF target
<1>8. target.kind # "asked"
  BY DEF target, G!IntroSkipTarget
<1>9. OverlaysTyped' /\ WindowsAreBuilt' /\ CreditsAreAtTrigger'
  BY <1>2, <1>7, <1>8 DEF OverlaysTyped, WindowsAreBuilt, CreditsAreAtTrigger
<1> HIDE DEF ended, long
<1>10. /\ target.kind = "ok" => \E i \in ended : target.to = r[i].end /\ target.to > p
       /\ target.kind = "none" <=> ended = {}
       /\ target.kind = "notIn" => \A i \in long : ~G!Shows(r[i], p)
       /\ target.kind = "past" => \A i \in long : r[i].end <= p
  BY <1>4, <1>6
<1>11. G!SkipLeavesTheIntro'
  BY <1>7, <1>10 DEF G!SkipLeavesTheIntro, ended, long
<1> QED BY <1>9, <1>11

\* For any records, seeks and answers of TheIntroDB: each overlay that a segment was requested with
\* is drawn exactly while the media are in its part of the title, or none is once the font is
\* lost; the next episode is offered at the position that the overlay of the credits names; and
\* /skip-intro lands where an intro ends, later than the position it has read, which says nothing
\* of the position there is by then (playback.go, credits.go, introdb/skip.go).
THEOREM OverlaysFollowTheMedia == SumSpec => []OverlaysAreInTime
<1>1. SumInit => OverlaysInv
  <2> SUFFICES ASSUME SumInit PROVE OverlaysInv OBVIOUS
  <2>1. /\ g_record \in Seq(G!Segments) /\ g_timedCTAs \in G!ArmedIntro(g_record, {})
        /\ g_creditsTrigger = 0 /\ g_offset = G!Never /\ g_answer = G!NoAnswer
        /\ g_position = 0
    BY RecordsAreSegments DEF SumInit, G!Init
  <2>2. \A c \in g_timedCTAs : c \in [kind : {"intro"}, start : Nat, end : Nat]
    BY <2>1, ArmedIntroOf
  <2>3. OverlaysTyped
    <3>1. \A c \in g_timedCTAs : c \in [kind : {"intro", "credits"}, start : Nat, end : Nat]
      BY <2>2
    <3> QED BY <2>1, <3>1 DEF OverlaysTyped, G!NoAnswer
  <2>4. CreditsAreAtTrigger BY <2>1, <2>2 DEF CreditsAreAtTrigger
  <2>5. WindowsAreBuilt BY <2>1 DEF WindowsAreBuilt
  <2>6. G!SkipLeavesTheIntro
    BY <2>1 DEF G!SkipLeavesTheIntro, G!NoAnswer, G!Answers
  <2> QED BY <2>3, <2>4, <2>5, <2>6 DEF OverlaysInv
<1>2. OverlaysInv /\ [G!Next]_G!vars => OverlaysInv'
  <2> SUFFICES ASSUME OverlaysInv, [G!Next]_G!vars PROVE OverlaysInv' OBVIOUS
  <2> USE DEF OverlaysInv
  <2>1. ASSUME NEW p \in G!Positions, G!StartSegment(p) PROVE OverlaysInv'
    <3>1. /\ g_offset' = p /\ g_windows' = G!BuildCTAWindows(g_timedCTAs, p)
          /\ g_position' = p /\ g_built' = g_timedCTAs
          /\ UNCHANGED <<g_record, g_timedCTAs, g_creditsTrigger, g_answer>>
      BY <2>1 DEF G!StartSegment
    <3>2. p \in Nat BY DEF G!Positions
    <3>3. OverlaysTyped' BY <3>1, <3>2 DEF OverlaysTyped
    <3>4. WindowsAreBuilt' BY <3>1 DEF WindowsAreBuilt
    <3>5. CreditsAreAtTrigger' BY <3>1 DEF CreditsAreAtTrigger
    <3>6. G!SkipLeavesTheIntro' BY <3>1 DEF G!SkipLeavesTheIntro
    <3> QED BY <3>3, <3>4, <3>5, <3>6
  <2>2. CASE G!Play
    BY <2>2, OverlaysAssumed DEF G!Play, G!OverlaysAssumption, OverlaysTyped, WindowsAreBuilt,
       CreditsAreAtTrigger, G!SkipLeavesTheIntro
  <2>3. CASE G!EndSegment
    BY <2>3 DEF G!EndSegment, G!Finished, OverlaysTyped, WindowsAreBuilt, CreditsAreAtTrigger,
       G!SkipLeavesTheIntro
  <2>4. CASE G!ExecuteSkipIntro \/ G!SkipLookupFails
    <3>1. /\ g_answer' \in {[from |-> g_position, kind |-> "asked"], G!NoAnswer}
          /\ UNCHANGED <<g_record, g_timedCTAs, g_creditsTrigger, G!segmentVars>>
      BY <2>4 DEF G!ExecuteSkipIntro, G!SkipLookupFails
    <3>2. OverlaysTyped' /\ WindowsAreBuilt' /\ CreditsAreAtTrigger'
      BY <3>1 DEF G!segmentVars, G!NoAnswer, OverlaysTyped, WindowsAreBuilt, CreditsAreAtTrigger
    <3>3. G!SkipLeavesTheIntro'
      BY <3>1 DEF G!SkipLeavesTheIntro, G!NoAnswer, G!Answers
    <3> QED BY <3>2, <3>3
  <2>5. CASE UNCHANGED G!vars
    BY <2>5 DEF G!vars, G!segmentVars, OverlaysTyped, WindowsAreBuilt, CreditsAreAtTrigger,
       G!SkipLeavesTheIntro
  <2> HIDE DEF OverlaysInv
  <2> QED BY <2>1, <2>2, <2>3, <2>4, <2>5, SupplyKeepsOverlays, SkipKeepsOverlays DEF G!Next
<1>3. OverlaysInv => OverlaysAreInTime
  <2> SUFFICES ASSUME OverlaysInv PROVE OverlaysAreInTime OBVIOUS
  <2> USE DEF OverlaysInv
  <2>1. ASSUME g_offset # G!Never, ~(g_probed /\ g_windows = {}),
               NEW kind, NEW p \in g_offset..Duration
        PROVE  (\E w \in g_windows : w.kind = kind /\ G!Shows(w, p - g_offset))
                   <=> \E c \in g_built : c.kind = kind /\ G!Shows(c, p)
    <3>1. g_offset \in Nat /\ p \in Nat /\ g_offset <= p
      BY <2>1, OverlaysAssumed DEF OverlaysTyped, G!OverlaysAssumption
    <3>2. \A c \in g_built : c.start \in Nat /\ c.end \in Nat
      BY <2>1 DEF OverlaysTyped, WindowsAreBuilt
    <3>3. g_windows = G!BuildCTAWindows(g_built, g_offset) BY <2>1 DEF WindowsAreBuilt
    <3> QED BY <3>1, <3>2, <3>3, WindowsAreInTime
  <2>2. G!OverlaysAreInTime BY <2>1 DEF G!OverlaysAreInTime, WindowsAreBuilt
  <2>3. G!TriggerIsShown BY DEF G!TriggerIsShown, CreditsAreAtTrigger
  <2> QED BY <2>2, <2>3 DEF OverlaysAreInTime
<1> QED BY <1>1, <1>2, <1>3, OverlaySteps, PTL DEF SumSpec

------------------------------------------------------------------------------
(* The schedule of matches (SportsSchedule) *)

\* A step of the sum that is not one of the schedule leaves its variables alone.
LEMMA ScheduleSteps == [SumNext]_allVars => [R!Next]_R!vars
  BY DEF SumNext, allVars, rVars, R!vars, R!schedule

\* A copy of a match in one of the provider's lists, and an event of the schedule.
Copies == [id : Ids, start : Nat, live : BOOLEAN, named : BOOLEAN]
Events == [id : Ids, start : Nat, live : BOOLEAN]

\* The lists hold copies, and those of one match agree on whether it has a name.
LEMMA PayloadIsCopies ==
    ASSUME NEW payload \in R!Payloads
    PROVE  /\ payload.live \in Seq(Copies) /\ payload.nonLive \in Seq(Copies)
           /\ payload.all \in Seq(Copies)
           /\ \E named \in SUBSET Ids :
                 \A list \in {payload.live, payload.nonLive, payload.all} :
                    \A i \in 1..Len(list) : list[i].named = (list[i].id \in named)
<1>1. PICK live \in SUBSET Ids, flags \in SUBSET Ids, named \in SUBSET Ids,
           start \in [Ids -> 0..MaxStart] : payload = R!Payload(live, flags, named, start)
  BY DEF R!Payloads
<1>2. ASSUME NEW ids \in SUBSET Ids
      PROVE  \E n \in Nat : R!SetToSeq(ids) \in [1..n -> ids]
  <2>1. IsFiniteSet(Ids)
    <3>1. \A S : R!IsFiniteSet(S) <=> IsFiniteSet(S) BY DEF R!IsFiniteSet, IsFiniteSet
    <3> QED BY <3>1, ScheduleAssumed DEF R!ScheduleAssumption
  <2>2. IsFiniteSet(ids) BY <2>1, FS_Subset
  <2>3. Cardinality(ids) \in Nat /\ ExistsBijection(1..Cardinality(ids), ids)
    BY <2>2, FS_CardinalityType
  <2>4. \A S : R!Cardinality(S) = Cardinality(S) BY DEF R!Cardinality, Cardinality
  <2>5. PICK f \in [1..Cardinality(ids) -> ids] :
            \A i, j \in 1..Cardinality(ids) : f[i] = f[j] => i = j
    BY <2>3 DEF ExistsBijection, Bijection, Injection, IsInjective
  <2>6. R!IsInjective(f) BY <2>5 DEF R!IsInjective
  <2>7. R!SetToSeq(ids) \in [1..Cardinality(ids) -> ids]
    BY <2>4, <2>6 DEF R!SetToSeq
  <2> QED BY <2>3, <2>7
<1>3. ASSUME NEW ids \in SUBSET Ids, NEW f \in SUBSET Ids
      PROVE  /\ R!ListOf(ids, f, start, named) \in Seq(Copies)
             /\ \A i \in 1..Len(R!ListOf(ids, f, start, named)) :
                   R!ListOf(ids, f, start, named)[i].named
                       = (R!ListOf(ids, f, start, named)[i].id \in named)
  <2>1. PICK n \in Nat : R!SetToSeq(ids) \in [1..n -> ids] BY <1>2
  <2> DEFINE q == R!SetToSeq(ids)
             l == R!ListOf(ids, f, start, named)
  <2>2. /\ DOMAIN l = 1..n
        /\ \A i \in 1..n : l[i] = [id |-> q[i], start |-> start[q[i]], live |-> q[i] \in f,
                                   named |-> q[i] \in named]
    BY <2>1 DEF R!ListOf
  <2>3. l = [i \in 1..n |-> [id |-> q[i], start |-> start[q[i]], live |-> q[i] \in f,
                             named |-> q[i] \in named]]
    BY <2>1 DEF R!ListOf
  <2>4. \A i \in 1..n : q[i] \in Ids /\ start[q[i]] \in Nat
    <3>1. MaxStart \in Nat BY ScheduleAssumed DEF R!ScheduleAssumption
    <3>2. \A i \in 1..n : q[i] \in Ids BY <2>1
    <3> QED BY <3>1, <3>2
  <2> HIDE DEF q
  <2>5. \A i \in 1..n : l[i] \in Copies /\ l[i].named = (l[i].id \in named)
    <3> SUFFICES ASSUME NEW i \in 1..n
                 PROVE  l[i] \in Copies /\ l[i].named = (l[i].id \in named)
      OBVIOUS
    <3> HIDE DEF l
    <3> DEFINE x == q[i]
               flag == x \in f
               isNamed == x \in named
    <3>1. l[i] = [id |-> x, start |-> start[x], live |-> flag, named |-> isNamed]
      BY <2>2
    <3>2. x \in Ids /\ start[x] \in Nat /\ flag \in BOOLEAN /\ isNamed \in BOOLEAN
      BY <2>4
    <3> HIDE DEF x, flag, isNamed
    <3>3. l[i] \in Copies BY <3>1, <3>2 DEF Copies
    <3>4. l[i].id = x /\ l[i].named = isNamed BY <3>1
    <3> QED BY <3>3, <3>4, Zenon DEF isNamed
  <2>6. l \in Seq(Copies) /\ Len(l) = n
    <3>1. l \in [1..n -> Copies]
      <4> HIDE DEF l
      <4>1. l = [i \in 1..n |-> l[i]] BY <2>3, <2>2
      <4> QED BY <4>1, <2>5
    <3> HIDE DEF l
    <3> QED BY <3>1
  <2> HIDE DEF l
  <2>7. l \in Seq(Copies) /\ \A i \in 1..Len(l) : l[i].named = (l[i].id \in named)
    BY <2>5, <2>6
  <2> QED BY <2>7 DEF l
<1>4. /\ payload.live = R!ListOf(live, {}, start, named)
      /\ payload.nonLive = R!ListOf(Ids \ live, {}, start, named)
      /\ payload.all = R!ListOf(Ids, flags, start, named)
  BY <1>1 DEF R!Payload
<1>5. {} \in SUBSET Ids /\ Ids \ live \in SUBSET Ids /\ Ids \in SUBSET Ids
  OBVIOUS
<1>6. \A list \in {payload.live, payload.nonLive, payload.all} :
         /\ list \in Seq(Copies)
         /\ \A i \in 1..Len(list) : list[i].named = (list[i].id \in named)
  <2>1. \A ids, f \in SUBSET Ids :
           /\ R!ListOf(ids, f, start, named) \in Seq(Copies)
           /\ \A i \in 1..Len(R!ListOf(ids, f, start, named)) :
                 R!ListOf(ids, f, start, named)[i].named
                     = (R!ListOf(ids, f, start, named)[i].id \in named)
    BY <1>3
  <2> DEFINE Good(list) == /\ list \in Seq(Copies)
                           /\ \A i \in 1..Len(list) : list[i].named = (list[i].id \in named)
  <2>2. \A ids, f \in SUBSET Ids : Good(R!ListOf(ids, f, start, named))
    BY <2>1, Zenon
  <2> HIDE DEF Good
  <2>3. Good(payload.live) /\ Good(payload.nonLive) /\ Good(payload.all)
    BY <1>4, <1>5, <2>2
  <2>4. \A list \in {payload.live, payload.nonLive, payload.all} : Good(list)
    BY <2>3, Zenon
  <2> QED BY <2>4, Zenon DEF Good
<1> QED BY <1>6, Zenon

\* What merging the first k copies leaves, the first n of them from the list of live matches:
\* each match that has a name is there once, and live if one of its copies was.
MergedTo(copies, n, k, acc) ==
    /\ acc \in [seen : SUBSET Ids, events : Seq(Events)]
    /\ acc.seen = {copies[j].id : j \in 1..k}
    /\ \A i \in 1..Len(acc.events) : acc.events[i].id \in acc.seen
    /\ \A i, j \in 1..Len(acc.events) : acc.events[i].id = acc.events[j].id => i = j
    /\ \A j \in 1..k : copies[j].named =>
          \E i \in 1..Len(acc.events) :
              /\ acc.events[i].id = copies[j].id
              /\ j <= n \/ copies[j].live => acc.events[i].live

\* One more copy.
LEMMA AppendKeepsMerged ==
    ASSUME NEW copies \in Seq(Copies), NEW n \in Nat, NEW k \in 1..Len(copies),
           NEW acc, MergedTo(copies, n, k - 1, acc),
           NEW named, \A i \in 1..Len(copies) : copies[i].named = (copies[i].id \in named)
    PROVE  MergedTo(copies, n, k, R!AppendMatch(acc, copies[k], k <= n))
<1> DEFINE raw == copies[k]
           force == k <= n
           new == R!AppendMatch(acc, raw, force)
           ev == acc.events
           m == Len(acc.events)
<1>1. /\ Len(copies) \in Nat /\ k \in Nat /\ k >= 1 /\ k <= Len(copies)
      /\ 1..k = 1..(k - 1) \cup {k}
      /\ \A j \in 1..(k - 1) : j \in 1..Len(copies)
  BY LenProperties
<1>2. raw \in Copies /\ force \in BOOLEAN /\ raw.named = (raw.id \in named)
  BY <1>1, ElementOfSeq
<1>3. /\ acc.seen \in SUBSET Ids /\ ev \in Seq(Events) /\ m \in Nat
      /\ \A i \in 1..m : ev[i] \in Events
      /\ acc = [seen |-> acc.seen, events |-> ev]
  BY LenProperties, ElementOfSeq DEF MergedTo
<1>4. {copies[j].id : j \in 1..k} = acc.seen \cup {raw.id}
  BY <1>1 DEF MergedTo
<1>5. ASSUME NEW j \in 1..(k - 1), copies[j].named
      PROVE  \E i \in 1..m : ev[i].id = copies[j].id /\ (j <= n \/ copies[j].live => ev[i].live)
  BY <1>5 DEF MergedTo
<1>6. /\ \A i \in 1..m : ev[i].id \in acc.seen
      /\ \A i, j \in 1..m : ev[i].id = ev[j].id => i = j
  BY DEF MergedTo
<1>7. \A i \in 1..Len(copies) : copies[i] \in Copies BY ElementOfSeq
<1>8. CASE raw.id \in acc.seen
  <2> DEFINE up == [i \in 1..m |-> R!Upgrade(ev[i], raw, force)]
  <2>1. new = [seen |-> acc.seen, events |-> up]
    <3>1. DOMAIN ev = 1..m BY <1>3
    <3>2. new = [acc EXCEPT !.events = [i \in DOMAIN ev |-> R!Upgrade(ev[i], raw, force)]]
      BY <1>8 DEF R!AppendMatch
    <3> QED BY <1>3, <3>1, <3>2
  <2>2. \A i \in 1..m :
           /\ R!Upgrade(ev[i], raw, force) \in Events
           /\ R!Upgrade(ev[i], raw, force).id = ev[i].id
           /\ ev[i].live => R!Upgrade(ev[i], raw, force).live
           /\ ev[i].id = raw.id /\ (force \/ raw.live) => R!Upgrade(ev[i], raw, force).live
    <3> SUFFICES ASSUME NEW e \in Events
                 PROVE  /\ R!Upgrade(e, raw, force) \in Events
                        /\ R!Upgrade(e, raw, force).id = e.id
                        /\ e.live => R!Upgrade(e, raw, force).live
                        /\ e.id = raw.id /\ (force \/ raw.live)
                              => R!Upgrade(e, raw, force).live
      BY <1>3
    <3> HIDE DEF raw, force
    <3>1. R!Upgrade(e, raw, force) =
             [id |-> e.id, start |-> e.start,
              live |-> e.live \/ (e.id = raw.id /\ (force \/ raw.live))]
      BY DEF R!Upgrade, Events
    <3> DEFINE b == e.live \/ (e.id = raw.id /\ (force \/ raw.live))
    <3>2. b \in BOOLEAN OBVIOUS
    <3>3. e.live => b OBVIOUS
    <3>4. e.id = raw.id /\ (force \/ raw.live) => b OBVIOUS
    <3>5. R!Upgrade(e, raw, force) = [id |-> e.id, start |-> e.start, live |-> b] BY <3>1
    <3> HIDE DEF b
    <3>6. R!Upgrade(e, raw, force).live = b BY <3>5
    <3> QED BY <3>2, <3>3, <3>4, <3>5, <3>6 DEF Events
  <2>3. /\ \A i \in 1..m : /\ up[i] \in Events /\ up[i].id = ev[i].id
                           /\ ev[i].live => up[i].live
                           /\ ev[i].id = raw.id /\ (force \/ raw.live) => up[i].live
        /\ up \in [1..m -> Events]
    <3> HIDE DEF raw, force, m, ev
    <3> QED BY <2>2
  <2> HIDE DEF up
  <2>4. up \in Seq(Events) /\ Len(up) = m
    <3>1. m \in Nat /\ up \in [1..m -> Events] BY <1>3, <2>3
    <3> HIDE DEF m
    <3> QED BY <3>1
  <2>5. acc.seen = {copies[j].id : j \in 1..k} BY <1>4, <1>8
  <2>6. ASSUME NEW j \in 1..k, copies[j].named
        PROVE  \E i \in 1..m : up[i].id = copies[j].id /\ (j <= n \/ copies[j].live => up[i].live)
    <3>1. CASE j \in 1..(k - 1)
      <4>1. PICK i \in 1..m : ev[i].id = copies[j].id
                                /\ (j <= n \/ copies[j].live => ev[i].live)
        BY <1>5, <2>6, <3>1
      <4> QED BY <2>3, <4>1
    <3>2. CASE j = k
      \* A copy came before, with the same name.
      <4>1. PICK l \in 1..(k - 1) : copies[l].id = raw.id BY <1>8 DEF MergedTo
      <4>2. copies[l].named BY <1>1, <1>2, <2>6, <3>2, <4>1
      <4>3. PICK i \in 1..m : ev[i].id = copies[l].id BY <1>5, <4>2
      <4>4. up[i].id = copies[j].id BY <2>3, <3>2, <4>1, <4>3
      <4>5. j <= n \/ copies[j].live => up[i].live BY <2>3, <3>2, <4>1, <4>3
      <4> QED BY <4>4, <4>5
    <3> QED BY <1>1, <3>1, <3>2
  <2>7. new.seen = acc.seen /\ new.events = up
        /\ new \in [seen : SUBSET Ids, events : Seq(Events)]
    BY <1>3, <2>1, <2>4
  <2>8. \A i \in 1..m : up[i].id \in acc.seen BY <1>6, <2>3
  <2>9. \A i, j \in 1..m : up[i].id = up[j].id => i = j BY <1>6, <2>3
  <2> HIDE DEF new, m, ev
  <2>10. MergedTo(copies, n, k, new) BY <2>4, <2>5, <2>6, <2>7, <2>8, <2>9 DEF MergedTo
  <2> QED BY <2>10 DEF new
<1>9. CASE raw.id \notin acc.seen /\ ~raw.named
  <2>1. new = [seen |-> acc.seen \cup {raw.id}, events |-> ev] BY <1>9 DEF R!AppendMatch
  <2>2. new.seen = acc.seen \cup {raw.id} /\ new.events = ev
        /\ new \in [seen : SUBSET Ids, events : Seq(Events)]
    BY <1>2, <1>3, <2>1 DEF Copies
  <2>3. ASSUME NEW j \in 1..k, copies[j].named
        PROVE  \E i \in 1..m : ev[i].id = copies[j].id /\ (j <= n \/ copies[j].live => ev[i].live)
    BY <1>1, <1>5, <1>9, <2>3
  <2> HIDE DEF new, m
  <2>4. MergedTo(copies, n, k, new)
    BY <1>4, <1>6, <2>2, <2>3 DEF MergedTo, m
  <2> QED BY <2>4 DEF new
<1>10. CASE raw.id \notin acc.seen /\ raw.named
  <2> DEFINE e == R!Event(raw, force)
             longer == Append(ev, e)
  <2>1. new = [seen |-> acc.seen \cup {raw.id}, events |-> longer] BY <1>10 DEF R!AppendMatch
  <2>2. e \in Events /\ e.id = raw.id /\ (force \/ raw.live => e.live)
    <3> DEFINE b == force \/ raw.live
    <3>1. e = [id |-> raw.id, start |-> raw.start, live |-> b] BY DEF R!Event
    <3>2. b \in BOOLEAN OBVIOUS
    <3> HIDE DEF b, e
    <3>3. e.live = b /\ e.id = raw.id BY <3>1
    <3>4. e \in Events BY <1>2, <3>1, <3>2 DEF Events, Copies
    <3> QED BY <3>3, <3>4 DEF b
  <2> HIDE DEF e
  <2>3. /\ longer \in Seq(Events) /\ Len(longer) = m + 1
        /\ \A i \in 1..m : longer[i] = ev[i]
        /\ longer[m + 1] = e
    BY <1>3, <2>2, AppendProperties
  <2> HIDE DEF longer, m
  <2>4. 1..(m + 1) = 1..m \cup {m + 1} BY <1>3
  <2>5. new.seen = acc.seen \cup {raw.id} /\ new.events = longer
        /\ new \in [seen : SUBSET Ids, events : Seq(Events)]
    BY <1>2, <1>3, <2>1, <2>3 DEF Copies
  <2> HIDE DEF new, ev, raw
  <2>6. \A i \in 1..(m + 1) : longer[i].id \in acc.seen \cup {raw.id}
    BY <1>6, <2>2, <2>3, <2>4
  <2>7. \A i, j \in 1..(m + 1) : longer[i].id = longer[j].id => i = j
    BY <1>6, <1>10, <2>2, <2>3, <2>4
  <2>8. ASSUME NEW j \in 1..k, copies[j].named
        PROVE  \E i \in 1..(m + 1) : longer[i].id = copies[j].id
                                       /\ (j <= n \/ copies[j].live => longer[i].live)
    <3>1. CASE j \in 1..(k - 1)
      <4>1. PICK i \in 1..m : ev[i].id = copies[j].id
                                /\ (j <= n \/ copies[j].live => ev[i].live)
        BY <1>5, <2>8, <3>1
      <4> QED BY <2>3, <2>4, <4>1
    <3>2. CASE j = k BY <2>2, <2>3, <2>4, <3>2 DEF raw
    <3> QED BY <1>1, <3>1, <3>2
  <2>9. MergedTo(copies, n, k, new)
    BY <1>4, <2>3, <2>5, <2>6, <2>7, <2>8 DEF MergedTo
  <2> QED BY <2>9 DEF new, raw
<1> QED BY <1>8, <1>9, <1>10

\* The recursion that merges the lists has a solution.
LEMMA MergedExists ==
    ASSUME NEW copies \in Seq(Copies), NEW n \in Nat
    PROVE  \E f : f = [i \in 0..Len(copies) |->
                          IF i = 0 THEN [seen |-> {}, events |-> << >>]
                          ELSE R!AppendMatch(f[i - 1], copies[i], i <= n)]
<1> DEFINE Start == [seen |-> {}, events |-> << >>]
           Step(f, i) == R!AppendMatch(f[i - 1], copies[i], i <= n)
           IsMerge(f, k) == f = [i \in 0..k |-> IF i = 0 THEN Start ELSE Step(f, i)]
           last == Len(copies) + 1
           Missing == {x \in 1..last : ~\E f : IsMerge(f, x - 1)}
<1>1. Len(copies) \in Nat /\ last \in Nat /\ last \in 1..last
  BY LenProperties
<1>2. CASE Missing = {}
  <2>1. \E f : IsMerge(f, last - 1) BY <1>1, <1>2
  <2>2. last - 1 = Len(copies) BY <1>1
  <2> QED BY <2>1, <2>2
<1>3. CASE Missing # {}
  <2>1. PICK x \in Missing : \A j \in 1..(x - 1) : j \notin Missing
    <3>1. Missing \in SUBSET (1..last) OBVIOUS
    <3> HIDE DEF Missing
    <3> QED BY ONLY <1>1, <1>3, <3>1, LeastOf
  <2>2. x \in 1..last /\ ~\E f : IsMerge(f, x - 1) OBVIOUS
  <2>3. CASE x = 1
    <3> DEFINE f == [i \in 0..0 |-> Start]
    <3>1. f = [i \in 0..0 |-> IF i = 0 THEN Start ELSE Step(f, i)] OBVIOUS
    <3>2. IsMerge(f, x - 1) BY <2>3, <3>1
    <3> QED BY <2>2, <3>2
  <2>4. CASE x # 1
    <3>1. x - 1 \in 1..last /\ x - 1 \in 1..(x - 1) /\ x - 1 - 1 = x - 2
      BY <1>1, <2>2, <2>4
    <3>2. PICK f : IsMerge(f, x - 2)
      <4>1. x - 1 \notin Missing BY <2>1, <3>1
      <4>2. \E f : IsMerge(f, x - 1 - 1) BY <3>1, <4>1
      <4> QED BY <3>1, <4>2
    <3> DEFINE g == [i \in 0..(x - 1) |-> IF i = x - 1 THEN Step(f, i) ELSE f[i]]
    <3>3. \A i \in 0..(x - 2) : g[i] = f[i] /\ i \in 0..(x - 1) BY <1>1, <2>2, <2>4
    <3>4. \A i \in 1..(x - 1) : Step(g, i) = Step(f, i)
      <4>1. \A i \in 1..(x - 1) : i - 1 \in 0..(x - 2) BY <1>1, <2>2
      <4>2. \A i \in 1..(x - 1) : g[i - 1] = f[i - 1] BY <3>3, <4>1
      <4> HIDE DEF g
      <4> QED BY <4>2
    <3>5. \A i \in 0..(x - 2) : f[i] = IF i = 0 THEN Start ELSE Step(f, i)
      BY <3>2
    <3> HIDE DEF Step, Start
    <3>6. \A i \in 0..(x - 1) : g[i] = IF i = 0 THEN Start ELSE Step(g, i)
      <4> SUFFICES ASSUME NEW i \in 0..(x - 1)
                   PROVE  g[i] = IF i = 0 THEN Start ELSE Step(g, i)
        OBVIOUS
      <4>1. CASE i = x - 1
        <5>1. i # 0 /\ i \in 1..(x - 1) BY <2>2, <2>4, <4>1
        <5> QED BY <3>4, <4>1, <5>1
      <4>2. CASE i # x - 1
        <5>1. i \in 0..(x - 2) BY <2>2, <4>2
        <5>2. i # 0 => i \in 1..(x - 1) BY <5>1, <2>2
        <5> QED BY <3>3, <3>4, <3>5, <5>1, <5>2
      <4> QED BY <4>1, <4>2
    <3>7. g = [i \in 0..(x - 1) |-> g[i]] OBVIOUS
    <3> HIDE DEF g
    <3>8. IsMerge(g, x - 1) BY <3>6, <3>7
    <3> QED BY <2>2, <3>8
  <2> QED BY <2>3, <2>4
<1> QED BY <1>2, <1>3

\* What MergeMatches returns is what merging all copies leaves.
LEMMA MergeKeepsMatches ==
    ASSUME NEW payload \in R!Payloads
    PROVE  /\ R!MergeMatches(payload) \in Seq(Events)
           /\ \A i, j \in 1..Len(R!MergeMatches(payload)) :
                 R!MergeMatches(payload)[i].id = R!MergeMatches(payload)[j].id => i = j
           /\ \A id \in R!ReportedLive(payload) :
                 \E i \in 1..Len(R!MergeMatches(payload)) :
                    /\ R!MergeMatches(payload)[i].id = id
                    /\ R!MergeMatches(payload)[i].live
<1> DEFINE p1 == payload.live
           p2 == payload.nonLive
           p3 == payload.all
           first == p1 \o p2
           copies == first \o p3
           n == Len(p1)
           Start == [seen |-> {}, events |-> << >>]
           merged == CHOOSE f : f = [i \in 0..Len(copies) |->
                                        IF i = 0 THEN Start
                                        ELSE R!AppendMatch(f[i - 1], copies[i], i <= n)]
<1>1. /\ p1 \in Seq(Copies) /\ p2 \in Seq(Copies) /\ p3 \in Seq(Copies)
      /\ first \in Seq(Copies) /\ copies \in Seq(Copies)
      /\ n \in Nat /\ Len(p2) \in Nat /\ Len(p3) \in Nat
      /\ Len(first) = n + Len(p2) /\ Len(copies) = Len(first) + Len(p3)
  BY PayloadIsCopies, ConcatProperties, LenProperties
<1>2. /\ \A i \in 1..Len(first) : first[i] = IF i <= n THEN p1[i] ELSE p2[i - n]
      /\ \A i \in 1..Len(copies) :
            copies[i] = IF i <= Len(first) THEN first[i] ELSE p3[i - Len(first)]
  BY <1>1, ConcatProperties
<1>3. PICK named \in SUBSET Ids :
          \A list \in {p1, p2, p3} : \A i \in 1..Len(list) : list[i].named = (list[i].id \in named)
  BY PayloadIsCopies
<1> HIDE DEF first, copies, n, p1, p2, p3
<1>4. /\ \A i \in 1..n : i \in 1..Len(copies) /\ copies[i] = p1[i]
      /\ \A i \in 1..Len(p3) : /\ Len(first) + i \in 1..Len(copies)
                               /\ copies[Len(first) + i] = p3[i]
      /\ \A i \in 1..Len(copies) : \/ i \in 1..n /\ copies[i] = p1[i]
                                   \/ i - n \in 1..Len(p2) /\ copies[i] = p2[i - n]
                                   \/ i - Len(first) \in 1..Len(p3)
                                         /\ copies[i] = p3[i - Len(first)]
  <2> DEFINE c == Len(copies)
             l1 == Len(first)
             l2 == Len(p2)
             l3 == Len(p3)
  <2>1. n \in Nat /\ l2 \in Nat /\ l3 \in Nat /\ l1 = n + l2 /\ c = l1 + l3
    BY <1>1
  <2>2. /\ \A i \in 1..l1 : first[i] = IF i <= n THEN p1[i] ELSE p2[i - n]
        /\ \A i \in 1..c : copies[i] = IF i <= l1 THEN first[i] ELSE p3[i - l1]
    BY <1>2
  <2> HIDE DEF c, l1, l2, l3
  <2>3. \A i \in 1..n : i \in 1..c /\ copies[i] = p1[i] BY <2>1, <2>2
  <2>4. \A i \in 1..l3 : l1 + i \in 1..c /\ copies[l1 + i] = p3[i]
    <3> TAKE i \in 1..l3
    <3> DEFINE k == l1 + i
    <3>1. k \in 1..c /\ ~(k <= l1) /\ k - l1 = i BY <2>1
    <3> HIDE DEF k
    <3>2. k \in 1..c /\ copies[k] = p3[i] BY <2>2, <3>1
    <3> QED BY <3>2 DEF k
  <2>5. \A i \in 1..c : \/ i \in 1..n /\ copies[i] = p1[i]
                        \/ i - n \in 1..l2 /\ copies[i] = p2[i - n]
                        \/ i - l1 \in 1..l3 /\ copies[i] = p3[i - l1]
    <3> TAKE i \in 1..c
    <3>1. CASE i <= n BY <2>1, <2>2, <3>1
    <3>2. CASE ~(i <= n) /\ i <= l1
      <4>1. i \in 1..l1 /\ i - n \in 1..l2 BY <2>1, <3>2
      <4> QED BY <2>2, <3>2, <4>1
    <3>3. CASE ~(i <= l1) BY <2>1, <2>2, <3>3
    <3> QED BY <3>1, <3>2, <3>3
  <2> QED BY <2>3, <2>4, <2>5 DEF c, l1, l2, l3
<1>5. \A i \in 1..Len(copies) : copies[i].named = (copies[i].id \in named)
  <2> TAKE i \in 1..Len(copies)
  <2> DEFINE Agrees(x) == x.named = (x.id \in named)
  <2>1. \A list \in {p1, p2, p3} : \A k \in 1..Len(list) : Agrees(list[k]) BY <1>3
  <2> HIDE DEF Agrees
  <2>2. /\ \A k \in 1..n : Agrees(p1[k])
        /\ \A k \in 1..Len(p2) : Agrees(p2[k])
        /\ \A k \in 1..Len(p3) : Agrees(p3[k])
    BY <2>1 DEF n
  <2>3. Agrees(copies[i]) BY <1>4, <2>2
  <2> QED BY <2>3 DEF Agrees
<1>6. merged = [i \in 0..Len(copies) |-> IF i = 0 THEN Start
                                         ELSE R!AppendMatch(merged[i - 1], copies[i], i <= n)]
  <2>1. \E f : f = [i \in 0..Len(copies) |->
                      IF i = 0 THEN Start ELSE R!AppendMatch(f[i - 1], copies[i], i <= n)]
    BY ONLY <1>1, MergedExists
  <2> QED BY <2>1
<1>7. R!MergeMatches(payload) = merged[Len(copies)].events
  BY DEF R!MergeMatches, copies, first, n, p1, p2, p3
<1> HIDE DEF merged, Start
<1>8. merged[0] = Start /\ \A i \in 1..Len(copies) :
          merged[i] = R!AppendMatch(merged[i - 1], copies[i], i <= n)
  <2>1. 0 \in 0..Len(copies) BY <1>1, LenProperties
  <2>2. \A i \in 1..Len(copies) : i \in 0..Len(copies) /\ i # 0 BY <1>1, LenProperties
  <2> QED BY <1>6, <2>1, <2>2
<1> DEFINE Good(k) == MergedTo(copies, n, k, merged[k])
           Bad == {k \in 1..Len(copies) : ~Good(k)}
<1>9. Good(0)
  <2>1. Start \in [seen : SUBSET Ids, events : Seq(Events)] /\ Start.seen = {}
        /\ Start.events = << >> /\ Len(<< >>) = 0
    BY EmptySeq DEF Start
  <2>2. 1..0 = {} OBVIOUS
  <2> QED BY <1>8, <2>1, <2>2 DEF MergedTo
<1>10. \A k \in 1..Len(copies) : Good(k - 1) => Good(k)
  BY <1>1, <1>5, <1>8, AppendKeepsMerged
<1> HIDE DEF Good
<1>11. Bad = {}
  <2> SUFFICES ASSUME Bad # {} PROVE FALSE OBVIOUS
  <2>1. Len(copies) \in Nat /\ Bad \in SUBSET (1..Len(copies)) BY <1>1, LenProperties
  <2> HIDE DEF Bad
  <2>2. PICK x \in Bad : \A j \in 1..(x - 1) : j \notin Bad BY ONLY <2>1, Bad # {}, LeastOf
  <2>3. x \in 1..Len(copies) /\ ~Good(x) BY <2>2 DEF Bad
  <2>4. CASE x = 1 BY <1>9, <1>10, <2>3, <2>4
  <2>5. CASE x # 1
    <3>1. x - 1 \in 1..Len(copies) /\ x - 1 \in 1..(x - 1) BY <2>1, <2>3, <2>5
    <3>2. Good(x - 1) BY <2>2, <3>1 DEF Bad
    <3> QED BY <1>10, <2>3, <3>2
  <2> QED BY <2>4, <2>5
<1>12. Good(Len(copies))
  <2>1. Len(copies) \in Nat BY <1>1, LenProperties
  <2>2. CASE Len(copies) = 0 BY <1>9, <2>2
  <2>3. CASE Len(copies) # 0
    <3>1. Len(copies) \in 1..Len(copies) BY <2>1, <2>3
    <3> QED BY <1>11, <3>1
  <2> QED BY <2>2, <2>3
<1> DEFINE ev == R!MergeMatches(payload)
<1>13. /\ ev \in Seq(Events)
       /\ \A i, j \in 1..Len(ev) : ev[i].id = ev[j].id => i = j
       /\ \A j \in 1..Len(copies) : copies[j].named =>
             \E i \in 1..Len(ev) : /\ ev[i].id = copies[j].id
                                   /\ j <= n \/ copies[j].live => ev[i].live
  BY <1>7, <1>12 DEF Good, MergedTo
<1> HIDE DEF ev
<1>14. ASSUME NEW id \in R!ReportedLive(payload)
       PROVE  \E i \in 1..Len(ev) : ev[i].id = id /\ ev[i].live
  <2>1. DOMAIN p1 = 1..n /\ DOMAIN p3 = 1..Len(p3) BY <1>1 DEF n
  <2>2. \/ \E i \in 1..n : p1[i].named /\ p1[i].id = id
        \/ \E i \in 1..Len(p3) : p3[i].named /\ p3[i].live /\ p3[i].id = id
    BY <1>14, <2>1 DEF R!ReportedLive, R!Range, p1, p3
  <2>3. CASE \E i \in 1..n : p1[i].named /\ p1[i].id = id
    <3>1. PICK i \in 1..n : p1[i].named /\ p1[i].id = id BY <2>3
    <3>2. /\ i \in 1..Len(copies) /\ copies[i].named /\ copies[i].id = id
          /\ i <= n
      BY <1>1, <1>4, <3>1
    <3> QED BY <1>13, <3>2
  <2>4. CASE \E i \in 1..Len(p3) : p3[i].named /\ p3[i].live /\ p3[i].id = id
    <3>1. PICK i \in 1..Len(p3) : p3[i].named /\ p3[i].live /\ p3[i].id = id BY <2>4
    <3> DEFINE k == Len(first) + i
    <3>2. k \in 1..Len(copies) /\ copies[k] = p3[i] BY <1>4
    <3> HIDE DEF k
    <3>3. copies[k].named /\ copies[k].live /\ copies[k].id = id BY <3>1, <3>2
    <3> QED BY <1>13, <3>2, <3>3
  <2> QED BY <2>2, <2>3, <2>4
<1> QED BY <1>13, <1>14 DEF ev

\* An event has one of four places in the order.
LEMMA BucketOf ==
    ASSUME NEW e \in Events, NEW t \in Nat
    PROVE  /\ R!Bucket(e, t) \in 0..3
           /\ e.live => R!Bucket(e, t) = 0
           /\ ~e.live /\ R!Bucket(e, t) = 0 => e.start \in 1..t
<1> e.start \in Nat /\ e.live \in BOOLEAN BY DEF Events
<1> Recent \in Nat BY ScheduleAssumed DEF R!ScheduleAssumption
<1>1. CASE e.live BY <1>1 DEF R!Bucket
<1>2. CASE ~e.live /\ e.start = 0 BY <1>2 DEF R!Bucket
<1>3. CASE ~e.live /\ e.start # 0 /\ e.start > t BY <1>3 DEF R!Bucket
<1>4. CASE ~e.live /\ e.start # 0 /\ ~(e.start > t)
  <2>1. e.start \in 1..t BY <1>4
  <2> QED BY <1>4, <2>1 DEF R!Bucket
<1> QED BY <1>1, <1>2, <1>3, <1>4

\* Sorting keeps the events, and puts none behind a later one.
LEMMA SortKeepsEvents ==
    ASSUME NEW ev \in Seq(Events), NEW t \in Nat, NEW q \in R!SortEvents(ev, t),
           \A i, j \in 1..Len(ev) : ev[i].id = ev[j].id => i = j
    PROVE  /\ q \in Seq(Events)
           /\ \A i \in 1..Len(ev) : \E j \in 1..Len(q) : q[j] = ev[i]
           /\ \A i, j \in 1..Len(q) : q[i].id = q[j].id => i = j
           /\ \A i, j \in 1..Len(q) : i < j => ~R!Earlier(q[j], q[i], t)
<1> DEFINE S == 1..Len(ev)
<1>1. Len(ev) \in Nat /\ DOMAIN ev = S /\ IsFiniteSet(S) /\ Cardinality(S) \in Nat
  BY LenProperties, FS_Interval, FS_CardinalityType
<1>2. R!Cardinality(S) = Cardinality(S) BY DEF R!Cardinality, Cardinality
<1> HIDE DEF S
<1>3. PICK p \in R!SetToSeqs(S) :
          /\ q = [i \in DOMAIN p |-> ev[p[i]]]
          /\ \A i, j \in DOMAIN p : i < j =>
                \/ R!Earlier(ev[p[i]], ev[p[j]], t)
                \/ p[i] < p[j] /\ ~R!Earlier(ev[p[j]], ev[p[i]], t)
  BY <1>1 DEF R!SortEvents
<1>4. /\ p \in [1..Cardinality(S) -> S]
      /\ \A i, j \in 1..Cardinality(S) : i # j => p[i] # p[j]
  BY <1>2, <1>3 DEF R!SetToSeqs
<1>5. /\ p \in Seq(S) /\ Len(p) = Cardinality(S)
      /\ \A x \in S : \E i \in 1..Len(p) : p[i] = x
  BY ONLY <1>1, <1>4, EnumerationIsOnto
<1> DEFINE n == Cardinality(S)
<1>6. DOMAIN p = 1..n /\ n \in Nat /\ \A i \in 1..n : p[i] \in S
  BY <1>1, <1>4
<1> HIDE DEF n
<1>7. \A i \in 1..n : ev[p[i]] \in Events
  BY <1>6, ElementOfSeq DEF S
<1>8. q \in [1..n -> Events] /\ \A i \in 1..n : q[i] = ev[p[i]]
  BY <1>3, <1>6, <1>7
<1>9. q \in Seq(Events) /\ Len(q) = n
  BY <1>6, <1>8
<1>10. \A i \in S : \E j \in 1..n : q[j] = ev[i]
  BY <1>5, <1>8 DEF n
<1>11. \A i, j \in 1..n : q[i].id = q[j].id => i = j
  <2>1. \A i, j \in S : ev[i].id = ev[j].id => i = j BY DEF S
  <2> QED BY <1>4, <1>6, <1>8, <2>1 DEF n
\* Earlier is asymmetric.
<1>12. \A e, f \in Events : R!Earlier(e, f, t) => ~R!Earlier(f, e, t)
  <2> TAKE e \in Events, f \in Events
  <2> DEFINE b == R!Bucket(e, t)
             c == R!Bucket(f, t)
  <2>1. b \in 0..3 /\ c \in 0..3 BY BucketOf
  <2>2. e.start \in Nat /\ f.start \in Nat BY DEF Events
  <2>3. /\ R!Earlier(e, f, t) <=> IF b # c THEN b < c
                                  ELSE IF b = 2 THEN e.start > f.start ELSE e.start < f.start
        /\ R!Earlier(f, e, t) <=> IF c # b THEN c < b
                                  ELSE IF c = 2 THEN f.start > e.start ELSE f.start < e.start
    BY DEF R!Earlier
  <2> HIDE DEF b, c
  <2> QED BY <2>1, <2>2, <2>3
<1>13. \A i, j \in 1..n : i < j => ~R!Earlier(q[j], q[i], t)
  BY <1>3, <1>6, <1>7, <1>8, <1>12
<1> QED BY <1>9, <1>10, <1>11, <1>13 DEF S

\* The cached events are those of the provider, sorted when they were stored.
ScheduleInv ==
    /\ r_provider \in R!Payloads /\ r_now \in Nat /\ r_sportsAt \in Nat
    /\ r_sports \in Seq(Events)
    /\ R!LiveIsNotLost
    /\ \A i, j \in 1..Len(r_sports) : i < j => ~R!Earlier(r_sports[j], r_sports[i], r_sportsAt)

\* A fetch that returns stores a sorted schedule, or leaves the one there was.
LEMMA RefreshKeepsSchedule ==
    ASSUME ScheduleInv, R!Refresh, UNCHANGED <<r_now, r_provider>> PROVE ScheduleInv'
<1> USE DEF ScheduleInv
<1>1. CASE R!RefreshFails
  BY <1>1 DEF R!RefreshFails, R!schedule, R!LiveIsNotLost
<1>2. CASE R!Store
  <2>1. /\ r_sports' \in R!SortEvents(R!MergeMatches(r_provider), r_now)
        /\ r_sportsAt' = r_now
    BY <1>2 DEF R!Store
  <2> DEFINE ev == R!MergeMatches(r_provider)
             q == r_sports'
  <2>2. /\ ev \in Seq(Events)
        /\ \A i, j \in 1..Len(ev) : ev[i].id = ev[j].id => i = j
        /\ \A id \in R!ReportedLive(r_provider) :
              \E i \in 1..Len(ev) : ev[i].id = id /\ ev[i].live
    BY MergeKeepsMatches
  <2> HIDE DEF ev
  <2>3. r_now \in Nat /\ q \in R!SortEvents(ev, r_now) BY <2>1 DEF ev
  <2> HIDE DEF q
  <2>4. /\ q \in Seq(Events)
        /\ \A i \in 1..Len(ev) : \E j \in 1..Len(q) : q[j] = ev[i]
        /\ \A i, j \in 1..Len(q) : q[i].id = q[j].id => i = j
        /\ \A i, j \in 1..Len(q) : i < j => ~R!Earlier(q[j], q[i], r_now)
    BY ONLY <2>2, <2>3, SortKeepsEvents
  <2>5. \A id \in R!ReportedLive(r_provider) :
           \E i \in 1..Len(q) : q[i].id = id /\ q[i].live
    BY <2>2, <2>4
  <2>6. DOMAIN q = 1..Len(q) BY <2>4, LenProperties
  <2>7. R!LiveIsNotLost'
    <3>1. R!ReportedLive(r_provider)' = R!ReportedLive(r_provider)
      BY DEF R!ReportedLive, R!Range
    <3>2. \A i, j \in DOMAIN q : q[i].id = q[j].id => i = j BY <2>4, <2>6
    <3>3. \A id \in R!ReportedLive(r_provider) : \E i \in DOMAIN q : q[i].id = id /\ q[i].live
      BY <2>5, <2>6
    <3> QED BY <3>1, <3>2, <3>3 DEF R!LiveIsNotLost, q
  <2>8. \A i, j \in 1..Len(r_sports') : i < j =>
           ~R!Earlier(r_sports'[j], r_sports'[i], r_sportsAt')
    BY <2>1, <2>4 DEF q
  <2>9. (\A i, j \in 1..Len(r_sports) : i < j =>
            ~R!Earlier(r_sports[j], r_sports[i], r_sportsAt))'
    BY <2>8 DEF R!Earlier, R!Bucket
  <2> QED BY <2>1, <2>4, <2>7, <2>9 DEF q
<1> QED BY <1>1, <1>2 DEF R!Refresh

\* For any lists, any callers, windows and times: a match that one of the provider's lists
\* calls live is live in the schedule, once, and the subscriptions' poller passes it over only
\* for an event that is live too, or started no later and recently (mergeNtvMatches,
\* sortSportsEvents, FindTeamEvent).
THEOREM LiveMatchesAreListed == SumSpec => []LiveIsNotLost
<1>1. SumInit => ScheduleInv
  BY EmptySeq DEF SumInit, R!Init, ScheduleInv, R!LiveIsNotLost
<1>2. ScheduleInv /\ [R!Next]_R!vars => ScheduleInv'
  <2> SUFFICES ASSUME ScheduleInv, [R!Next]_R!vars PROVE ScheduleInv' OBVIOUS
  <2>1. ASSUME UNCHANGED <<r_provider, r_sports, r_cached, r_sportsAt>>, r_now' \in Nat
        PROVE  ScheduleInv'
    BY <2>1 DEF ScheduleInv, R!LiveIsNotLost
  <2>2. CASE R!Tick BY <2>1, <2>2 DEF R!Tick, R!schedule, ScheduleInv
  <2>3. CASE R!BackgroundRefresh BY <2>3, RefreshKeepsSchedule DEF R!BackgroundRefresh
  <2>4. ASSUME NEW c \in Readers, R!ColdRefresh(c) PROVE ScheduleInv'
    BY <2>4, RefreshKeepsSchedule DEF R!ColdRefresh
  <2>5. ASSUME NEW c \in Readers, R!ServeStale(c) \/ R!FetchCold(c) PROVE ScheduleInv'
    BY <2>1, <2>5 DEF R!ServeStale, R!FetchCold, R!schedule, ScheduleInv
  <2>6. CASE UNCHANGED R!vars BY <2>1, <2>6 DEF R!vars, R!schedule, ScheduleInv
  <2> QED BY <2>2, <2>3, <2>4, <2>5, <2>6 DEF R!Next
<1>3. ScheduleInv => LiveIsNotLost
  <2> SUFFICES ASSUME ScheduleInv PROVE R!LiveIsOffered
    BY DEF ScheduleInv, LiveIsNotLost
  <2> DEFINE n == Len(r_sports)
             Offered == {i \in 1..n : R!Active(r_sports[i], r_now)}
             first == R!FindTeamEvent(r_sports, r_now)
  <2>1. n \in Nat /\ DOMAIN r_sports = 1..n /\ \A i \in 1..n : r_sports[i] \in Events
    BY LenProperties, ElementOfSeq DEF ScheduleInv
  <2>2. SUFFICES ASSUME NEW i \in 1..n, r_sports[i].live
                 PROVE  /\ first \in 1..i
                        /\ ~r_sports[first].live =>
                              /\ r_sports[first].start \in 1..r_sportsAt
                              /\ r_sports[first].start <= r_sports[i].start
    BY <2>1 DEF R!LiveIsOffered
  <2>3. i \in Offered BY <2>2 DEF R!Active
  <2>4. first = IF Offered = {} THEN 0 ELSE R!Min(Offered)
    BY <2>1 DEF R!FindTeamEvent
  <2>5. first \in Offered /\ \A y \in Offered : first <= y
    <3>1. Offered \in SUBSET (1..n) OBVIOUS
    <3> HIDE DEF Offered
    <3>2. PICK x \in Offered : \A j \in 1..(x - 1) : j \notin Offered
      BY <2>1, <2>3, <3>1, LeastOf
    <3>3. \A y \in Offered : x <= y BY <2>1, <3>1, <3>2
    <3> HIDE DEF n
    <3> QED BY <2>3, <2>4, <3>3 DEF R!Min
  <2>6. first \in 1..n /\ first <= i BY <2>3, <2>5
  <2> HIDE DEF first, Offered
  <2>7. first \in 1..i BY <2>1, <2>6
  <2>8. ASSUME ~r_sports[first].live
        PROVE  /\ r_sports[first].start \in 1..r_sportsAt
               /\ r_sports[first].start <= r_sports[i].start
    <3> DEFINE e == r_sports[i]
               f == r_sports[first]
               t == r_sportsAt
    <3>1. first < i BY <2>1, <2>2, <2>6, <2>8
    <3>2. ~R!Earlier(e, f, t) BY <2>6, <3>1 DEF ScheduleInv
    <3>3. e \in Events /\ f \in Events /\ t \in Nat BY <2>1, <2>6 DEF ScheduleInv
    <3>4. e.live /\ ~f.live BY <2>2, <2>8
    <3> HIDE DEF e, f, t
    <3>5. R!Bucket(e, t) = 0 /\ R!Bucket(f, t) \in 0..3 BY <3>3, <3>4, BucketOf
    <3>6. R!Bucket(f, t) = 0 /\ ~(e.start < f.start) BY <3>2, <3>5 DEF R!Earlier
    <3>7. f.start \in 1..t BY <3>3, <3>4, <3>6, BucketOf
    <3>8. e.start \in Nat /\ f.start \in Nat BY <3>3 DEF Events
    <3> QED BY <3>6, <3>7, <3>8 DEF e, f, t
  <2> QED BY <2>7, <2>8
<1> QED BY <1>1, <1>2, <1>3, ScheduleSteps, PTL DEF SumSpec

==============================================================================
