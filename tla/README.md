# Streamly: a TLA+ model of the streaming core

Streamly is a Discord bot (Go, `src/internal`) that plays films, episodes and
sports channels into a voice call.  A command bot takes slash commands and
buttons; a pool of user-account workers, one per guild, joins voice and streams.
The program is highly concurrent and shares most of its state between
goroutines: interaction handlers, run loops, packet pumps, watchdogs, gateway
read loops, countdowns, background refreshes and a poller.  The modules here
model that concurrency.  TLC checks them on small instances, TLAPS proves the
main invariants for every value of the constants.

## Inventory

State, operations and hard behaviour of each part, and what makes it correct.
"M" is modelled, "P" partly; `PROJECT.json` names the files and what is missing.

| Part | State | Operations | Hard behaviour | Correct when |
| --- | --- | --- | --- | --- |
| P `internal/pool/pool.go`: session | `Busy`, `StopRequested`, `swapping`, `controller`, `request`, `loopDone`; the Streamer's voice and stream connection | `Acquire`, `Swap`, `Play`, `PlayReusing`, `Stop`, `Release`, `runLoop` | one session, no common lock: a swap against a natural end, a stop during a join, a teardown that outlasts its timeout | one run loop per session; the slot is released or handed on by somebody; each end is reported once, with the right reason |
| M `pool.go`, `captions.go`: progressive segments | `pendingSeek`, `segmentCancel` (under `seekMu`), `Paused`, `startedAt`, `pausedAt`, the transcode's pause and resume functions, `Captions` | `playProgressive`, `runSegment`, `Seek`, `Pause`, `Resume`, `SetCaptions` | handlers act between two segments and while one starts | the segment that plays is the one seek, pause and captions asked for |
| M `pool.go`: HLS loops | attempt and failure counters, upstream URL, loading card | `playVodHLS`, `playLiveHLS`, `refreshLiveUpstream` | retries, backoff, a provider that keeps failing, an infinite loop | a live stream ends only when cancelled; the backup is earned; a film is not replayed |
| P `playback.go`, `credits.go`, `internal/introdb`: overlays | `timedCTAs`, `creditsTrigger`, windows of a segment | selection of intro and credits, `buildCTAWindows`, near-end monitor, `/skip-intro` | a record that arrives or changes between two segments, seeks into a window | an overlay the segment was requested with is drawn exactly in its part of the title; a skip lands where an intro ends |
| M `internal/bot/stream.go`, `prepare.go`, `seek.go`, `subtitles.go` | the message of an interaction, a stream's card | `/stream` and its pickers, `acquireForPlayback`, `OnClose`, the controls | each way out must edit the reply; a swapped stream and its successor share a message | every command is answered; a running stream keeps its controls |
| M `internal/bot/autonext.go` | `b.autoNext` (generation, cancel) | `handleNearEnd`, prompt, countdown, both buttons, executors | every goroutine checks a generation and then makes slow calls | an outdated countdown does not fire; a prompt always resolves |
| M `internal/bot/subscribe.go`, `internal/db/subscriptions.go` | rows in MongoDB, semaphore | `pollSubscriptions`, `maybeTriggerSubscription`, subscribe and delete | goroutines work on a copy of the row; restarts; each call may fail | a row does not restart its own match, nor start one it has recorded; the poll never hangs |
| M `internal/streamer/streamer.go`, `voice.go`, `stream_conn.go` | `voiceConn`, `streamConn`, their credentials, `onVoiceLeave` | `JoinVoice`, `CreateStream`, `StopStream`, `LeaveVoice`, the listener | events arrive late or are dropped, fields are written without the lock | each event reaches its own connection; what played is stopped |
| P `internal/streamer/media_gateway.go` | websocket, reader, heartbeat, peer | dial, read, reconnect, stop | two dialers, a reader of a connection that is replaced or nil | one socket, one reader; stopped means closed |
| M `internal/streamer/dave_session.go` | protocol version, prepared transitions, ratchets, passthrough | select, prepare, execute, commit, welcome, reset | a transition that is lost with its connection, executed late or fails | the key changes exactly when Discord executes a transition |
| M `internal/streamer/play.go` with `internal/transcode`: sender | packet channels, pause state and epoch, debts of pauses, native handle | emit, both pumps, pause card, loading card, abort, free | one pause seen by two pumps, a blocked emitter, a card against the end of libav | the debts are kept; a cancelled segment ends all its threads |
| M `internal/source` | offset, size, body, retries | open, discard, read, seek, size, destroy | servers that drop, stall, ignore the range or change their URL | the next byte is the one asked for; no read hangs |
| P `internal/selfbot` | session id, socket, heartbeat | login, identify, resume, heartbeat, reconnect | `close` nils the connection under its reader; silence before and after HELLO | one live socket; a silent one is replaced |
| P `internal/tvapi` | schedule and channel list with their caches, metadata | merge, sort, refresh, `FindTeamEvent`, enrichment | refreshes behind readers, two loops with two locks | a live match is not lost; a list is not left without its metadata |
| P `internal/captions` | the session's track, temporary files | search, rank, download, `SetCaptions`, reset | a search that outlives its stream | a segment's file exists and is about its stream |
| not modelled | | | see *Not modelled* | |

How the parts interact: a command handler or a button of `internal/bot` calls
`acquireForPlayback` (`Acquire` or `Swap`) and `Play`/`PlayReusing`, which starts
`runLoop` as a goroutine.  `runLoop` calls `playProgressive` or `playHLS`; each
segment opens a `source` and a `transcode`, and `streamer/play.go` pumps packets
to the peer of the stream connection's media gateway.  The gateway's credentials
come as events of the worker's selfbot gateway through a bounded channel.
Handlers act on a running stream through fields of the session.  `runLoop`
reports its end through `OnClose`, the monitor reports the credits through
`OnNearEnd` (auto-next); auto-next and the subscription poller are two more
callers of `acquireForPlayback`.

## Modules

| Module | Models | State and actions |
| --- | --- | --- |
| `PoolSession` | the session between start requests, run loops and users | The variables are the fields of `pool.Session` and the two connections of its `Streamer`, under the code's names. Each caller and each run loop has a program counter that stops where the code can be overtaken: an unlock of `pool.mu`, a channel, the network, a callback. `Begin` to `StartLoop` are `acquireForPlayback` to `go p.runLoop`; `LoopEnter` to `CloseDone` are `runLoop`. `Release` is three steps, shared by callers and run loops. |
| `StreamSlot` | what a session promises the rest of the bot | one holder, one live stream, freed or handed over, reported once |
| `ProgressivePlayback` | `playProgressive`/`runSegment` with the users' commands | one action per step of the loop between two places where a handler can get in; `Pause`, `Resume` and `SetCaptions` are two steps each because their fields have no lock; `Seek` is one step (all under `seekMu`) |
| `HlsPlayback` | `playVodHLS` and `playLiveHLS` | `live` and `hasBackup` come with the request and never change; a segment opens or not, grows from "short" (under 15 s) to "startup" (under 30 s) to "stable", and ends |
| `MediaSender` | `mediaSender`, its packet channels, `pauseState`, `nativeState` | the native thread emits and blocks, two pumps take, hold and send; the video pump sends a card step by step (look up, encode, send, count), because the pause may end and the handle may be freed between them; each pump settles a pause when it sees a new epoch |
| `MediaSource` | one resumable download | `Read` and `Size` of the transcode thread, each with its open, discard and retry; servers, `Destroy` and the context act in between |
| `MediaGateway` | one voice websocket (`mediaGateway`) | The fields that `g.mu` protects and the plain ones; one program counter each for the listener (`setSession`, `setTokens`, `tryConnect`), `reconnectLoop`, `stop` and the read loop of every socket. A handler runs between `Receive` and `OnHello`, `OnReady` or `OnAck`. |
| `StreamConnections` | a worker's `Streamer` and its listener | numbered voice and stream connections; events in a bounded queue that `emit` may drop; the listener applies each to whatever connection is current |
| `DaveSession` | `daveSession` | the encryptor's and the decryptors' keys by epoch, prepared transitions, passthrough; Discord announces and executes transitions, connections come and go; `SendFrame` is one frame on its way through `encrypt` and `sendVideo` or `sendAudio`, which send it as it is when libdave refuses it |
| `SelfbotGateway` | `maintainGateway`, `connect`, reader and heartbeat of each gateway | a packet, silence or a hang-up at any time; `close` in the steps in which it nils `conn` |
| `SportsSchedule` | schedule of matches | a fetch merges three lists, removes copies and sorts; cold and background refreshes; `FindTeamEvent` as an operator |
| `ChannelCatalog` | channel list | the list loop and the metadata loop with their two locks; matching and enrichment of one channel that stands for all |
| `SubtitleFetch` | one search for a file | sidecar, query variants, downloads until one is English; the hits of an episode are ranked by kind, those of a film keep the order of the response; writing a file may fail, which ends the downloads |
| `Subtitles` | the track of a session | `/subtitles` handlers that fetch for long, `warmCaptions`, reset at each stream, files created and removed |
| `SegmentOverlays` | overlays, credits trigger, `/skip-intro` | selection from a record, lookup before the stream and after the probe, windows of a segment that begins anywhere; `/skip-intro` in two steps, between which playback goes on for the time of a lookup |
| `StreamCards` | `/stream`, pickers, cards | handlers that edit messages, streams that edit them again when they end |
| `Subscriptions` | the poll loop, its goroutines, rows, matches, users, restarts | one goroutine per row, stopped at each call that may fail or take time; `plays` gives each match the rows that follow one of its teams, so two rows of a guild may meet in one match |
| `AutoNext` | prompts, generations, countdowns and executors of one guild | the pool is abstract (a started stream replaces the one on air) |
| `MC_ProgressivePlayback` | TLC instance | |
| `MC_Session`, `MC_Retries`, `MC_Lookups`, `MC_Messages`, `MC_Connections` | TLC instances of several components | see below |
| `PoolSessionProofs`, `ProgressivePlaybackProofs`, `DaveSessionProofs` | theorems about one component | extend the component |
| `SessionProofs`, `RetriesProofs`, `LookupsProofs`, `MessagesProofs`, `ConnectionsProofs` | theorems about the components of a run | extend the run's `MC_` module, so that a theorem names the very property that the run checks |

`StreamSlot` is the abstraction of `PoolSession`: `Slot` maps `Busy` to `held` and
the place of a run loop (`Status`) to the life of its stream.  `AutoNext`,
`Subscriptions`, `StreamCards` and `Subtitles` use the session only through what
the slot promises: one holder, and an order in which a stream leaves it.
`StreamConnections` uses a media gateway as "ready once it has its credentials".

A sum module checks components that answer one question.  Every behaviour runs one
of them, which `on` names from the start (`SumInit`); the others stay in one of
their initial states.  So their states add up and do not multiply, and each
component is explored as it would be alone.  The first component is EXTENDed and
keeps its names, the others are instances whose variables have a prefix.  The
constants of all components are constants of the sum, with the assumptions of each
as a named `ASSUME`; only the `.cfg` says that there are two of something, so the
theorems about a sum are about any number.

## Runs

| Run | Expect | What it asks |
| --- | --- | --- |
| `session` | pass | *PoolSession*, three requests in turn: one run loop at a time that owns every field while it plays, channels closed once (`SessionIsExclusive`); a swap finds voice exactly when the old stream was torn down as swapped (`SwapKeepsVoice`); the whole refines `StreamSlot` (`ImplementsSlot`). *MediaSender*: however the pumps interleave, the video is ahead of the audio by exactly the cards not settled yet (`DebtsAreKept`); no card is encoded with a freed handle (`CardUsesLiveHandle`); a cancelled segment ends its pumps and its native thread, a starved live stream is cut (`SenderThreadsEnd`). |
| `progressive` | pass | A segment that plays follows every seek, caption setting and pause (`SegmentFollowsSession`), a resume keeps the position (`ResumeKeepsPosition`), a seek is honoured and a stop ends the loop, paused or not (`RequestsTakeEffect`). |
| `retries` | pass | *HlsPlayback*, films and live streams, with a backup or without: `LiveEndsOnlyWhenCancelled`, `WatchedIsNotReplayed`, `BackupIsEarned`, `FailingProviderIsLeft`. *PoolSession* with two requests that interleave everywhere and teardowns that outlast 20 s: `OverlapLeaksNoSlot`, `OverlapRequestsEnd`. *MediaSource*: `BodyIsAtOffset`; each call returns, and the end is the end of the file (`ReadReturns`). *SelfbotGateway*: `ReplacedIsClosed`; a silent connection is noticed at every stage and followed by another (`SilentIsReplaced`). |
| `lookups` | pass | *Subscriptions*, when announcing and marking succeed: `RunningMatchIsNotRestarted`, `RecordedMatchIsNotStarted`, `PollsGoOn`. *SportsSchedule*: `LiveIsNotLost`, `RefreshIsReset`. *ChannelCatalog*: `SettledIsEnriched`. *SubtitleFetch*: `BestSourceIsTaken`. *Subtitles*: `SubtitlesBelong`. *SegmentOverlays*: `OverlaysAreInTime`. What each of them covers and leaves open is said under *Observations*. |
| `messages` | pass | *AutoNext*: `CountdownIsCurrent`, `PromptsAreResolved`. *StreamCards*: every command is answered (`CommandIsAnswered`), and a stream that is swapped out does not take the controls of its successor away (`SwappedInKeepsItsCard`). |
| `connections` | pass | *MediaGateway*: a socket that is not closed is the one the gateway knows, peers and heartbeats go with their connection, `stop` leaves nothing behind (`ConnectionIsWhole`); a read loop panics only in the case described below (`OnlyStopCrashes`); `StopReturns`, `LostIsReplaced`. *StreamConnections*: `OnlyFailedIsOrphaned`, `AnswerIsNotLost`, `LeaveIsGenuine`. *DaveSession*: the key of what is sent changes exactly when Discord executes a transition (`KeysFollowTransitions`). |
| `session_two_loops` | violation | `SwapTearsDown`: a swap during another request's join tears nothing down. |
| `session_lost_stop` | violation | `StoppedIsStopped`: a stop during the join is answered and forgotten. |
| `progressive_lost_resume` | violation | `ResumeReachesTranscode`: a resume while a segment takes over the pause is lost. |
| `sender_aligned` | violation | `TracksStayAligned`: cards sent in a pause whose event the audio pump has settled first are counted too late, and the video clock stays ahead of the audio for the rest of the segment. |
| `subscriptions_retrigger` | violation | `RunningMatchIsNotRestarted` when Discord refuses the announcement. |
| `autonext_takes_over` | violation | `SparesOtherStreams`: the next episode swaps out a stream a user has just started. |

Distinct states of the passing runs: `session` 359 172, `progressive` 533 540,
`retries` 68 117, `lookups` 354 901, `messages` 361 691, `connections` 219 972.
Each takes about two minutes or less.

`CHECK_DEADLOCK FALSE` stands in the configurations of systems that may come to
rest: a stream that is over, an idle guild, bounds that are used up.  There the
liveness properties are what rules out a hang.  The two violation runs of the
session do check for deadlock.

### Observations

Divergences of the code from its own comments, and cases the passing runs
exclude or describe.  They have no run of their own.

- `stop` of a media gateway sets `g.conn` to nil (media_gateway.go:849) before it
  waits for the read loop.  If a handler runs just then, the loop comes back to
  `g.conn.ReadMessage()` (media_gateway.go:384) and panics on the nil connection,
  which ends the process; the comment at media_gateway.go:847 expects it to exit.
  The model has that outcome (`crashed`), and `OnlyStopCrashes` says it is the only
  way a read loop panics.
- Both stream events are applied without the lock (streamer.go:191): a `StopStream`
  between the check and the use makes the listener use a nil connection (`crashed`
  in `StreamConnections`).
- With `Overlaps = TRUE` two more things happen in `MediaGateway`.  Credentials that
  arrive while `reconnectLoop` sleeps make `tryConnect` dial as well: `conn` and
  `readDone` are overwritten, a socket is left open, and two read loops close one
  channel.  A new connection that fails before the loop of the old one has cleared
  `reconnecting` (media_gateway.go:321) is not dialled again.  The passing run has no
  losses while `reconnectLoop` is on, so `LostIsReplaced` only says that a connection
  lost at any other time is dialled again until a server answers.
- `CreateStream` that times out leaves its stream connection in place, and the next
  one overwrites it without `stop`: its gateway is orphaned.  `OnlyFailedIsOrphaned`
  says that this is the only way.
- With `Pipelined = TRUE`, should Discord announce a transition before the last one
  is executed, `DaveSession` applies the version of the later one to the earlier.
- A frame that libdave refuses is sent as it is (media_gateway.go:1071 and 1099),
  in an encrypted call too.  After a downgrade the encryptor is in passthrough and
  keeps its old ratchet; a new connection that selects version 1 then makes
  `active` true again, and frames go out in the clear until the next transition
  is executed.  While a new group is being formed, frames are sealed with the key of
  the old one.  `KeysFollowTransitions` allows all three: it speaks of frames
  that are sealed, and of all that libdave does not refuse only while the session is
  in the epoch that was executed last.
- Rows are unique by guild and team (db/subscriptions.go), and `teamInEvent` matches
  either side: a guild that follows both teams of a match has its stream torn down
  once by the goroutine of the second row, to start the same match again.
  `RunningMatchIsNotRestarted` allows for that as long as the second row has not
  recorded the match.  A crash between the start and the record has the same effect
  after the restart: nothing is on air then, and the match is started and announced
  a second time.
- `transcode_run` copies its parameters (transcode_c.c:1593) before
  `streamly_fill_ctas` writes the overlays built after the probe into the original
  (:1631), and `build_filter_graph` reads the copy (:1682).  An overlay that the probe
  arms is drawn only from the next segment on; without a seek or a restart the one
  for the credits, which needs the duration, is never drawn.
- `streamly_fill_ctas` also frees the path of the font (transcode_cgo.go:263) that
  the copy still points to and `build_filter_graph` reads.  The model has what
  may come of it as a choice: the path as it was, overlays without a font, which are
  not drawn, or a filter graph that cannot be built and ends the segment.
- `/skip-intro` reads the position, looks the title up for at most 15 seconds, and
  seeks to the end of the intro (skip_intro.go:41, :157, :73).  By then the playback
  may have passed it, so that the skip goes back, or another stream may have taken over
  the session.  `SkipLeavesTheIntro` is about the position that was read and the target
  handed to `Seek`, which caps it two seconds before the end (`ProgressivePlayback`).
- When a stream ends on its own just before `Swap` sets `swapping`, `runLoop`
  closes `loopDone` (pool.go:870) before it calls `OnClose` (pool.go:876), so
  the card of the old stream may be edited after the new one; the comment at
  pool.go:842 promises the order for swapped streams, and `SwappedInKeepsItsCard`
  is stated for those.
- The loading card (playback.go:193) shows "Trying backup source..." from the
  fourth attempt on, clean ends included, whether or not a backup is in use; the
  comment at playback.go:28 says it is shown after switching to the backup.
- The fallback for the credits (introdb/timing.go:67) takes an intro after 65 % of
  the runtime; its comment says the final quarter.
- `sortSportsEvents` puts a game that started within three hours into the bucket of
  the live ones (sports.go:693); its comment (sports.go:669) orders live games first.
- Enrichment replaces the name of a channel and with it the country suffix, so a
  second pass over the same list may move a channel to another country.
  `CountryIsAsked` is stated for the first pass.
- Two users whose `Pause` and `Resume` cross call the transcode in the order that
  no lock fixes; `SegmentFollowsSession` needs one user at a time for pauses.

### Bounds

Bounds on arrivals are guards of the actions that use them up.

- *PoolSession*: `MaxStreams` is 3, or 2 with two callers.  Three requests make a
  stream that is both the successor of one and the predecessor of another; two
  callers that may overlap need two.
- *MediaSender*: `ChannelCap = 1` (full after one packet), two packets, one pause of
  length 1, two cards, so that a card more than the pause lasted is sent and its
  overshoot has to be settled, and two segments, for what the first leaves behind.
- *ProgressivePlayback*: `MaxSeeks = 2`, `MaxTime = 1`, `Duration = 3`,
  `Qualities = 2`: a seek on top of a pending one, a clock that moves while paused,
  targets on both sides of the two-second margin, and one fallback.  `Users` has
  one member, see *Observations*.
- *HlsPlayback*: `MaxRetries = 5` and `FallbackAfter = 3` are the code's sizes; the
  counters stop at `CounterCap = 6`, above every number the loop compares them with.
- *MediaSource*: a file of 4 blocks, 2 retries, 2 seeks: a resume after a resume,
  a seek forwards and one back, and an offset that is neither the start nor the end.
- *SelfbotGateway*: 3 gateways, 4 packets: a greeted gateway that is resumed by one
  and replaced by another.
- *MediaGateway*: `MaxConns = 3` and `MaxUpdates = 3`: a connection, the one that
  replaces it and the one after, so that each goroutine meets the leftovers of two
  predecessors; both credentials and one change of them.  `Overlaps = FALSE` lets
  credentials and losses arrive only while no connection is being set up or taken
  down; stops come at any time.  A handshake is three messages.
- *StreamConnections*: an event channel of 2, two joins, two streams, one kick: a late
  event of the first connection meets the second, and a third event is dropped.
- *DaveSession*: one other member, 3 epochs, 2 transitions, 2 connections: an upgrade
  after a downgrade, and a connection that comes between an announcement and its
  execution.
- *Subscriptions*: two rows in one guild and `Concurrency = 1`, so that the semaphore
  makes one wait while the other works; `MaxMatch = 2` gives a match before and
  after the one a row has recorded; one restart.  `Fixtures` bounds what `plays` may
  be: both rows follow the first match, and both or one the second (`Followed`), so
  that two rows meet in one match and one of them has another.
- *SportsSchedule*: two matches in three lists, two callers, times up to 3 with
  windows of 1.  *ChannelCatalog*: two countries, two keys (one of them ambiguous),
  four metadata entries, two fetches of each loop.
- *SubtitleFetch*: two variants, two paths, a reliable and an unreliable kind.  The
  kinds of a film's hits go against their order (`FilmKinds`), which shows that only
  the order counts.
  *Subtitles*: two handlers, three streams, two files at a time.
- *SegmentOverlays*: a title of length 4, records with no intro, a short one, one
  without end and overlapping ones, two segments: what the probe of the first one
  arms is what the second one draws.  Every position is a possible offset.
- *AutoNext*: `MaxPrompts = 2`, `MaxStreams = 3`, `MaxClicks = 1`: a prompt that
  replaces another, a Play Now besides the countdown, and a user's stream.
  *StreamCards*: two handlers that may share a message, two messages.

### Fairness

Weak fairness is assumed of goroutines that can run: callers, run loops,
handlers whose command has begun (`UserStarts` and `UserStops` end what
`UserBegins` began), executors, pumps, the native thread, readers, heartbeats,
refreshes and the poller.  The code justifies it: each wait they make
has a timeout (`voiceJoinTimeout`, `hotswapTeardownTimeout`, the HTTP clients',
the watchdogs of `runSegment`, of `source.open` and `readBody`, the gateway's
HELLO timeout and heartbeat) or a context that the same property has
cancelled.  A segment or stream that is cancelled ends (`StreamReturns`,
`SegmentEnds` conjoined with the cancellation): `playback.Run` selects on its
context. Strong fairness is assumed twice. A server that `reconnectLoop` dials
again and again answers in the end (`Redial`); without it no connection could come
back, and the loop never stops dialling. And the loading timeout of a live stream
(`LiveTimeout`) is taken by one of the rounds of the pump: the timer stays ready
once it has fired, but the model leaves a round while a card is shown. Nothing is
assumed of users that begin or press something, of matches, of the clock, of
servers and Discord otherwise, or of media that nobody cancelled; those may go on,
or do nothing, for ever.

## Proofs

Proved by TLAPS, for every value of the constants:

- `PoolSessionProofs`.  `NothingLeaks`: `NoLeakedSlot` (run `retries` checks it as
  `OverlapLeaksNoSlot`), with any number of overlapping callers and any timeouts.
  The property is not inductive: a run loop in `teardown` leaves the slot Busy for
  a swap, so the invariant (`LeakInv`) adds that `swapping` is set only while a
  caller is in `Swap`, and a torn-down loop has such a swapper.  For requests that
  do not overlap (`~OverlapStarts`) and teardowns that meet their timeout
  (`~SlowTeardown`): `StreamsFollowEachOther` (`SessionIsExclusive`),
  `SwapsKeepTheVoice` (`SwapKeepsVoice`) and `SessionImplementsSlot`, the refinement
  of `StreamSlot`.  They share `HandoverInv`, which says for each place of a caller
  (`CallerInv`) and of a run loop (`LoopInv`) which fields are its own: exclusion
  at one step follows only from who waits for whom at the others.  `VoiceInv` adds
  that a free slot has no voice connection (`EmptyInv`) and what each end of the old
  stream leaves for the `Swap` that waits for it (`SwapInv`).
- `ProgressivePlaybackProofs`.  `SeeksStopTheSegment` and `CaptionsAreBurned`, for any
  number of users; `SegmentsFollowTheSession` (`SegmentFollowsSession`), which adds the
  pauses and assumes one user (`OneUser`); `ResumesKeepThePosition`
  (`ResumeKeepsPosition`).  Each property speaks of a segment that plays, and its
  invariant (`SeekInv`, `CaptionInv`, `PauseInv`) says at each earlier step of the
  loop what the handlers have yet to do.
- `DaveSessionProofs`.  `KeysFollowExecution` (`KeysFollowTransitions`), if Discord
  announces one transition at a time (`~Pipelined`), for any number of users, epochs,
  transitions and connections.  `KeyInv` says that the key in use is that of the epoch
  executed last whenever the session is in it.  `TransitionInv` says which of the announced and
  prepared transitions the key may still change to, `NumbersInv` that nothing is
  executed before it is announced.
- `SessionProofs`.  `CardsAreSettledOnce` (`DebtsAreKept`) and `HandleOutlivesCards`
  (`CardUsesLiveHandle`).  Both are inductive beside the types once a step of one pump
  is known to leave the other's program counter alone; the work is in showing that
  settling, which takes the smaller of two numbers off the debt, takes the same off
  the lead of the video.
- `RetriesProofs`.  *HlsPlayback*: types (`LiveReconnectDelay` stays between `DelayMin`
  and `DelayMax` for every count), `LiveEndsOnlyWhenCancelled`, `BackupIsEarned` (from
  `FailuresAreTheStreak`: `consecutiveFailures` is the number of failed segments since
  the last stable one), `WatchedIsNotReplayed`.  *MediaSource*: `BytesAreAtTheirOffset`
  (`BodyIsAtOffset`) and `EndsAreTheEnd` (the safety half of `ReadReturns`);
  `PositionInv` follows a response that is not installed yet through the discarding of
  its first bytes.  *SelfbotGateway*: `ReplacedGatewayIsClosed` (`ReplacedIsClosed`); what
  is missing for induction is that whoever gives a gateway up has closed it before
  (`LostIsClosed`) and that one not dialled yet is untouched.  *PoolSession* with
  overlapping requests: `OverlappingRequestsLeakNoSlot` is `NothingLeaks`, carried
  to the component of the sum by showing that its behaviours are those of `PoolSession`.
- `LookupsProofs`.  *Subscriptions*: types, `SemaphoreHolds` for any finite set of rows,
  `RecordedMatchIsNotStarted` and, if announcing and marking do not fail,
  `RunningMatchIsNotRestarted`; `RowInv` says why a copied row is good enough: as long as
  a goroutine has not marked, nobody else changes its row, and a row that is deleted does
  not come back under the same id.  `ShownInv` says that what a row has started and not
  recorded is still in the hands of its goroutine, which starts nothing else meanwhile.  *Subtitles*: `SubtitlesBelong`, from who owns a file
  when: a fetch that goes on is alone with its file (`FetchIsAlone`), the track only has a
  file of a request (`TrackIsWhole`).  *ChannelCatalog*: `SettledIsEnriched`, the country for
  the first enrichment of a list only;
  `SomebodyWillEnrich` names the loop that has still to come if the list is bare, and
  `OtherCountriesScoreLow` is why an entry of another country never wins.
  *SubtitleFetch*: `BestSourceIsTaken`; the paths stay in their order (`HitsAreRanked`) and what
  was tried was in vain (`TriedInVain`), as long as the context is alive.
  *SegmentOverlays*: `OverlaysAreInTime`, with lemmas about the choice of the viable
  intros and the jump (`ViableIntrosOf`, `TargetIsAhead`, `CreditsStartOf`).
  *SportsSchedule*: `LiveIsNotLost` for any lists.  `MergedTo` says what the first k copies
  leave; that every k has it is shown by a least counterexample (`LeastOf`), and so is the
  existence of the recursion (`MergedExists`).  Sorting keeps the events and puts none
  behind a later one (`SortKeepsEvents`), which makes the first active event the right one.
- `MessagesProofs`.  *AutoNext*: types, and `CountdownIsCurrent` for any number of prompts
  and clicks.  *StreamCards*: `SwappedInKeepsItsCard`; `CardsInv` says that a stream has the
  slot until it has left, that a handler which has claimed the slot has no stream yet and
  that each handler starts one stream.
- `ConnectionsProofs`.  *MediaGateway*: types; `HeartbeatHasReader` in every interleaving;
  and, if credentials and losses come one at a time (`~Overlaps`), `GatewayConnections`
  (`ConnectionIsWhole`) and `GatewayCrash` (`OnlyStopCrashes`), for any number of sockets and
  updates.  `GatewayInv` has a part for each kind of knowledge: a socket not dialled yet is
  untouched (`FreshInv`), the only read loop is that of the last socket (`ReaderInv`), who
  may change the connection while the gateway is open (`OpenInv`), whose the peer and the
  heartbeat are (`MediaInv`), how far `stop` has come (`StopInv`).  That a dial finds no
  other socket needs all of them.  *StreamConnections*: `OnlyFailedIsOrphaned`,
  `AnswerIsNotLost` and `LeaveIsGenuine`, for any capacity of the event channel and any
  number of joins, streams and kicks.  `VoiceInv` and `StreamInv` speak of the order of the
  queue: behind the token of a connection there is nothing of an earlier one, and the
  events of the stream being created are queued, in the listener's hands, applied or
  dropped.  *DaveSession*: `SentKeysFollowExecution` carries
  `KeysFollowExecution` to the sum.

The assumptions on constants are named in the modules (`ASSUME`, or an operator that
the sum modules assume of each instance), and TLC evaluates them in the runs.
Assumptions of single theorems are in their `ASSUME ... PROVE`.  Those about overlap,
teardown, one user and pipelining are not facts about the code: the violation run
`session_two_loops`, the component `overlap` of `retries` and the observations above
show what is lost, and what is kept, without them.

Every invariant and every action property of the passing runs is proved, some under the
hypotheses named above, which the constants of the run satisfy.  Only
model-checked are the liveness properties, because fairness and `ENABLED` are out of
the prover's reach: `SenderThreadsEnd`, `RequestsTakeEffect`, `FailingProviderIsLeft`,
`ReadReturns` (its safety half is proved), `SilentIsReplaced`, `OverlapRequestsEnd`,
`PollsGoOn`, `RefreshIsReset`, `PromptsAreResolved`, `CommandIsAnswered`, `StopReturns`
and `LostIsReplaced`.

## Abstractions

- The Go memory model: fields read and written without a lock are modelled as
  interleaved atomic accesses.
- A stream's media is how it ends; positions are seconds in `ProgressivePlayback`,
  blocks in `MediaSource`, and the card is the unit of time in `MediaSender`, where
  pacing against the wall clock is left out and a timer may fire whenever it is
  waited for.
- A caption track is a file and whether it is on; what is in a file is whether it is
  accepted as English.
- `FindTeamEvent` may return any active match of a team: the order in which a provider
  lists them is left open.
- The URL of a live request is never empty, as its callers guarantee.
- Discord, MongoDB, the catalogues, libdave and libav answer or fail, at each call.
- The `ready` channel of a media gateway is where `JoinVoice` and `CreateStream` of
  `PoolSession` wait; the speaking and video messages change nothing that
  `MediaGateway` tells apart.  The peer is atomic: made, then closed.  Two seconds
  are enough for a read loop that is on its way out.
- A swap inside `AutoNext` and `Subscriptions` succeeds or fails as a whole.  In
  `StreamCards` a handler does not claim a free slot while another one waits in `Swap`;
  how such claims go on is what `PoolSession` with overlapping requests explores.

## Not modelled

- `workers` with `SetKey` and `Restore` (pool.go:1571): the table of sessions and the
  file behind it.  `SetKey` checks `Busy`, unlocks to log in, and replaces the
  session under a second lock, so a request may play on a session that is no longer
  in the table; `Save` copies the map under its lock and writes the file outside it,
  so two of them may write in the other order.  A model of the one interleaving
  would restate it.
- `db` other than the subscriptions: one MongoDB call per operation, except
  `RecordStream` (delete, insert, trim without a transaction), where two commands of
  one user may leave a title twice until the next one.
- `tvmaze`: read-through caches of an external guide.  `febapi`, `media`: requests to
  catalogues, encryption and ranking of their answers, which the models take as
  external choices.  The scraping and playlist resolution of `tvapi`.
- `streamer/h264*.go`, `sdp.go`, `codec.go`: bit-level conversion of one buffer.
  `transcode_c.c` beyond its emit loop and life: libav's decoding and filtering.
  `libdc`: a binding.  MLS itself.
- REST calls of `selfbot`, and how the client presents itself.
- Commands of the bot that only read and format (`now`, `stats`, `top`, `history`,
  `channels`, `episodes`, `sports`), autocomplete, embeds, the pause card's layout.
- `config`, `cmd`, scripts, `third_party`.
