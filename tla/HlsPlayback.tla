---------------------------- MODULE HlsPlayback ----------------------------
(***************************************************************************)
(* A stream whose URL is an HLS playlist.  libav reads the playlist itself *)
(* and there is no seek, so a segment that ends is followed by a new one   *)
(* from the start:                                                         *)
(*   - playVodHLS tries again only while a failure comes soon after the    *)
(*     start of the segment, at most MaxRetries times;                     *)
(*   - playLiveHLS goes on until its context is cancelled, waits longer    *)
(*     the more segments failed in a row, and turns to a backup provider   *)
(*     after FallbackAfter of them.                                        *)
(*                                                                         *)
(* The loops only compare their counters with small constants, so attempt  *)
(* and failures stop at CounterCap; no comparison tells the difference.    *)
(***************************************************************************)
EXTENDS Integers

CONSTANTS
    MaxRetries,     \* config.Download.MaxRetries
    FallbackAfter,  \* liveProviderFallbackAfter
    CounterCap      \* where the counters stop

ASSUME RetriesAssumption == MaxRetries \in Nat /\ FallbackAfter \in Nat \ {0}
ASSUME CapAssumption ==
    CounterCap \in Nat /\ CounterCap > MaxRetries /\ CounterCap > FallbackAfter
        /\ CounterCap > 4

VARIABLES
    live,           \* Request.Live: playLiveHLS, else playVodHLS
    hasBackup,      \* Request.ResolveFallbackURL is set
    pc,             \* where the loop is
    attempt,        \* attempt
    failures,       \* consecutiveFailures
    usingFallback,
    url, headers,   \* whose they are: "primary" or "backup"
    delay,          \* seconds the loop waits before the next segment
    lasted,         \* how long the segment went: "short", "startup" or "stable"
    cleanEnd,
    ctxDone,
    streak,         \* history: failed segments since the last stable one
    watched         \* history: a segment outlived hlsStartupRetryWindow

requestVars == <<live, hasBackup>>
ctxVars == <<ctxDone, requestVars>>
upstreamVars == <<usingFallback, url, headers>>
segmentVars == <<lasted, cleanEnd>>
historyVars == <<streak, watched>>
vars == <<pc, attempt, failures, upstreamVars, delay, segmentVars, ctxVars, historyVars>>

DelayMin == 2
DelayMax == 15

TypeOK ==
    /\ live \in BOOLEAN /\ hasBackup \in BOOLEAN
    /\ pc \in {"top", "refresh", "wait", "opening", "playing", "account", "over"}
    /\ attempt \in 0..CounterCap /\ failures \in 0..CounterCap
    /\ usingFallback \in BOOLEAN
    /\ url \in {"primary", "backup"} /\ headers \in {"primary", "backup"}
    /\ delay \in 0..DelayMax
    /\ lasted \in {"short", "startup", "stable"}
    /\ cleanEnd \in BOOLEAN /\ ctxDone \in BOOLEAN /\ watched \in BOOLEAN
    /\ streak \in 0..CounterCap

Init ==
    /\ live \in BOOLEAN /\ hasBackup \in BOOLEAN
    /\ pc = "top" /\ attempt = 0 /\ failures = 0 /\ usingFallback = FALSE
    /\ url = "primary" /\ headers = "primary" /\ delay = 0
    /\ lasted = "short" /\ cleanEnd = FALSE
    /\ ctxDone = FALSE /\ streak = 0 /\ watched = FALSE

Succ(n) == IF n < CounterCap THEN n + 1 ELSE n

\* liveReconnectDelay, in seconds.
LiveReconnectDelay(n) ==
    LET shift == IF n - 1 > 3 THEN 3 ELSE n - 1
        doubled == DelayMin * 2 ^ shift
    IN  IF n <= 1 THEN DelayMin ELSE IF doubled > DelayMax THEN DelayMax ELSE doubled

\* Mutant of FailuresAfter: a segment that played well does not clear the count.
FailuresNeverReset(n, length, clean) == IF clean THEN n ELSE Succ(n)

\* Mutant of FailuresAfter: a playlist that just ends clears the count.
CleanEndResets(n, length, clean) == IF length = "stable" \/ clean THEN 0 ELSE Succ(n)

\* liveFailureCountAfterSegment
FailuresAfter(n, length, clean) ==
    IF length = "stable" THEN 0 ELSE IF clean THEN n ELSE Succ(n)

At(from, to) == pc = from /\ pc' = to

------------------------------------------------------------------------------
(* The head of both loops *)

Leave ==
    /\ ctxDone /\ pc \in {"top", "account"} \cup (IF live THEN {"wait"} ELSE {})
    /\ pc' = "over"
    /\ UNCHANGED <<attempt, failures, upstreamVars, delay, segmentVars, ctxVars, historyVars>>

FirstAttempt ==
    /\ ~ctxDone /\ attempt = 0 /\ At("top", "opening")
    /\ lasted' = "short"
    /\ UNCHANGED <<attempt, failures, upstreamVars, delay, cleanEnd, ctxVars, historyVars>>

Reconnect ==
    /\ ~ctxDone /\ attempt > 0 /\ At("top", "refresh")
    /\ usingFallback' = (usingFallback \/ (live /\ failures >= FallbackAfter /\ hasBackup))
    /\ UNCHANGED <<attempt, failures, url, headers, delay, segmentVars, ctxVars, historyVars>>

\* url is never empty, so refreshLiveUpstream asks once and keeps what it has
\* when ResolveURL fails.  playVodHLS resolves again too.
RefreshLiveUpstream ==
    /\ ~usingFallback /\ At("refresh", "wait")
    /\ delay' = IF live THEN LiveReconnectDelay(failures) ELSE delay
    /\ UNCHANGED <<attempt, failures, upstreamVars, segmentVars, ctxVars, historyVars>>

\* URL and headers are resolved apart; either may stay what it was.
RefreshFallbackUpstream ==
    /\ usingFallback /\ At("refresh", "wait")
    /\ url' \in {url, "backup"} /\ headers' \in {headers, "backup"}
    /\ delay' = LiveReconnectDelay(failures)
    /\ UNCHANGED <<attempt, failures, usingFallback, segmentVars, ctxVars, historyVars>>

\* The delay is over: enrichTranscodeRequest and runSegment.  playVodHLS sleeps
\* without looking at its context, and playLiveHLS may find the timer first;
\* transcode.Start then refuses to begin.
OpenAgain ==
    /\ At("wait", "opening")
    /\ lasted' = "short"
    /\ UNCHANGED <<attempt, failures, upstreamVars, delay, cleanEnd, ctxVars, historyVars>>

------------------------------------------------------------------------------
(* One segment: runSegment of a direct URL *)

\* The playlist opened and frames arrive.
StreamOpens ==
    /\ ~ctxDone /\ At("opening", "playing")
    /\ UNCHANGED <<attempt, failures, upstreamVars, delay, segmentVars, ctxVars, historyVars>>

\* The playlist could not be opened, which may take libav any time, or the
\* start-up watchdogs of runSegment and nextPacket cancelled a live segment
\* after 20 seconds.
OpenFails ==
    /\ At("opening", "account") /\ cleanEnd' = FALSE
    /\ lasted' \in IF live THEN {"short", "startup"} ELSE {"short", "startup", "stable"}
    /\ UNCHANGED <<attempt, failures, upstreamVars, delay, ctxVars, historyVars>>

\* Time passes: 15 seconds, then 30.
PlaysOn ==
    /\ pc = "playing" /\ lasted # "stable"
    /\ lasted' = IF lasted = "short" THEN "startup" ELSE "stable"
    /\ watched' = TRUE
    /\ UNCHANGED <<pc, attempt, failures, upstreamVars, delay, cleanEnd, ctxVars, streak>>

\* The playlist ends, the transcode fails, or liveLoadingTimeout cancels it.
SegmentEnds ==
    /\ pc = "playing" /\ pc' = "account"
    /\ cleanEnd' \in IF ctxDone THEN {FALSE} ELSE BOOLEAN
    /\ UNCHANGED <<attempt, failures, upstreamVars, delay, lasted, ctxVars, historyVars>>

------------------------------------------------------------------------------
(* The tail of the loops *)

History ==
    streak' = IF lasted = "stable" THEN 0 ELSE IF cleanEnd THEN streak ELSE Succ(streak)

\* Mutant of LiveGoesOn: the end of the playlist ends the stream.
LiveStopsOnCleanEnd ==
    /\ live /\ ~ctxDone /\ pc = "account"
    /\ pc' = IF cleanEnd THEN "over" ELSE "top"
    /\ failures' = FailuresAfter(failures, lasted, cleanEnd) /\ attempt' = Succ(attempt)
    /\ History
    /\ UNCHANGED <<upstreamVars, delay, segmentVars, ctxVars, watched>>

LiveGoesOn ==
    /\ live /\ ~ctxDone /\ At("account", "top")
    /\ failures' = FailuresAfter(failures, lasted, cleanEnd)
    /\ attempt' = Succ(attempt)
    /\ History
    /\ UNCHANGED <<upstreamVars, delay, segmentVars, ctxVars, watched>>

\* Mutant of VodRetries: a failure is retried however late it comes.
VodRetriesAlways ==
    /\ ~live /\ ~ctxDone /\ ~cleanEnd /\ attempt < MaxRetries
    /\ At("account", "top")
    /\ attempt' = attempt + 1
    /\ UNCHANGED <<failures, upstreamVars, delay, segmentVars, ctxVars, historyVars>>

VodRetries ==
    /\ ~live /\ ~ctxDone /\ ~cleanEnd /\ lasted = "short" /\ attempt < MaxRetries
    /\ At("account", "top")
    /\ attempt' = attempt + 1
    /\ UNCHANGED <<failures, upstreamVars, delay, segmentVars, ctxVars, historyVars>>

VodEnds ==
    /\ ~live /\ ~ctxDone /\ (cleanEnd \/ lasted # "short" \/ attempt >= MaxRetries)
    /\ At("account", "over")
    /\ UNCHANGED <<attempt, failures, upstreamVars, delay, segmentVars, ctxVars, historyVars>>

Cancel ==
    /\ ~ctxDone /\ ctxDone' = TRUE
    /\ UNCHANGED <<requestVars, pc, attempt, failures, upstreamVars, delay, segmentVars, historyVars>>

------------------------------------------------------------------------------
RunLoop ==
    \/ Leave \/ FirstAttempt \/ Reconnect \/ RefreshLiveUpstream
    \/ RefreshFallbackUpstream \/ OpenAgain \/ OpenFails \/ LiveGoesOn \/ VodRetries \/ VodEnds

Next == RunLoop \/ StreamOpens \/ PlaysOn \/ SegmentEnds \/ Cancel

\* A segment that does not open is given up, and a cancelled one ends; one that
\* plays need not end.
Fairness == WF_vars(RunLoop) /\ WF_vars(ctxDone /\ SegmentEnds)

Spec == Init /\ [][Next]_vars
FairSpec == Spec /\ Fairness

------------------------------------------------------------------------------
(* Properties *)

\* A live stream is given up for one reason only: its context is cancelled.
LiveEndsOnlyWhenCancelled == live /\ pc = "over" => ctxDone

\* The backup is taken after FallbackAfter failed segments without a stable one
\* between them, never sooner, and a stream that uses it keeps using it.
BackupIsEarned ==
    [][usingFallback' # usingFallback => usingFallback' /\ streak >= FallbackAfter]_vars

\* A provider that keeps failing is left, when there is another.
FailingProviderIsLeft ==
    live /\ hasBackup /\ streak >= FallbackAfter
        ~> usingFallback \/ ctxDone \/ streak < FallbackAfter

\* A film that got past its start is never played from the start again.
WatchedIsNotReplayed == ~live /\ watched => pc \notin {"top", "refresh", "wait", "opening"}

==============================================================================
