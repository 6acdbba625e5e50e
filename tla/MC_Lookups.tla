----------------------------- MODULE MC_Lookups -----------------------------
(* What is looked up to start a stream and to show it: the subscriptions that start
   matches (extended), the schedule of matches (R), the list of channels (L), a subtitle
   file (F), the subtitle track of a session (T) and its overlays (G). *)
EXTENDS Subscriptions

CONSTANTS
    Fixtures,       \* bound: the functions that plays may be
    FilmKinds,      \* bound: those that the kinds of the hits of a film may be
    Readers, Ids, TTL, Early, Recent, MaxTime, MaxStart,
    Countries, Keys, Listings, Known, MaxFetches,
    Variants, Paths, Kinds,
    Commands, MaxStreams, MaxFiles,
    Records, Duration, MinIntro, MaxSegments

VARIABLES
    on,     \* which component runs in this behaviour
    \* schedule: SportsSchedule
    r_now, r_provider, r_sports, r_cached, r_sportsAt, r_refreshing, r_pc, r_background,
    \* channels: ChannelCatalog
    l_catalog, l_metadata, l_fetched, l_pc, l_index,
    \* fetch: SubtitleFetch
    f_service, f_pc, f_variant, f_paths, f_tried, f_failed, f_expired, f_unwritten,
    f_result, f_from,
    \* subtitles: Subtitles
    t_stream, t_phase, t_track, t_key, t_files, t_about, t_made, t_burnt, t_restart,
    t_prefers, t_pc, t_target, t_path, t_late,
    \* overlays: SegmentOverlays
    g_record, g_autoNext, g_timedCTAs, g_creditsTrigger, g_segments, g_offset, g_probed,
    g_position, g_built, g_windows, g_answer

\* One name asks for a country and is known under two keys, the other is ambiguous; the
\* metadata have the channel in both countries, the American one with a logo.
ListedAs ==
    {[name |-> [keys |-> <<"a", "b">>, hint |-> "uk"], country |-> "uk"],
     [name |-> [keys |-> <<"b">>, hint |-> ""], country |-> ""]}

Entry(keys, country, logo, open) ==
    [keys |-> keys, country |-> country, logo |-> logo, categories |-> logo, open |-> open]

Entries ==
    {Entry(<<"a">>, "uk", FALSE, TRUE), Entry(<<"a", "b">>, "us", TRUE, TRUE),
     Entry(<<"b">>, "us", FALSE, TRUE), Entry(<<"b", "a">>, "uk", TRUE, FALSE)}

\* TheIntroDB has nothing, one short and one viable intro, an intro without an end, or three
\* that overlap or come late.
Intro(start, end) == [start |-> start, end |-> end]

Intros ==
    {<< >>, <<Intro(2, 4), Intro(0, 1)>>, <<Intro(1, 3), Intro(3, -1)>>,
     <<Intro(3, 4), Intro(0, 2), Intro(1, 2)>>}

\* All rows follow the first match, all or one the second.
Followed ==
    {[m \in Matches |-> IF m = 1 THEN Subs ELSE S] : S \in {Subs, {CHOOSE s \in Subs : TRUE}}}

\* The kinds of the hits of a film, which are not to matter, go against their order.
AgainstListing == {kind \in [Paths -> Kinds] : \A p, q \in Paths : p < q => kind[p] > kind[q]}

R == INSTANCE SportsSchedule WITH
    Callers <- Readers, now <- r_now, provider <- r_provider, sports <- r_sports,
    cached <- r_cached, sportsAt <- r_sportsAt, refreshing <- r_refreshing, pc <- r_pc,
    background <- r_background

L == INSTANCE ChannelCatalog WITH
    catalog <- l_catalog, metadata <- l_metadata, fetched <- l_fetched, pc <- l_pc,
    index <- l_index

F == INSTANCE SubtitleFetch WITH
    service <- f_service, pc <- f_pc, variant <- f_variant, paths <- f_paths,
    tried <- f_tried, failed <- f_failed, expired <- f_expired, unwritten <- f_unwritten,
    result <- f_result, from <- f_from

T == INSTANCE Subtitles WITH
    Handlers <- Commands, stream <- t_stream, phase <- t_phase, track <- t_track,
    key <- t_key, files <- t_files, about <- t_about, made <- t_made, burnt <- t_burnt,
    restart <- t_restart, prefers <- t_prefers, pc <- t_pc, target <- t_target,
    path <- t_path, late <- t_late

G == INSTANCE SegmentOverlays WITH
    record <- g_record, autoNext <- g_autoNext, timedCTAs <- g_timedCTAs,
    creditsTrigger <- g_creditsTrigger, segments <- g_segments, offset <- g_offset,
    probed <- g_probed, position <- g_position, built <- g_built, windows <- g_windows,
    answer <- g_answer

ASSUME ScheduleAssumed == R!ScheduleAssumption
ASSUME CatalogAssumed == L!CatalogAssumption
ASSUME FetchAssumed == F!SubtitleAssumption
ASSUME SubtitlesAssumed == T!SubtitlesAssumption
ASSUME OverlaysAssumed == G!OverlaysAssumption

AnyPayload == CHOOSE p \in R!Payloads : TRUE
AnyService == CHOOSE s \in F!Services : TRUE

AnyListing == CHOOSE l \in Listings : TRUE

rVars ==
    <<r_now, r_provider, r_sports, r_cached, r_sportsAt, r_refreshing, r_pc,
    r_background>>
lVars ==
    <<l_catalog, l_metadata, l_fetched, l_pc, l_index>>
fVars ==
    <<f_service, f_pc, f_variant, f_paths, f_tried, f_failed, f_expired, f_unwritten,
    f_result, f_from>>
tVars ==
    <<t_stream, t_phase, t_track, t_key, t_files, t_about, t_made, t_burnt, t_restart,
    t_prefers, t_pc, t_target, t_path, t_late>>
gVars ==
    <<g_record, g_autoNext, g_timedCTAs, g_creditsTrigger, g_segments, g_offset, g_probed,
    g_position, g_built, g_windows, g_answer>>
allVars == <<on, vars, rVars, lVars, fVars, tVars, gVars>>

\* A component that does not run stays in one of its initial states.
SumInit ==
    /\ on \in {"subscriptions", "schedule", "channels", "fetch", "subtitles", "overlays"}
    /\ Init
    /\ plays \in IF on = "subscriptions" THEN Fixtures ELSE {[m \in Matches |-> {}]}
    /\ on = "schedule" \/ (r_provider = AnyPayload)
    /\ R!Init
    /\ L!Init
    /\ on = "channels" \/ (l_catalog = L!Listed(AnyListing))
    /\ on = "fetch" \/ (f_expired = FALSE /\ f_service = AnyService)
    /\ F!Init
    /\ on = "fetch" => f_service.episode \/ f_service.kind \in FilmKinds
    /\ on = "subtitles" \/ (t_prefers = FALSE)
    /\ T!Init
    /\ G!Init
    /\ on = "overlays" \/ (g_autoNext /\ g_record = << >>)

SumNext ==
    \/ on = "subscriptions" /\ Next /\ UNCHANGED <<on, rVars, lVars, fVars, tVars, gVars>>
    \/ on = "schedule" /\ R!Next /\ UNCHANGED <<on, vars, lVars, fVars, tVars, gVars>>
    \/ on = "channels" /\ L!Next /\ UNCHANGED <<on, vars, rVars, fVars, tVars, gVars>>
    \/ on = "fetch" /\ F!Next /\ UNCHANGED <<on, vars, rVars, lVars, tVars, gVars>>
    \/ on = "subtitles" /\ T!Next /\ UNCHANGED <<on, vars, rVars, lVars, fVars, gVars>>
    \/ on = "overlays" /\ G!Next /\ UNCHANGED <<on, vars, rVars, lVars, fVars, tVars>>

SumFairness ==
    /\ WF_vars(on = "subscriptions" /\ Poll)
    /\ WF_vars(on = "subscriptions" /\ PollDone)
    /\ \A s \in Subs : WF_vars(on = "subscriptions" /\ Goroutine(s))
    /\ WF_rVars(on = "schedule" /\ R!BackgroundRefresh)
    /\ \A q \in Readers : WF_rVars(on = "schedule" /\ R!ColdRefresh(q))

SumSpec == SumInit /\ [][SumNext]_allVars /\ SumFairness

------------------------------------------------------------------------------
(* Properties of the components that are not extended. *)

\* A match that any of the provider's lists calls live is live in the schedule, whatever
\* the order and the flags of its other copies, and it is there once (mergeNtvMatches);
\* the poller passes it over only for one that started no later and is young enough.
LiveIsNotLost == R!LiveIsNotLost /\ R!LiveIsOffered

\* sportsRefreshing does not stay set: a fetch that fails does not leave the schedule
\* stale for ever (refreshSportsAsync).
RefreshIsReset == R!RefreshIsReset

\* The loops read the metadata and the list under different locks; still, when neither is
\* about to enrich, the list that is served has been enriched if there are any metadata. And
\* the first enrichment gives no channel to a country its name does not ask for.
SettledIsEnriched == L!SettledIsEnriched /\ L!CountryIsAsked

\* One source that fails hides no other that works, and among those that work the file comes
\* from the first variant with an English one: of the most reliable kind there for an episode,
\* the first listed for a film (subdl.go).
BestSourceIsTaken == F!NoSourceIsSkipped /\ F!ReliableFirst

\* Whoever resets, replaces or removes files while others fetch and streams end: the file
\* that a segment is given exists, and it is about the stream that plays unless SetCaptions
\* came too late for the one it was fetched for (track.go, pool.go).
SubtitlesBelong == T!EnabledFileExists /\ T!SubtitlesAreOfTheStream

\* Wherever a segment begins and whenever a record arrives, the overlays the session has by then
\* are drawn exactly while the media are in their part of the title; the next episode is offered
\* at the position the overlay names; and /skip-intro lands where an intro ends, later than the
\* position it has read (introdb, playback.go).
OverlaysAreInTime == G!OverlaysAreInTime /\ G!TriggerIsShown /\ G!SkipLeavesTheIntro
==============================================================================
