---------------------------- MODULE SportsSchedule ----------------------------
(***************************************************************************)
(* The schedule of sports events that TVClient keeps: callers are served   *)
(* from the cache, a stale one is refreshed behind their back, and a fetch *)
(* merges the three lists of the provider and sorts them.  The poller of   *)
(* the subscriptions takes the first active event of a team.               *)
(*                                                                         *)
(* A match is known by its id; Start is 0 when the provider gives none,    *)
(* and times are counted in units small enough for the three windows.      *)
(***************************************************************************)
EXTENDS Integers, Sequences, SequencesExt

CONSTANTS
    Ids, Callers,
    TTL, Early, Recent,     \* sportsTTL; how early, and how late, a match is joined
    MaxTime, MaxStart       \* bounds

ScheduleAssumption ==
    /\ {TTL, Early, Recent, MaxTime, MaxStart} \subseteq Nat
    /\ IsFiniteSet(Ids)

VARIABLES
    now,
    provider,       \* its three lists, the same through a behaviour
    sports,         \* the cached events; cached: there are any
    cached, sportsAt,
    refreshing,     \* sportsRefreshing
    pc,             \* of each caller: "idle", or "cold" while it fetches itself
    background      \* refreshes that refreshSportsAsync has started

schedule == <<sports, cached, sportsAt>>
vars == <<now, provider, schedule, refreshing, pc, background>>

------------------------------------------------------------------------------
(* mergeNtvMatches and sortSportsEvents *)

Event(raw, forceLive) ==
    [id |-> raw.id, start |-> raw.start, live |-> forceLive \/ raw.live]

\* Mutant of AppendMatch: a copy of a match already seen changes nothing.
AppendFirst(acc, raw, forceLive) ==
    IF raw.id \in acc.seen THEN acc
    ELSE [seen |-> acc.seen \cup {raw.id},
          events |-> IF raw.named THEN Append(acc.events, Event(raw, forceLive))
                                  ELSE acc.events]

Upgrade(e, raw, forceLive) ==
    [e EXCEPT !.live = @ \/ (e.id = raw.id /\ (forceLive \/ raw.live))]

\* A match seen before is upgraded by a live copy.  A match with neither a title nor
\* teams counts as seen and is not listed.
AppendMatch(acc, raw, forceLive) ==
    IF raw.id \in acc.seen
    THEN [acc EXCEPT !.events = [i \in DOMAIN @ |-> Upgrade(@[i], raw, forceLive)]]
    ELSE [seen |-> acc.seen \cup {raw.id},
          events |-> IF raw.named THEN Append(acc.events, Event(raw, forceLive))
                                  ELSE acc.events]

\* The three loops over the lists: what has been merged after the first i copies.
MergeMatches(payload) ==
    LET copies == payload.live \o payload.nonLive \o payload.all
        merged[i \in 0..Len(copies)] ==
            IF i = 0 THEN [seen |-> {}, events |-> <<>>]
            ELSE AppendMatch(merged[i - 1], copies[i], i <= Len(payload.live))
    IN merged[Len(copies)].events

Bucket(e, t) ==
    CASE e.live -> 0
      [] ~e.live /\ e.start = 0 -> 3
      [] ~e.live /\ e.start > t -> 1
      [] ~e.live /\ e.start \in 1..t -> IF t - e.start <= Recent THEN 0 ELSE 2

Earlier(e, f, t) ==
    IF Bucket(e, t) # Bucket(f, t) THEN Bucket(e, t) < Bucket(f, t)
    ELSE IF Bucket(e, t) = 2 THEN e.start > f.start ELSE e.start < f.start

\* sort.SliceStable, equal events keep their order: the one such ordering.
SortEvents(events, t) ==
    LET Before(i, j) == \/ Earlier(events[i], events[j], t)
                        \/ i < j /\ ~Earlier(events[j], events[i], t)
        Orders == {p \in SetToSeqs(DOMAIN events) :
                      \A i, j \in DOMAIN p : i < j => Before(p[i], p[j])}
    IN {[i \in DOMAIN p |-> events[p[i]]] : p \in Orders}

Active(e, t) ==
    e.live \/ (e.start # 0 /\ e.start - Early <= t /\ t - e.start <= Recent)

\* FindTeamEvent, for the team that plays in every event: the first that is active.
FindTeamEvent(events, t) ==
    LET active == {i \in DOMAIN events : Active(events[i], t)}
    IN IF active = {} THEN 0 ELSE Min(active)

------------------------------------------------------------------------------
(* The cache *)

\* One list: a copy of each of the matches, and the provider's flag on some.
ListOf(ids, flags, start, named) ==
    LET order == SetToSeq(ids)
    IN [i \in DOMAIN order |->
          [id |-> order[i], start |-> start[order[i]],
           live |-> order[i] \in flags, named |-> order[i] \in named]]

\* An answer of the provider.  Copies of one match agree on its start and its name.
Payload(live, flags, named, start) ==
    [live |-> ListOf(live, {}, start, named),
     nonLive |-> ListOf(Ids \ live, {}, start, named),
     all |-> ListOf(Ids, flags, start, named)]

Payloads ==
    {Payload(live, flags, named, start) :
        live \in SUBSET Ids, flags \in SUBSET Ids, named \in SUBSET Ids,
        start \in [Ids -> 0..MaxStart]}

ReportedLive(payload) ==
    {m.id : m \in {c \in Range(payload.live) : c.named}
                  \cup {c \in Range(payload.all) : c.named /\ c.live}}

Init ==
    /\ now = 1 /\ provider \in Payloads
    /\ sports = <<>> /\ cached = FALSE /\ sportsAt = 0
    /\ refreshing = FALSE /\ pc = [c \in Callers |-> "idle"]
    /\ background = 0

Fresh == cached /\ now < sportsAt + TTL

RefreshAsync ==
    /\ ~refreshing /\ refreshing' = TRUE /\ background' = background + 1

\* A caller that finds a schedule is served at once, with a stale one too, which it has
\* refreshed unless that is under way.
ServeStale(c) ==
    /\ pc[c] = "idle" /\ cached /\ ~Fresh /\ RefreshAsync
    /\ UNCHANGED <<now, provider, schedule, pc>>

\* There is no schedule yet: the caller fetches it.
FetchCold(c) ==
    /\ pc[c] = "idle" /\ ~cached /\ pc' = [pc EXCEPT ![c] = "cold"]
    /\ UNCHANGED <<now, provider, schedule, refreshing, background>>

Store ==
    /\ sports' \in SortEvents(MergeMatches(provider), now)
    /\ cached' = TRUE /\ sportsAt' = now

\* Mutant of RefreshFails: the flag stays set.
RefreshFailsEarly == UNCHANGED <<schedule, refreshing>>

\* An error, or the timeout of the request: what is cached stays.
RefreshFails == refreshing' = FALSE /\ UNCHANGED schedule

\* refreshSports, when fetchSports returns.
Refresh == RefreshFails \/ (refreshing' = FALSE /\ Store)

BackgroundRefresh ==
    /\ background > 0 /\ background' = background - 1 /\ Refresh
    /\ UNCHANGED <<now, provider, pc>>

ColdRefresh(c) ==
    /\ pc[c] = "cold" /\ pc' = [pc EXCEPT ![c] = "idle"] /\ Refresh
    /\ UNCHANGED <<now, provider, background>>

Tick ==
    /\ now < MaxTime /\ now' = now + 1
    /\ UNCHANGED <<provider, schedule, refreshing, pc, background>>

Next ==
    \/ Tick \/ BackgroundRefresh
    \/ \E c \in Callers : ServeStale(c) \/ FetchCold(c) \/ ColdRefresh(c)

\* A fetch ends, if only by its timeout; callers ask when they like.
Fairness == WF_vars(BackgroundRefresh) /\ \A c \in Callers : WF_vars(ColdRefresh(c))

Spec == Init /\ [][Next]_vars
FairSpec == Spec /\ Fairness

------------------------------------------------------------------------------
(* Properties *)

\* A match that any of the provider's lists calls live is live in the schedule, whatever
\* the order and the flags of its other copies, and it is there once.
LiveIsNotLost ==
    /\ \A id \in IF cached THEN ReportedLive(provider) ELSE {} :
          \E i \in DOMAIN sports : sports[i].id = id /\ sports[i].live
    /\ \A i, j \in DOMAIN sports : sports[i].id = sports[j].id => i = j

\* sportsRefreshing does not stay set: a fetch that fails does not leave the schedule
\* stale for ever.
RefreshIsReset == refreshing ~> ~refreshing

\* The poller is offered a live event of its team whenever there is one; it passes over one
\* only for an event that is still young enough to be joined and started no later.
LiveIsOffered ==
    LET first == FindTeamEvent(sports, now)
    IN \A i \in {j \in DOMAIN sports : sports[j].live} :
          /\ first \in 1..i
          /\ ~sports[first].live => /\ sports[first].start \in 1..sportsAt
                                   /\ sports[first].start <= sports[i].start
==============================================================================
