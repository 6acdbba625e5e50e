---------------------------- MODULE Subscriptions ----------------------------
(***************************************************************************)
(* The subscription loop: every two minutes pollSubscriptions reads all    *)
(* subscriptions and starts a goroutine for each, at most Concurrency of   *)
(* them past the semaphore at a time.  A goroutine works on the row it was *)
(* given: it asks for the match of the team, starts a stream in the guild  *)
(* (in place of the one that runs), announces it, and records the match in *)
(* the row so that the next poll leaves it alone.                          *)
(*                                                                         *)
(* Meanwhile users subscribe and delete, matches begin and end, streams    *)
(* end, and the process may restart: the rows stay, everything else goes.  *)
(* Rows are unique by guild and team, and both teams of a match may be     *)
(* followed in one guild.                                                  *)
(* The catalogue (FindTeamEvent, ResolveMatchChannelForTeam), the pool and *)
(* Discord may fail at every call.                                         *)
(***************************************************************************)
EXTENDS Integers, FiniteSets

CONSTANTS
    Subs,           \* rows of the collection
    Guilds,
    MaxMatch,       \* bound: matches
    Concurrency,    \* the capacity of sem
    AnnounceFails,  \* Discord may refuse the announcement, Mongo the mark
    Crashes         \* bound: restarts of the process

ASSUME SubsAssumption == Subs # {} /\ IsFiniteSet(Subs) /\ Guilds # {}
ASSUME BoundsAssumption ==
    MaxMatch \in Nat /\ Crashes \in Nat /\ Concurrency \in Nat \ {0}
        /\ AnnounceFails \in BOOLEAN

VARIABLES
    guildOf,        \* the guild of each row; never changes
    stored,         \* the rows that exist
    deleted,        \* the rows that no longer exist; their _id does not return
    lastMatchID,    \* LastMatchID of each row, 0 when unset
    plays,          \* the rows whose team is in each match; never changes
    active,         \* the matches that are live or about to start
    polling,        \* pollSubscriptions is between list and wg.Wait
    row,            \* the LastMatchID a goroutine was given
    wpc,            \* where the goroutine of each row is
    event,          \* the match it works on
    onAir,          \* what runs in each guild
    crashes

rowVars == <<stored, deleted, lastMatchID>>
worldVars == <<guildOf, plays, active>>
vars == <<worldVars, rowVars, polling, row, wpc, event, onAir, crashes>>

Matches == 1..MaxMatch
Nothing == [by |-> "nobody", id |-> 0]
ByUser == [by |-> "user", id |-> 0]
ForMatch(s, id) == [by |-> s, id |-> id]

Idle == "none"
Inside == {"find", "acquire", "play", "announce", "mark"}

TypeOK ==
    /\ guildOf \in [Subs -> Guilds]
    /\ stored \subseteq Subs /\ deleted \subseteq Subs \ stored
    /\ lastMatchID \in [Subs -> 0..MaxMatch]
    /\ plays \in [Matches -> SUBSET Subs]
    /\ active \subseteq Matches
    /\ polling \in BOOLEAN
    /\ row \in [Subs -> 0..MaxMatch]
    /\ wpc \in [Subs -> {Idle, "sem"} \cup Inside]
    /\ event \in [Subs -> 0..MaxMatch]
    /\ onAir \in [Guilds -> {Nothing, ByUser} \cup [by : Subs, id : 0..MaxMatch]]
    /\ crashes \in 0..Crashes

Init ==
    /\ guildOf \in [Subs -> Guilds]
    /\ stored = {} /\ deleted = {} /\ lastMatchID = [s \in Subs |-> 0]
    /\ plays \in [Matches -> SUBSET Subs] /\ active = {}
    /\ polling = FALSE /\ row = [s \in Subs |-> 0]
    /\ wpc = [s \in Subs |-> Idle] /\ event = [s \in Subs |-> 0]
    /\ onAir = [g \in Guilds |-> Nothing] /\ crashes = 0

------------------------------------------------------------------------------
(* Users and the world *)

\* CreateSubscription is an upsert: a row that exists keeps its LastMatchID.
CreateSubscription(s) ==
    /\ s \notin stored \cup deleted /\ stored' = stored \cup {s}
    /\ UNCHANGED <<worldVars, deleted, lastMatchID, polling, row, wpc, event, onAir, crashes>>

DeleteSubscription(s) ==
    /\ s \in stored /\ stored' = stored \ {s} /\ deleted' = deleted \cup {s}
    /\ UNCHANGED <<worldVars, lastMatchID, polling, row, wpc, event, onAir, crashes>>

\* sportsEventActive: the provider calls a match live, or it is time for it.
MatchBegins(m) ==
    /\ m \notin active /\ active' = active \cup {m}
    /\ UNCHANGED <<guildOf, plays, rowVars, polling, row, wpc, event, onAir, crashes>>

MatchEnds(m) ==
    /\ m \in active /\ active' = active \ {m}
    /\ UNCHANGED <<guildOf, plays, rowVars, polling, row, wpc, event, onAir, crashes>>

\* A stream ends or is stopped, or a user starts another one.
StreamChanges(g) ==
    /\ onAir' = [onAir EXCEPT ![g] = IF @ = Nothing THEN ByUser ELSE Nothing]
    /\ UNCHANGED <<worldVars, rowVars, polling, row, wpc, event, crashes>>

------------------------------------------------------------------------------
(* pollSubscriptions and maybeTriggerSubscription *)

\* ListAllSubscriptions, and one goroutine per row.
Poll ==
    /\ ~polling /\ stored # {} /\ polling' = TRUE
    /\ row' = [s \in Subs |-> IF s \in stored THEN lastMatchID[s] ELSE row[s]]
    /\ wpc' = [s \in Subs |-> IF s \in stored THEN "sem" ELSE wpc[s]]
    /\ UNCHANGED <<worldVars, rowVars, event, onAir, crashes>>

\* wg.Wait
PollDone ==
    /\ polling /\ (\A s \in Subs : wpc[s] = Idle) /\ polling' = FALSE
    /\ UNCHANGED <<worldVars, rowVars, row, wpc, event, onAir, crashes>>

\* Mutant of Enter: the last place of the semaphore is never given away.
EnterLeavingOnePlace(s) ==
    /\ wpc[s] = "sem" /\ Cardinality({t \in Subs : wpc[t] \in Inside}) < Concurrency - 1
    /\ wpc' = [wpc EXCEPT ![s] = "find"]
    /\ UNCHANGED <<worldVars, rowVars, polling, row, event, onAir, crashes>>

\* sem <- struct{}{}
Enter(s) ==
    /\ wpc[s] = "sem" /\ Cardinality({t \in Subs : wpc[t] \in Inside}) < Concurrency
    /\ wpc' = [wpc EXCEPT ![s] = "find"]
    /\ UNCHANGED <<worldVars, rowVars, polling, row, event, onAir, crashes>>

\* The goroutine returns and leaves the semaphore.
Return(s) == wpc' = [wpc EXCEPT ![s] = Idle]

\* FindTeamEvent: the first of the list, in whatever order it comes; teamInEvent looks at
\* both sides.
TeamEvents(s) == {m \in active : s \in plays[m]}

\* Mutant of Find: the match is not compared with the row.
FindWithoutCompare(s) ==
    /\ wpc[s] = "find"
    /\ \/ \E m \in TeamEvents(s) :
             event' = [event EXCEPT ![s] = m] /\ wpc' = [wpc EXCEPT ![s] = "acquire"]
       \/ Return(s) /\ UNCHANGED event
    /\ UNCHANGED <<worldVars, rowVars, polling, row, onAir, crashes>>

\* FindTeamEvent, the comparison with the row, the channel and RequireWorker.
Find(s) ==
    /\ wpc[s] = "find"
    /\ \/ \E m \in TeamEvents(s) \ {row[s]} :
             event' = [event EXCEPT ![s] = m] /\ wpc' = [wpc EXCEPT ![s] = "acquire"]
       \/ Return(s) /\ UNCHANGED event
    /\ UNCHANGED <<worldVars, rowVars, polling, row, onAir, crashes>>

\* TVStreamEndpoint and acquireForPlayback: a stream that runs is torn
\* down, also when Swap then gives up waiting for it.
AcquireForPlayback(s) ==
    /\ wpc[s] = "acquire"
    /\ \/ /\ wpc' = [wpc EXCEPT ![s] = "play"]
          /\ onAir' = [onAir EXCEPT ![guildOf[s]] = Nothing]
       \/ /\ Return(s)
          /\ onAir' \in {onAir, [onAir EXCEPT ![guildOf[s]] = Nothing]}
    /\ UNCHANGED <<worldVars, rowVars, polling, row, event, crashes>>

\* play, or Release when it fails.
StartStream(s) ==
    /\ wpc[s] = "play"
    /\ \/ /\ wpc' = [wpc EXCEPT ![s] = "announce"]
          /\ onAir' = [onAir EXCEPT ![guildOf[s]] = ForMatch(s, event[s])]
       \/ Return(s) /\ onAir' = [onAir EXCEPT ![guildOf[s]] = Nothing]
    /\ UNCHANGED <<worldVars, rowVars, polling, row, event, crashes>>

\* ChannelMessageSendComplex; its error is returned as that of the stream.
Announce(s) ==
    /\ wpc[s] = "announce"
    /\ \/ wpc' = [wpc EXCEPT ![s] = "mark"]
       \/ AnnounceFails /\ Return(s)
    /\ UNCHANGED <<worldVars, rowVars, polling, row, event, onAir, crashes>>

\* Mutant of Mark: the match is not recorded.
MarkNothing(s) ==
    /\ wpc[s] = "mark" /\ Return(s)
    /\ UNCHANGED <<worldVars, rowVars, polling, row, event, onAir, crashes>>

\* MarkSubscriptionMatch: an update by _id, which touches no row when it is gone,
\* and whose error is dropped.
Mark(s) ==
    /\ wpc[s] = "mark" /\ Return(s)
    /\ \/ s \in stored /\ lastMatchID' = [lastMatchID EXCEPT ![s] = event[s]]
       \/ (s \notin stored \/ AnnounceFails) /\ UNCHANGED lastMatchID
    /\ UNCHANGED <<worldVars, stored, deleted, polling, row, event, onAir, crashes>>

Restart ==
    /\ crashes < Crashes /\ crashes' = crashes + 1
    /\ polling' = FALSE
    /\ wpc' = [s \in Subs |-> Idle]
    /\ onAir' = [g \in Guilds |-> Nothing]
    /\ UNCHANGED <<worldVars, rowVars, row, event>>

------------------------------------------------------------------------------
Goroutine(s) ==
    \/ Enter(s) \/ Find(s) \/ AcquireForPlayback(s) \/ StartStream(s) \/ Announce(s) \/ Mark(s)

Next ==
    \/ Poll \/ PollDone \/ Restart
    \/ \E s \in Subs :
          CreateSubscription(s) \/ DeleteSubscription(s) \/ Goroutine(s)
    \/ \E m \in Matches : MatchBegins(m) \/ MatchEnds(m)
    \/ \E g \in Guilds : StreamChanges(g)

\* The ticker and the goroutines run on; every call they make returns.
Fairness == WF_vars(Poll) /\ WF_vars(PollDone) /\ \A s \in Subs : WF_vars(Goroutine(s))

Spec == Init /\ [][Next]_vars
FairSpec == Spec /\ Fairness

------------------------------------------------------------------------------
(* Properties *)

\* "LastMatchID avoids re-triggering the same fixture on every poll": a subscription never
\* tears down the stream it has itself started for the match it is to start.  It may tear
\* down the one of another row of the guild, which follows the other team or the same one
\* before it was deleted; but only as long as its own row has not recorded the match.
RunningMatchIsNotRestarted ==
    [][\A s \in Subs : wpc[s] = "acquire" /\ wpc'[s] = "play"
          => LET air == onAir[guildOf[s]]
             IN  air.id = event[s] => air.by # s /\ lastMatchID[s] # event[s]]_vars

\* A stream is started for a row that still has not recorded the match at that
\* moment, although the comparison was made with the copy the poll had read.
RecordedMatchIsNotStarted ==
    [][\A s \in Subs : wpc[s] = "play" /\ wpc'[s] = "announce" /\ s \in stored
          => lastMatchID[s] # event[s]]_vars

\* At most Concurrency goroutines talk to the catalogue and the pool at a time.
SemaphoreHolds == Cardinality({s \in Subs : wpc[s] \in Inside}) <= Concurrency

\* The loop never hangs: every poll comes to its end, and the next one begins.
PollsGoOn == polling ~> ~polling

==============================================================================
