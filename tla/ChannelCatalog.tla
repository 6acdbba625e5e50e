--------------------------- MODULE ChannelCatalog ---------------------------
(***************************************************************************)
(* internal/tvapi: the list of live channels that TVClient serves.  One    *)
(* loop fetches the list, another fetches the metadata it is enriched with *)
(* (names, logos, categories), each with its own lock; readers get what is *)
(* stored at once.  A fetched list replaces the enriched one and is then   *)
(* enriched in turn; new metadata are applied to the list there is.        *)
(*                                                                         *)
(* The channels of a list are enriched independently, so one stands for    *)
(* all.  A name is the keys it is looked up by, best first, and the        *)
(* country its last word asks for.                                         *)
(***************************************************************************)
EXTENDS Integers, Sequences, SequencesExt

CONSTANTS
    Countries,  \* country codes
    Keys,       \* normalised names of channels
    Listings,   \* the channels a list may have: name and country
    Known,      \* the entries of the metadata files
    MaxFetches  \* bound: fetches of each loop

NoCountry == ""
None == {}  \* a pointer is the set of what it points to

Names == [keys : SeqOf(Keys, 2), hint : Countries \cup {NoCountry}]

CatalogAssumption ==
    /\ NoCountry \notin Countries /\ MaxFetches \in Nat
    /\ Listings \subseteq [name : Names, country : Countries \cup {NoCountry}]
    /\ \A e \in Known :
        /\ e.keys \in Seq(Keys) /\ e.keys # << >>
        /\ e.country \in Countries \cup {NoCountry}
        /\ {e.logo, e.categories, e.open} \subseteq BOOLEAN

VARIABLES
    catalog,   \* the channel of the stored list, and how often it was enriched since it came
    metadata,  \* the stored index
    fetched,   \* fetched[l]: fetches of loop l that have begun
    pc,        \* pc[l]: where loop l is
    index      \* index[l]: the index it enriches with

vars == <<catalog, metadata, fetched, pc, index>>

Loops == {"list", "metadata"}

\* buildChannelMetadataIndex leaves out what is closed or not safe for work.
Index(entries) == {e \in entries : e.open}

Indexes == {Index(s) : s \in SUBSET Known}
Pointers == {None} \cup {{i} : i \in Indexes}

Channels ==
    [id : Listings, name : Names, country : Countries \cup {NoCountry}, enriched : BOOLEAN,
     passes : 0..2]

TypeOK ==
    /\ catalog \in Channels /\ metadata \in Pointers
    /\ fetched \in [Loops -> 0..MaxFetches]
    /\ pc \in [Loops -> {"idle", "fetch", "index", "apply"}]
    /\ index \in [Loops -> Pointers]

-----------------------------------------------------------------------------
(* Which entry a channel is enriched with *)

\* A country that was not asked for costs nothing.
ScoreOfAnyCountry(e, i, hint) ==
    101 - i + (IF hint # NoCountry /\ e.country = hint THEN 60 ELSE 0)
            + (IF e.logo THEN 10 ELSE 0) + (IF e.categories THEN 5 ELSE 0)

\* A country asked for is worth more than everything else, and its absence costs more than a
\* logo and categories can make up for; earlier keys come first.
Score(e, i, hint) ==
    101 - i + (IF hint # NoCountry /\ e.country = hint THEN 60
               ELSE IF hint # NoCountry /\ e.country # NoCountry THEN -30
               ELSE IF e.country = "us" THEN 8 ELSE 0)
            + (IF e.logo THEN 10 ELSE 0) + (IF e.categories THEN 5 ELSE 0)

Candidates(name, of) ==
    {c \in of \X DOMAIN name.keys : name.keys[c[2]] \in ToSet(c[1].keys)}

\* The best candidates, unless they are not good enough; among equal ones the order of the
\* files decides.
Matches(name, of) ==
    {c[1] : c \in {b \in Candidates(name, of) :
        /\ Score(b[1], b[2], name.hint) >= 100
        /\ \A d \in Candidates(name, of) :
               Score(d[1], d[2], name.hint) <= Score(b[1], b[2], name.hint)}}

\* The name of the entry takes the place of the listed one, its country is used if it has one.
Enriched(channel, e) ==
    [channel EXCEPT
        !.name = [keys |-> <<e.keys[1]>>, hint |-> NoCountry],
        !.country = IF e.country # NoCountry THEN e.country ELSE @,
        !.enriched = TRUE]

Pass(channel) == [channel EXCEPT !.passes = IF @ < 2 THEN @ + 1 ELSE @]

\* enrichChannelCatalog: what may come of a channel.
EnrichedBy(channel, of) ==
    LET found == Matches(channel.name, of)
    IN  {Pass(c) : c \in IF found = {} THEN {channel} ELSE {Enriched(channel, e) : e \in found}}

-----------------------------------------------------------------------------
\* A channel as fetchNtvChannels lists it; the embedded list is like a fetched one.
Listed(l) ==
    [id |-> l, name |-> l.name, country |-> l.country, enriched |-> FALSE, passes |-> 0]

Init ==
    /\ catalog \in {Listed(l) : l \in Listings}
    /\ metadata = None
    /\ fetched = [l \in Loops |-> 0]
    /\ pc = [l \in Loops |-> "idle"]
    /\ index = [l \in Loops |-> None]

Goto(l, there) == pc' = [pc EXCEPT ![l] = there]

\* The ticker of a loop.
Tick(l) ==
    /\ pc[l] = "idle" /\ fetched[l] < MaxFetches
    /\ Goto(l, "fetch")
    /\ fetched' = [fetched EXCEPT ![l] = @ + 1]
    /\ UNCHANGED <<catalog, metadata, index>>

\* A failed fetch, or a list without channels, changes nothing until the next tick.
FetchFails(l) ==
    /\ pc[l] = "fetch"
    /\ Goto(l, "idle")
    /\ UNCHANGED <<catalog, metadata, fetched, index>>

StoreCatalogOnly ==
    /\ pc["list"] = "fetch"
    /\ catalog' \in {Listed(l) : l \in Listings}
    /\ Goto("list", "idle")
    /\ UNCHANGED <<metadata, fetched, index>>

\* fetchCatalog stores the list as it came.
StoreCatalog ==
    /\ pc["list"] = "fetch"
    /\ catalog' \in {Listed(l) : l \in Listings}
    /\ Goto("list", "index")
    /\ UNCHANGED <<metadata, fetched, index>>

\* refreshEnrichment stores the index built from both files.
StoreMetadata ==
    /\ pc["metadata"] = "fetch"
    /\ metadata' \in Pointers \ {None}
    /\ Goto("metadata", "index")
    /\ UNCHANGED <<catalog, fetched, index>>

\* enrichCurrentCatalog reads the metadata under their lock and gives it up; without metadata
\* there is nothing to do.
ReadIndex(l) ==
    /\ pc[l] = "index"
    /\ index' = [index EXCEPT ![l] = metadata]
    /\ Goto(l, IF metadata = None THEN "idle" ELSE "apply")
    /\ UNCHANGED <<catalog, metadata, fetched>>

\* Under the lock of the catalog, the list of this moment is cloned, enriched and stored.
Apply(l) ==
    /\ pc[l] = "apply"
    /\ \E of \in index[l] : catalog' \in EnrichedBy(catalog, of)
    /\ index' = [index EXCEPT ![l] = None]
    /\ Goto(l, "idle")
    /\ UNCHANGED <<metadata, fetched>>

Next ==
    \/ StoreCatalog \/ StoreMetadata
    \/ \E l \in Loops : Tick(l) \/ FetchFails(l) \/ ReadIndex(l) \/ Apply(l)

Spec == Init /\ [][Next]_vars

-----------------------------------------------------------------------------
Settled == \A l \in Loops : pc[l] \in {"idle", "fetch"}

\* The loops read the metadata and the list under different locks, one after the other; still,
\* when neither is about to enrich, the list that is served has been enriched if there are any
\* metadata at all.
SettledIsEnriched == Settled /\ metadata # None => catalog.passes > 0

\* The first enrichment of a list gives no channel to a country its name does not ask for: "Sky
\* Sports UK" is not shown as the American channel of that name, whatever logo that one has.
\* (The second may: by then the country is no longer in the name.)
CountryIsAsked ==
    catalog.enriched /\ catalog.passes = 1
        => catalog.id.name.hint = NoCountry
               \/ catalog.country \in {catalog.id.name.hint, catalog.id.country}

==============================================================================
