---------------------------- MODULE SubtitleFetch ----------------------------
(***************************************************************************)
(* internal/captions: how one lookup finds a subtitle file for a stream.   *)
(* Fetcher.Fetch tries the sidecar file next to the video, then SubDL:     *)
(* several variants of the query are searched, and the list is downloaded  *)
(* until one turns out to be English.  The hits of an episode are ranked   *)
(* by how reliable their kind is, those of a film keep the order of the    *)
(* response.  A context may expire on the way, and the disk may be full.   *)
(*                                                                         *)
(* What the services hold is chosen at the start; the contents of a file   *)
(* are reduced to whether extractSubtitle and looksEnglishSubtitle accept  *)
(* them.                                                                   *)
(***************************************************************************)
EXTENDS Integers, Sequences, SequencesExt

CONSTANTS
    Variants,  \* the queries of subdlQueryVariants: with and without name, by TMDB id
    Paths,     \* download paths, numbers: their order in a response
    Kinds      \* 1 unpacked file, 2 single file, 3 direct URL, 4 archive, 5 forced archive

SubtitleAssumption ==
    /\ Variants \in Nat \ {0}
    /\ Paths \subseteq Nat \ {0} /\ IsFiniteSet(Paths)
    /\ Kinds \subseteq Nat

VARIABLES
    service,  \* what febbox and SubDL answer
    pc, variant, paths, tried,
    failed,   \* an error to report when nothing is found
    expired,  \* the context of the lookup is over
    unwritten, \* a file that was found could not be written
    result,   \* "english", "none" (ErrNoSubtitle) or "error"
    from      \* the path it came from, or 0

vars == <<service, pc, variant, paths, tried, failed, expired, unwritten, result, from>>

Bodies == {"english", "foreign", "unavailable"}

\* The hits of a search; the set {0} stands for a search that fails.
Fails == {0}

\* episode: the query names a season and an episode; otherwise it is about a film.
Services == [episode : BOOLEAN, sidecar : Bodies,
             hits : [1..Variants -> {Fails} \cup SUBSET Paths],
             kind : [Paths -> Kinds], body : [Paths -> Bodies]]

TypeOK ==
    /\ service \in Services
    /\ pc \in {"sidecar", "search", "download", "done"}
    /\ variant \in 1..(Variants + 1)
    /\ Range(paths) \subseteq Paths
    /\ tried \in 0..Len(paths)
    /\ failed \in BOOLEAN /\ expired \in BOOLEAN /\ unwritten \in BOOLEAN
    /\ result \in {"pending", "english", "none", "error"}
    /\ from \in Paths \cup {0}

Init ==
    /\ service \in Services
    /\ pc = "sidecar"
    /\ variant = 1 /\ paths = <<>> /\ tried = 0
    /\ failed = FALSE /\ expired \in BOOLEAN /\ unwritten = FALSE
    /\ result = "pending" /\ from = 0

Finish(r, path) == pc' = "done" /\ result' = r /\ from' = path

Continue(there) == pc' = there /\ UNCHANGED <<result, from>>

\* The four-second context of warmCaptions; /subtitles has none.
Expire == ~expired /\ pc # "done" /\ expired' = TRUE
          /\ UNCHANGED <<service, pc, variant, paths, tried, failed, unwritten, result, from>>

-----------------------------------------------------------------------------
\* WriteBurnInSubtitle, which may fail.
Written == unwritten' = unwritten
NotWritten == unwritten' = TRUE

\* The sidecar is found, downloaded, written, read back and checked; every failure is
\* forgotten.  Listing the share does not look at the context; downloading does.
TryFebbox ==
    /\ pc = "sidecar"
    /\ IF service.sidecar = "english" /\ ~expired
       THEN \/ Written /\ Finish("english", 0)
            \/ NotWritten /\ Continue("search")
       ELSE Written /\ Continue("search")
    /\ UNCHANGED <<service, variant, paths, tried, failed, expired>>

\* pickSubDLPaths of a film: per subtitle its unpacked files, then its archive.
BeforeByListing(p, q) == p < q

\* pickSubDLEpisodePaths: one pass over the response per kind.
BeforeByKind(p, q) ==
    \/ service.kind[p] < service.kind[q]
    \/ service.kind[p] = service.kind[q] /\ p < q

Before(p, q) == IF service.episode THEN BeforeByKind(p, q) ELSE BeforeByListing(p, q)

\* pickSubDLPaths: the one such list of the hits.
PickPaths(hits) ==
    {q \in SetToSeqs(hits) : \A i, j \in DOMAIN q : i < j => Before(q[i], q[j])}

\* What the paths become when the search of this variant answers.
Found == {paths \o q : q \in PickPaths(service.hits[variant] \ Range(paths))}

ResolveUntilError ==
    /\ pc = "search"
    /\ IF service.hits[variant] = Fails \/ expired
       THEN Finish("error", 0) /\ UNCHANGED <<variant, paths, failed>>
       ELSE /\ paths' \in Found
            /\ variant' = variant + 1
            /\ Continue(IF variant = Variants THEN "download" ELSE "search")
            /\ UNCHANGED failed
    /\ UNCHANGED <<service, tried, expired, unwritten>>

\* resolvePaths, one variant: a failed search is remembered and the next one is tried; the
\* error counts only when no variant has a path.
Resolve ==
    /\ pc = "search"
    /\ LET fails == service.hits[variant] = Fails \/ expired
       IN /\ paths' \in IF fails THEN {paths} ELSE Found
          /\ variant' = variant + 1
          /\ IF variant < Variants
             THEN failed' = (failed \/ fails) /\ Continue("search")
             ELSE IF paths' # <<>> THEN failed' = FALSE /\ Continue("download")
             ELSE /\ Finish(IF failed \/ fails THEN "error" ELSE "none", 0)
                  /\ UNCHANGED failed
    /\ UNCHANGED <<service, tried, expired, unwritten>>

\* Download, one path: if it cannot be fetched or is not English, the next one is tried, and
\* the last error is the one reported.  If it cannot be written, that is the end.
DownloadPath ==
    /\ pc = "download"
    /\ IF tried = Len(paths)
       THEN Written /\ Finish(IF failed THEN "error" ELSE "none", 0) /\ UNCHANGED <<tried, failed>>
       ELSE LET path == paths[tried + 1]
                body == IF expired THEN "unavailable" ELSE service.body[path]
            IN /\ tried' = tried + 1
               /\ failed' = (body = "unavailable")
               /\ IF body = "english"
                  THEN \/ Written /\ Finish("english", path)
                       \/ NotWritten /\ Finish("error", 0)
                  ELSE Written /\ Continue("download")
    /\ UNCHANGED <<service, variant, paths, expired>>

Next == Expire \/ TryFebbox \/ Resolve \/ DownloadPath

Spec == Init /\ [][Next]_vars

-----------------------------------------------------------------------------
English(p) == service.body[p] = "english" /\ \E v \in 1..Variants : p \in service.hits[v]

\* One source that fails does not hide another that works: a lookup that ends without a
\* subtitle, with its context alive and all it found written, has met no English one anywhere.
NoSourceIsSkipped ==
    result \in {"none", "error"} /\ ~expired /\ ~unwritten =>
        service.sidecar # "english" /\ \A p \in Paths : ~English(p)

FirstVariant(p) ==
    CHOOSE v \in 1..Variants :
        p \in service.hits[v] /\ \A u \in 1..(v - 1) : p \notin service.hits[u]

\* "Season-pack unpack files are the most reliable source ... the next best option" (subdl.go):
\* the file that is used comes from the first variant with an English one.  There it is, for
\* an episode, of the most reliable kind that has one and, for a film, the first one listed.
ReliableFirst ==
    from # 0 => \A p \in Paths :
        English(p) => \/ FirstVariant(from) < FirstVariant(p)
                      \/ /\ FirstVariant(from) = FirstVariant(p)
                         /\ IF service.episode THEN service.kind[from] <= service.kind[p]
                                               ELSE from <= p

==============================================================================
