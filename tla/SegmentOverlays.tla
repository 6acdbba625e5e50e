--------------------------- MODULE SegmentOverlays ---------------------------
(***************************************************************************)
(* What TheIntroDB knows about a title and what a stream makes of it: the  *)
(* overlays "Use /skip-intro" and "Check #channel" that are drawn into the *)
(* picture, the position at which the next episode is offered, and the     *)
(* jump of /skip-intro.  The record of a title is looked up before the     *)
(* stream starts and again, with the duration, when a segment is probed;   *)
(* either may fail or find another record.  Overlays are timed in the      *)
(* media and drawn in the time of a segment, which begins at its offset.   *)
(*                                                                         *)
(* A segment draws the overlays it was requested with: transcode_run works *)
(* on a copy of its parameters, and those that SupplyCTAs writes after the *)
(* probe go to the original, where nothing reads them.                     *)
(***************************************************************************)
EXTENDS Integers, Sequences, SequencesExt, FiniteSets

CONSTANTS
    Records,    \* what TheIntroDB may answer: sequences of segments
    Duration,   \* of the media, once probed
    MinIntro,   \* minIntroDurationMs
    MaxSegments \* bound: segments of the stream

NoEnd == -1
Never == -1
Positions == 0..Duration

Segments == [start : Nat, end : Nat \cup {NoEnd}]

OverlaysAssumption ==
    /\ Duration \in Nat \ {0} /\ MinIntro \in Nat /\ MaxSegments \in Nat \ {0}
    /\ \A r \in Records : r \in Seq(Segments)

VARIABLES
    record,    \* session.Metadata.IntroRecord; << >> is nil or no intro
    autoNext,  \* session.Metadata.AutoNext is set
    timedCTAs, \* the overlays of the session
    creditsTrigger,
    segments,  \* segments started
    offset,    \* of the current one; Never between two
    probed,    \* its input is open, and SupplyCTAs was called
    position,  \* of the playback
    built,     \* the overlays of the session that the segment was requested with
    windows,   \* what it draws of them
    answer     \* the last /skip-intro: the position it read, the record, what came of it

segmentVars == <<segments, offset, probed, position, built, windows>>
vars == <<record, autoNext, timedCTAs, creditsTrigger, segmentVars, answer>>

CTAs == [kind : {"intro", "credits"}, start : Int, end : Int]

NoAnswer == [kind |-> "unasked"]
Asked == [from : Positions, kind : {"asked"}]
Answers == [of : Records, from : Positions, kind : {"ok", "none", "past", "notIn"}, to : Int]

TypeOK ==
    /\ record \in Records \cup {<< >>} /\ autoNext \in BOOLEAN
    /\ \A c \in timedCTAs \cup built \cup windows : c \in CTAs
    /\ creditsTrigger \in Nat /\ segments \in 0..MaxSegments
    /\ offset \in Positions \cup {Never} /\ probed \in BOOLEAN /\ position \in Positions
    /\ answer \in {NoAnswer} \cup Asked \cup Answers

-----------------------------------------------------------------------------
(* introdb *)

HasEnd(s) == s.end # NoEnd

\* sort.Slice by start, which promises no order among equal ones, of the intros that end.
Sortings(r) ==
    {[i \in DOMAIN p |-> r[p[i]]] : p \in
        {p \in SetToSeqs({i \in DOMAIN r : HasEnd(r[i])}) :
            \A i, j \in DOMAIN p : i < j => r[p[i]].start <= r[p[j]].start}}

\* Leading intros that are too short are dropped, but not the last one.
DropShort(q) ==
    IF q = << >> THEN q
    ELSE LET Long(i) == q[i].end - q[i].start >= MinIntro
             first == CHOOSE i \in DOMAIN q :
                          /\ Long(i) \/ i = Len(q)
                          /\ \A j \in 1..(i - 1) : ~Long(j)
         IN  SubSeq(q, first, Len(q))

ViableIntros(r) == {DropShort(q) : q \in Sortings(r)}

\* The intro one is in; else the end of the first, unless it is over.
IntroSkipTarget(q, p) ==
    LET In(i) == q[i].start <= p /\ p < q[i].end
        first == CHOOSE i \in DOMAIN q : In(i) /\ \A j \in 1..(i - 1) : ~In(j)
    IN  IF q = << >> THEN [kind |-> "none", to |-> Never]
        ELSE IF \E i \in DOMAIN q : In(i) THEN [kind |-> "ok", to |-> q[first].end]
        ELSE IF p < q[1].end THEN [kind |-> "ok", to |-> q[1].end]
        ELSE IF \E i \in DOMAIN q : p < q[i].end THEN [kind |-> "notIn", to |-> Never]
        ELSE [kind |-> "past", to |-> Never]

\* The last of the intros that begin in the last quarter, and otherwise the last one listed
\* that begins after 65 percent; Never if there is none.
CreditsStart(r) ==
    LET Late(percent) == {i \in DOMAIN r : HasEnd(r[i])
                                           /\ r[i].start >= (Duration * percent) \div 100}
        Latest(S) == CHOOSE i \in S : \A j \in S : r[j].start <= r[i].start
        LastOf(S) == CHOOSE i \in S : \A j \in S : j <= i
    IN  IF Late(75) # {} THEN r[Latest(Late(75))].start
        ELSE IF Late(65) # {} THEN r[LastOf(Late(65))].start
        ELSE Never

-----------------------------------------------------------------------------
(* The overlays of the session *)

Has(kind, ctas) == \E c \in ctas : c.kind = kind

\* armIntroCTA: once per stream, with the first viable intro.
ArmedIntro(r, ctas) ==
    {IF Has("intro", ctas) \/ q = << >> THEN ctas
     ELSE ctas \cup {[kind |-> "intro", start |-> q[1].start, end |-> q[1].end]} :
         q \in ViableIntros(r)}

\* armCreditsTrigger: the first record with a late intro decides.
ArmCredits(r, ctas) ==
    LET start == CreditsStart(r)
    IN  IF creditsTrigger > 0 \/ ~autoNext \/ start <= 0
        THEN timedCTAs' = ctas /\ UNCHANGED creditsTrigger
        ELSE /\ creditsTrigger' = start
             /\ timedCTAs' = IF Has("credits", ctas) THEN ctas
                             ELSE ctas \cup
                                    {[kind |-> "credits", start |-> start, end |-> Duration]}

\* The overlays are drawn at the times of the media.
BuildWithoutOffset(ctas, from) == {c \in ctas : c.end > from}

\* buildCTAWindows: what is not over, in the time of a segment that begins at from.
BuildCTAWindows(ctas, from) ==
    {[kind |-> c.kind, start |-> IF c.start < from THEN 0 ELSE c.start - from,
      end |-> c.end - from] :
        c \in {d \in ctas : d.end > from}}

-----------------------------------------------------------------------------
\* Acquire or Swap cleared the session; OnPrepare looks the title up without a duration.
Init ==
    /\ autoNext \in BOOLEAN
    /\ record \in Records \cup {<< >>}
    /\ timedCTAs \in ArmedIntro(record, {})
    /\ creditsTrigger = 0 /\ segments = 0 /\ offset = Never /\ probed = FALSE /\ position = 0
    /\ built = {} /\ windows = {} /\ answer = NoAnswer

\* enrichTranscodeRequest.  A segment begins at the start, or where a seek or the end of the
\* last one left off.
StartSegment(from) ==
    /\ offset = Never /\ segments < MaxSegments
    /\ segments' = segments + 1 /\ offset' = from /\ probed' = FALSE /\ position' = from
    /\ built' = timedCTAs /\ windows' = BuildCTAWindows(timedCTAs, from)
    /\ UNCHANGED <<record, autoNext, timedCTAs, creditsTrigger, answer>>

\* The segment is over, or cannot go on.
Finished == offset' = Never /\ probed' = FALSE /\ built' = {} /\ windows' = {}

Playing == UNCHANGED <<offset, built, windows>>

\* SupplyCTAs, once the input is open and its duration known: armIntroOnProbe, then the
\* trigger.  The overlays are built anew for nothing, but the path of the font is freed, which
\* the filter graph then reads: it may have become another one, which fails, or an empty one.
SupplyCTAs ==
    /\ offset # Never /\ ~probed
    /\ record' \in Records \cup {record}
    /\ \E ctas \in ArmedIntro(record', timedCTAs) : ArmCredits(record', ctas)
    /\ \/ Playing /\ probed' = TRUE
       \/ windows' = {} /\ probed' = TRUE /\ UNCHANGED <<offset, built>>
       \/ Finished
    /\ UNCHANGED <<autoNext, segments, position, answer>>

Play ==
    /\ probed /\ position < Duration /\ position' = position + 1
    /\ UNCHANGED <<record, autoNext, timedCTAs, creditsTrigger, segments, offset, probed, built,
                   windows, answer>>

\* A seek of somebody else, or the end of the segment.
EndSegment ==
    /\ offset # Never /\ Finished
    /\ UNCHANGED <<record, autoNext, timedCTAs, creditsTrigger, segments, position, answer>>

\* /skip-intro reads the position, and looks the record up once more, whatever the session has.
ExecuteSkipIntro ==
    /\ segments > 0 /\ answer.kind # "asked"
    /\ answer' = [from |-> position, kind |-> "asked"]
    /\ UNCHANGED <<record, autoNext, timedCTAs, creditsTrigger, segmentVars>>

\* The lookup, which takes up to 15 seconds, answers and Seek ends the segment of the moment, if
\* the source can be seeked.
ResolveIntroSkipTarget(r) ==
    /\ answer.kind = "asked"
    /\ \E q \in ViableIntros(r) :
        LET target == IntroSkipTarget(q, answer.from)
        IN  /\ answer' = [of |-> r, from |-> answer.from, kind |-> target.kind, to |-> target.to]
            /\ \/ target.kind = "ok" /\ Finished
               \/ Playing /\ UNCHANGED probed
    /\ UNCHANGED <<record, autoNext, timedCTAs, creditsTrigger, segments, position>>

SkipLookupFails ==
    /\ answer.kind = "asked" /\ answer' = NoAnswer
    /\ UNCHANGED <<record, autoNext, timedCTAs, creditsTrigger, segmentVars>>

Next ==
    \/ \E p \in Positions : StartSegment(p)
    \/ SupplyCTAs \/ Play \/ EndSegment
    \/ ExecuteSkipIntro \/ (\E r \in Records : ResolveIntroSkipTarget(r)) \/ SkipLookupFails

Spec == Init /\ [][Next]_vars

-----------------------------------------------------------------------------
Shows(c, p) == c.start <= p /\ p < c.end

\* Whatever the seeks and whenever a record arrived, the overlays that the session had when the
\* segment was requested, and still has, are in the picture exactly while the media are in the
\* part of the title they are about; all of them, unless the font is lost.
OverlaysAreInTime ==
    offset # Never =>
        /\ built \subseteq timedCTAs
        /\ \/ probed /\ windows = {}
           \/ \A kind \in {"intro", "credits"}, p \in offset..Duration :
                 (\E w \in windows : w.kind = kind /\ Shows(w, p - offset))
                     <=> \E c \in built : c.kind = kind /\ Shows(c, p)

\* The next episode is offered from the position at which the overlay says so.
TriggerIsShown ==
    creditsTrigger > 0 <=> \E c \in timedCTAs : c.kind = "credits" /\ c.start = creditsTrigger

\* Seen from the position it has read, however far the playback has come or was seeked by the
\* time of the answer, /skip-intro lands later and where an intro ends.  It refuses only outside
\* of all intros that are long enough, and says that the intro is over only after all of them.
SkipLeavesTheIntro ==
    answer \in Answers =>
        LET of == answer.of
            ended == {i \in DOMAIN of : HasEnd(of[i])}
            long == {i \in ended : of[i].end - of[i].start >= MinIntro}
        IN  /\ answer.kind = "ok" =>
                  \E i \in ended : answer.to = of[i].end /\ answer.to > answer.from
            /\ answer.kind = "none" <=> ended = {}
            /\ answer.kind = "notIn" => \A i \in long : ~Shows(of[i], answer.from)
            /\ answer.kind = "past" => \A i \in long : of[i].end <= answer.from

==============================================================================
