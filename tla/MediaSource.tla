------------------------------ MODULE MediaSource ------------------------------
(***************************************************************************)
(* One MediaSource: the transcode thread reads a file of N blocks over     *)
(* HTTP, seeks in it and asks for its size, while the pool may destroy it. *)
(* A response may lack its length, ignore the Range header, end early,     *)
(* fail or stall, and every attempt after a failure resolves a new URL.    *)
(* The servers are external: what they answer is left open.                *)
(***************************************************************************)
EXTENDS Integers

CONSTANTS
    N,              \* blocks of the file
    MaxRetries,     \* config.Download.MaxRetries
    MaxSeeks        \* bound: seeks that move

SourceAssumption == N \in Nat \ {0} /\ MaxRetries \in Nat /\ MaxSeeks \in Nat

Unknown == -1       \* no body, and a size that is not known

VARIABLES
    pc,             \* the transcode thread in Read or Size
    caller,         \* "read" or "size", the call that opens a body
    offset, size,   \* fields of MediaSource
    body,           \* file position of the installed body
    fresh,          \* file position of a response that is not installed yet
    retries,        \* local to Read
    ctxDone,        \* Destroy has cancelled the context
    destroyed,      \* Destroy has returned
    result,         \* of the last Read
    seeks

fields == <<offset, size, body>>
vars == <<pc, caller, fields, fresh, retries, ctxDone, destroyed, result, seeks>>

TypeOK ==
    /\ pc \in {"idle", "loop", "open", "discard", "install", "read", "retry"}
    /\ caller \in {"read", "size"}
    /\ offset \in 0..N /\ size \in {Unknown} \cup 0..N
    /\ body \in {Unknown} \cup 0..N /\ fresh \in {Unknown} \cup 0..N
    /\ retries \in 0..(MaxRetries + 1)
    /\ ctxDone \in BOOLEAN /\ destroyed \in BOOLEAN
    /\ result \in {"none", "data", "eof", "error"} /\ seeks \in 0..MaxSeeks

\* Create: nothing is opened yet.
Init ==
    /\ pc = "idle" /\ caller = "read" /\ offset = 0 /\ size = Unknown
    /\ body = Unknown /\ fresh = Unknown /\ retries = 0
    /\ ctxDone = FALSE /\ destroyed = FALSE /\ result = "none" /\ seeks = 0

Goes(from, to) == pc = from /\ pc' = to

------------------------------------------------------------------------------
(* Calls of the transcode thread *)

Read ==
    /\ Goes("idle", "loop")
    /\ caller' = "read" /\ retries' = 0 /\ result' = "none"
    /\ UNCHANGED <<fields, fresh, ctxDone, destroyed, seeks>>

\* Size opens a body to learn it; the error of ensureBody is dropped.
Size ==
    /\ size = Unknown /\ body = Unknown /\ Goes("idle", "open")
    /\ caller' = "size" /\ result' = "none"
    /\ UNCHANGED <<fields, fresh, retries, ctxDone, destroyed, seeks>>

\* Mutant of Seek: the body of the old position is kept.
SeekKeepsBody(target) ==
    /\ pc = "idle" /\ target # offset /\ seeks < MaxSeeks
    /\ offset' = target /\ seeks' = seeks + 1 /\ result' = "none"
    /\ UNCHANGED <<pc, caller, size, body, fresh, retries, ctxDone, destroyed>>

Seek(target) ==
    /\ pc = "idle" /\ target # offset /\ seeks < MaxSeeks
    /\ offset' = target /\ body' = Unknown /\ seeks' = seeks + 1 /\ result' = "none"
    /\ UNCHANGED <<pc, caller, size, fresh, retries, ctxDone, destroyed>>

\* Destroy cancels, then closes the body; the thread runs on in between.
Cancel ==
    /\ ~ctxDone /\ ctxDone' = TRUE
    /\ UNCHANGED <<pc, caller, fields, fresh, retries, destroyed, result, seeks>>

CloseBody ==
    /\ ctxDone /\ ~destroyed
    /\ destroyed' = TRUE /\ body' = Unknown
    /\ UNCHANGED <<pc, caller, offset, size, fresh, retries, ctxDone, result, seeks>>

------------------------------------------------------------------------------
(* The loop of Read *)

Return(r) == pc' = "idle" /\ result' = r /\ retries' = 0

\* The context check and ensureBody.
ReadLoop ==
    /\ pc = "loop"
    /\ IF ctxDone THEN Return("error")
       ELSE pc' = (IF body = Unknown THEN "open" ELSE "read") /\ UNCHANGED <<result, retries>>
    /\ UNCHANGED <<caller, fields, fresh, ctxDone, destroyed, seeks>>

\* What Read does with an error of ensureBody or readBody: the body is closed, and the
\* next attempt, if there is one left, has a new URL.  Size just returns.
Failed ==
    /\ IF caller = "size" THEN pc' = "idle" /\ UNCHANGED <<result, retries>>
       ELSE IF ctxDone \/ retries = MaxRetries THEN Return("error")
       ELSE pc' = "retry" /\ retries' = retries + 1 /\ UNCHANGED result
    /\ body' = Unknown /\ fresh' = Unknown

\* refreshURL keeps the old URL when none can be resolved.
RefreshURL ==
    /\ Goes("retry", "loop")
    /\ UNCHANGED <<caller, fields, fresh, retries, ctxDone, destroyed, result, seeks>>

\* Data from the body, whose error, if there is one with it, comes again.
ReadData ==
    /\ pc = "read" /\ body # Unknown /\ body < N
    /\ \E n \in 1..(N - body) : offset' = offset + n /\ body' = body + n
    /\ Return("data")
    /\ UNCHANGED <<caller, size, fresh, ctxDone, destroyed, seeks>>

\* Mutant of ReadEnd: the end of the response is the end of the file.
ReadEndAnywhere ==
    /\ pc = "read" /\ body # Unknown
    /\ Return("eof")
    /\ UNCHANGED <<caller, fields, fresh, ctxDone, destroyed, seeks>>

\* The body ends: early, when the size says that more is to come.  A response of unknown
\* length that is cut off is not taken for its end by net/http.
ReadEnd ==
    /\ pc = "read" /\ body # Unknown
    /\ body = N \/ size # Unknown
    /\ IF size # Unknown /\ offset < size THEN Failed
       ELSE Return("eof") /\ UNCHANGED <<body, fresh>>
    /\ UNCHANGED <<caller, offset, size, ctxDone, destroyed, seeks>>

\* The read fails, its watchdog closes the body, or Destroy has done so.
ReadFails ==
    /\ pc = "read" /\ Failed
    /\ UNCHANGED <<caller, offset, size, ctxDone, destroyed, seeks>>

------------------------------------------------------------------------------
(* open *)

\* noteSize of a partial response: the total of Content-Range, or the length of the rest.
PartialSizes == {N, size}

\* A response arrives: the range that was asked for, or the whole file.
Respond ==
    /\ pc = "open"
    /\ \/ pc' = "install" /\ fresh' = offset /\ offset < N
       \/ pc' = "discard" /\ fresh' = 0 /\ offset > 0
    /\ size' \in PartialSizes
    /\ UNCHANGED <<caller, offset, body, retries, ctxDone, destroyed, result, seeks>>

\* An error, a status that is not 2xx, or the watchdog.
OpenFails ==
    /\ pc = "open" /\ Failed
    /\ UNCHANGED <<caller, offset, size, ctxDone, destroyed, seeks>>

\* discard reads up to the offset.
Discard ==
    /\ pc = "discard" /\ ~ctxDone
    /\ IF fresh < offset THEN fresh' = fresh + 1 /\ UNCHANGED pc
                         ELSE pc' = "install" /\ UNCHANGED fresh
    /\ UNCHANGED <<caller, fields, retries, ctxDone, destroyed, result, seeks>>

\* Mutant of DiscardFails: no watchdog runs while the prefix is read.
DiscardBreaks ==
    /\ pc = "discard" /\ ctxDone /\ Failed
    /\ UNCHANGED <<caller, offset, size, ctxDone, destroyed, seeks>>

DiscardFails ==
    /\ pc = "discard" /\ Failed
    /\ UNCHANGED <<caller, offset, size, ctxDone, destroyed, seeks>>

\* setBody, which does not look whether Destroy came first; Read goes on to read.
Install ==
    /\ pc = "install"
    /\ body' = fresh /\ fresh' = Unknown
    /\ pc' = IF caller = "size" THEN "idle" ELSE "read"
    /\ UNCHANGED <<caller, offset, size, retries, ctxDone, destroyed, result, seeks>>

Progress == ReadLoop \/ RefreshURL \/ ReadFails \/ OpenFails \/ DiscardFails \/ Install

Next ==
    \/ Read \/ Size \/ (\E target \in 0..N : Seek(target))
    \/ Cancel \/ CloseBody
    \/ Progress \/ ReadData \/ ReadEnd \/ Respond \/ Discard

Spec == Init /\ [][Next]_vars

\* The thread runs and the watchdogs fire; servers need not answer.
FairSpec == Spec /\ WF_vars(Progress)

------------------------------------------------------------------------------
(* Properties *)

\* Whatever was dropped, resumed, re-resolved or seeked, the next byte of the body is the
\* one at offset, so libav never gets bytes of another position (Read, Seek, open).
BodyIsAtOffset == body # Unknown => body = offset

\* Read reports the end only at the end of the file: a connection that is cut is resumed
\* (Read, noteSize).
EofIsTheEnd == [][result' = "eof" => offset' = N \/ result = "eof"]_vars

\* No server can hold the transcode thread: each Read and each Size returns, after at
\* most MaxRetries new attempts (the watchdogs of open, discard and readBody).
ReadReturns == pc # "idle" ~> pc = "idle"
==============================================================================
