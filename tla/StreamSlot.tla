------------------------------ MODULE StreamSlot ------------------------------
(***************************************************************************)
(* What a pool.Session promises to the rest of the bot: a slot that one    *)
(* request at a time holds, in which one stream at a time is live, and     *)
(* which a stream either frees (ended, stopped, error) or hands over to    *)
(* its successor without freeing it (swapped).  A stream is reported once, *)
(* and the reason tells which of the two happened.                         *)
(***************************************************************************)
CONSTANT Streams

VARIABLES
    held,   \* somebody has the slot
    status  \* status[n]: the life of stream n

vars == <<held, status>>

FreeReasons == {"ended", "stopped", "error"}

TypeOK ==
    /\ held \in BOOLEAN
    /\ status \in [Streams -> {"new", "live", "freed", "handed", "swapped"} \cup FreeReasons]

Init == held = FALSE /\ status = [n \in Streams |-> "new"]

Becomes(n, from, to) == status[n] = from /\ status' = [status EXCEPT ![n] = to]

\* A request takes the free slot, or gives it back because it could not start.
Claim == ~held /\ held' = TRUE /\ UNCHANGED status

NoneLive == \A n \in Streams : status[n] # "live"

Abandon == held /\ NoneLive /\ held' = FALSE /\ UNCHANGED status

GoLive(n) == held /\ NoneLive /\ Becomes(n, "new", "live") /\ UNCHANGED held

Free(n) == Becomes(n, "live", "freed") /\ held' = FALSE

HandOver(n) == Becomes(n, "live", "handed") /\ UNCHANGED held

Report(n) ==
    /\ \/ Becomes(n, "handed", "swapped")
       \/ \E r \in FreeReasons : Becomes(n, "freed", r)
    /\ UNCHANGED held

Next ==
    \/ Claim
    \/ Abandon
    \/ \E n \in Streams : GoLive(n) \/ Free(n) \/ HandOver(n) \/ Report(n)

Spec == Init /\ [][Next]_vars

==============================================================================
