----------------------------- MODULE MC_Messages -----------------------------
(* The messages of the bot that outlive a command: the prompts for the next episode
   (extended), and the cards of streams (C). *)
EXTENDS AutoNext

CONSTANTS Handlers, Messages

VARIABLES
    on,     \* which component runs in this behaviour
    \* cards: StreamCards
    c_pc, c_on, c_live, c_face, c_shows, c_slot, c_holder, c_life, c_reason, c_session

C == INSTANCE StreamCards WITH
    pc <- c_pc, on <- c_on, live <- c_live, face <- c_face, shows <- c_shows, slot <- c_slot,
    holder <- c_holder, life <- c_life, reason <- c_reason, session <- c_session

cVars ==
    <<c_pc, c_on, c_live, c_face, c_shows, c_slot, c_holder, c_life, c_reason,
    c_session>>
allVars == <<on, vars, cVars>>

\* A component that does not run stays in one of its initial states.
SumInit ==
    /\ on \in {"autonext", "cards"}
    /\ Init
    /\ C!Init

SumNext ==
    \/ on = "autonext" /\ Next /\ UNCHANGED <<on, cVars>>
    \/ on = "cards" /\ C!Next /\ UNCHANGED <<on, vars>>

SumFairness ==
    /\ \A n \in Streams : WF_vars(on = "autonext" /\ Callback(n))
    /\ \A e \in Executors : WF_vars(on = "autonext" /\ Execute(e))
    /\ WF_vars(on = "autonext" /\ (UserStarts \/ UserStops))
    /\ \A h \in Handlers :
          WF_cVars(on = "cards" /\ C!HandlerStep(h)) /\ WF_cVars(on = "cards" /\ C!LoopStep(h))

SumSpec == SumInit /\ [][SumNext]_allVars /\ SumFairness

------------------------------------------------------------------------------
(* Properties of the components that are not extended. *)

\* "Notify before unblocking Swap so the swapped-in stream's message edit deterministically
\* lands after this one" (pool.go): a swapped stream that closes its card does not take the
\* controls of its running successor away.
SwappedInKeepsItsCard == C!SwappedInKeepsItsCard

\* A command does not leave its user with "thinking...": whichever way it goes, swap and
\* failed join included, the handler returns and the deferred reply has been edited; the
\* handlers are interchangeable.
CommandIsAnswered == C!IsAnswered(CHOOSE h \in Handlers : TRUE)
==============================================================================
