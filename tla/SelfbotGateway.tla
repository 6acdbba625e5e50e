----------------------------- MODULE SelfbotGateway -----------------------------
(***************************************************************************)
(* A worker account's connection to the Discord gateway: Login connects    *)
(* the first gateway, maintainGateway replaces it when it is lost.  Every  *)
(* gateway has a reader and, once greeted, a heartbeat; both of them and   *)
(* connect may close it, and close sets conn to nil under a lock that the  *)
(* reader does not take.                                                   *)
(*                                                                         *)
(* Discord may send a packet the protocol allows, fall silent, or hang up, *)
(* at any time.  The time is left out: a timer may fire while the code     *)
(* waits on it.  A session is the number of the gateway that began it, 0   *)
(* is none.                                                                *)
(***************************************************************************)
EXTENDS Naturals

CONSTANTS MaxGateways, MaxPackets      \* bounds

GatewayAssumption == MaxGateways \in Nat \ {0} /\ MaxPackets \in Nat

Gateways == 1..MaxGateways

VARIABLES
    pc,             \* connect and its caller: Login, then maintainGateway
    current,        \* Client.gateway
    ctx,            \* the process is shutting down
    reconnecting,   \* Login has returned
    saved,          \* what resumeState returned
    conn,           \* of each gateway: "none" before the dial, "open", "nil"
    reader,         \* of each gateway: "none", "loop", "read", "invalid", "done"
    heart,          \* of each gateway: its heartbeat, "off", "acked" or "waiting"
    asked,          \* of each gateway: what Discord was sent: nothing, identify, resume
    sessionID,      \* of each gateway
    identified,     \* of each gateway: the channel of that name
    silent,         \* Discord says nothing more on these gateways
    undecoded,      \* gateways the READY of which could not be decoded
    packets,        \* received so far
    crashed

callerVars == <<pc, current, reconnecting, saved>>
gatewayVars == <<conn, reader, heart, asked, sessionID, identified>>
serverVars == <<silent, undecoded, packets>>
vars == <<callerVars, ctx, gatewayVars, serverVars, crashed>>

TypeOK ==
    /\ pc \in {"dial", "await", "wait", "backoff", "over"} /\ current \in Gateways
    /\ ctx \in BOOLEAN /\ reconnecting \in BOOLEAN /\ crashed \in BOOLEAN
    /\ conn \in [Gateways -> {"none", "open", "nil"}]
    /\ reader \in [Gateways -> {"none", "loop", "read", "invalid", "done"}]
    /\ heart \in [Gateways -> {"off", "acked", "waiting"}]
    /\ asked \in [Gateways -> {"nothing", "identify", "resume"}]
    /\ sessionID \in [Gateways -> 0..MaxGateways] /\ saved \in 0..MaxGateways
    /\ identified \in [Gateways -> {"empty", "ready", "error"}]
    /\ silent \subseteq Gateways /\ undecoded \subseteq Gateways
    /\ packets \in 0..MaxPackets

Init ==
    /\ pc = "dial" /\ current = 1 /\ ctx = FALSE /\ reconnecting = FALSE /\ saved = 0
    /\ conn = [g \in Gateways |-> "none"] /\ reader = [g \in Gateways |-> "none"]
    /\ heart = [g \in Gateways |-> "off"]
    /\ asked = [g \in Gateways |-> "nothing"] /\ sessionID = [g \in Gateways |-> 0]
    /\ identified = [g \in Gateways |-> "empty"]
    /\ silent = {} /\ undecoded = {} /\ packets = 0 /\ crashed = FALSE

------------------------------------------------------------------------------
(* Helpers *)

Goto(from, to) == ~crashed /\ pc = from /\ pc' = to

\* close: the heartbeat is cancelled, the socket closed and forgotten.
Close(g) ==
    /\ conn' = [conn EXCEPT ![g] = IF @ = "open" THEN "nil" ELSE @]
    /\ heart' = [heart EXCEPT ![g] = "off"]

\* send does nothing once the gateway is closed.
Ask(g, what) == asked' = [asked EXCEPT ![g] = IF conn[g] = "open" THEN what ELSE @]

\* signalReady: what was signalled first stays.
Signal(g, what) == identified' = [identified EXCEPT ![g] = IF @ = "empty" THEN what ELSE @]

\* Mutant of ConnectFails: maintainGateway gives up as Login does.
ConnectFailsOnce(from) == Goto(from, "over")

\* connect has returned an error to its caller.
ConnectFails(from) == Goto(from, IF reconnecting THEN "backoff" ELSE "over")

------------------------------------------------------------------------------
(* connect *)

Dial ==
    /\ Goto("dial", "await")
    /\ conn' = [conn EXCEPT ![current] = "open"]
    /\ reader' = [reader EXCEPT ![current] = "loop"]
    /\ UNCHANGED <<current, reconnecting, saved, ctx, heart, asked, sessionID,
                   identified, serverVars, crashed>>

DialFails ==
    /\ ConnectFails("dial")
    /\ UNCHANGED <<current, reconnecting, saved, ctx, gatewayVars, serverVars, crashed>>

\* Login starts maintainGateway when connect has returned; maintainGateway waits again.
Identified ==
    /\ Goto("await", "wait") /\ identified[current] = "ready" /\ reconnecting' = TRUE
    /\ UNCHANGED <<current, saved, ctx, gatewayVars, serverVars, crashed>>

Disconnected ==
    /\ ConnectFails("await") /\ identified[current] = "error"
    /\ UNCHANGED <<current, reconnecting, saved, ctx, gatewayVars, serverVars, crashed>>

\* Mutant of GiveUp: connect returns its error and leaves the gateway as it is.
GiveUpOnly ==
    /\ ConnectFails("await")
    /\ UNCHANGED <<current, reconnecting, saved, ctx, gatewayVars, serverVars, crashed>>

\* The context ended, or READY did not come within thirty seconds.
GiveUp ==
    /\ ConnectFails("await") /\ Close(current)
    /\ UNCHANGED <<current, reconnecting, saved, ctx, reader, asked, sessionID,
                   identified, serverVars, crashed>>

------------------------------------------------------------------------------
(* maintainGateway *)

Lost ==
    /\ Goto("wait", "backoff") /\ reader[current] = "done"
    /\ saved' = sessionID[current]
    /\ UNCHANGED <<current, reconnecting, ctx, gatewayVars, serverVars, crashed>>

\* Either select sees that the context has ended.
Leave ==
    /\ (Goto("wait", "over") \/ Goto("backoff", "over")) /\ ctx
    /\ UNCHANGED <<current, reconnecting, saved, ctx, gatewayVars, serverVars, crashed>>

\* After the backoff: a new gateway, which resumes the session that was saved.
Reconnect ==
    /\ Goto("backoff", "dial") /\ ~ctx /\ current < MaxGateways
    /\ current' = current + 1
    /\ sessionID' = [sessionID EXCEPT ![current + 1] = saved]
    /\ UNCHANGED <<reconnecting, saved, ctx, conn, reader, heart, asked, identified,
                   serverVars, crashed>>

------------------------------------------------------------------------------
(* readLoop *)

Reader(g, from, to) == ~crashed /\ reader[g] = from /\ reader' = [reader EXCEPT ![g] = to]

\* The deferred close; done is closed with it.
ReaderEnds(g, from) == Reader(g, from, "done") /\ Close(g)

\* g.conn is read without the lock: the process ends if it is nil by now.
ReadNext(g) ==
    /\ Reader(g, "loop", "read") /\ ~ctx
    /\ crashed' = (conn[g] = "nil")
    /\ UNCHANGED <<callerVars, ctx, conn, heart, asked, sessionID, identified,
                   serverVars>>

ReaderLeaves(g) ==
    /\ ReaderEnds(g, "loop") /\ ctx
    /\ UNCHANGED <<callerVars, ctx, asked, sessionID, identified, serverVars, crashed>>

\* The socket was closed at this end, or Discord hung up.
ReadFails(g) ==
    /\ ReaderEnds(g, "read") /\ Signal(g, "error")
    /\ UNCHANGED <<callerVars, ctx, asked, sessionID, serverVars, crashed>>

\* A packet has arrived on the socket that is being read.
Receives(g, to) ==
    /\ Reader(g, "read", to) /\ conn[g] = "open" /\ g \notin silent
    /\ packets < MaxPackets /\ packets' = packets + 1

\* Mutant of OnHello: a session that resumes gets no heartbeat.
OnHelloResumesFirst(g) ==
    /\ Receives(g, "loop") /\ asked[g] = "nothing"
    /\ heart' = [heart EXCEPT ![g] = IF sessionID[g] # 0 THEN "off" ELSE "acked"]
    /\ Ask(g, IF sessionID[g] # 0 THEN "resume" ELSE "identify")
    /\ UNCHANGED <<callerVars, ctx, conn, sessionID, identified, silent, undecoded,
                   crashed>>

OnHello(g) ==
    /\ Receives(g, "loop") /\ asked[g] = "nothing"
    /\ heart' = [heart EXCEPT ![g] = "acked"]
    /\ Ask(g, IF sessionID[g] # 0 THEN "resume" ELSE "identify")
    /\ UNCHANGED <<callerVars, ctx, conn, sessionID, identified, silent, undecoded,
                   crashed>>

OnHeartbeatAck(g) ==
    /\ Receives(g, "loop") /\ heart[g] = "waiting"
    /\ heart' = [heart EXCEPT ![g] = "acked"]
    /\ UNCHANGED <<callerVars, ctx, conn, asked, sessionID, identified, silent,
                   undecoded, crashed>>

\* A READY that cannot be decoded is signalled as an error, and the reader reads on.
OnReady(g) ==
    /\ Receives(g, "loop") /\ asked[g] = "identify"
    /\ \/ /\ sessionID' = [sessionID EXCEPT ![g] = g] /\ Signal(g, "ready")
          /\ UNCHANGED undecoded
       \/ /\ Signal(g, "error") /\ undecoded' = undecoded \cup {g}
          /\ UNCHANGED sessionID
    /\ UNCHANGED <<callerVars, ctx, conn, heart, asked, silent, crashed>>

OnResumed(g) ==
    /\ Receives(g, "loop") /\ asked[g] = "resume" /\ Signal(g, "ready")
    /\ UNCHANGED <<callerVars, ctx, conn, heart, asked, sessionID, silent, undecoded,
                   crashed>>

\* opInvalidSession: the session is dropped unless it is resumable ...
OnInvalidSession(g) ==
    /\ Receives(g, "invalid") /\ asked[g] # "nothing"
    /\ \/ sessionID' = [sessionID EXCEPT ![g] = 0]
       \/ UNCHANGED sessionID
    /\ UNCHANGED <<callerVars, ctx, conn, heart, asked, identified, silent, undecoded,
                   crashed>>

\* ... and a second later the client identifies, whichever it is.
IdentifyAgain(g) ==
    /\ Reader(g, "invalid", "loop") /\ Ask(g, "identify")
    /\ UNCHANGED <<callerVars, ctx, conn, heart, sessionID, identified, serverVars,
                   crashed>>

\* opReconnect: closed and left without a signal.
OnReconnect(g) ==
    /\ Receives(g, "done") /\ asked[g] # "nothing" /\ Close(g)
    /\ UNCHANGED <<callerVars, ctx, asked, sessionID, identified, silent, undecoded,
                   crashed>>

------------------------------------------------------------------------------
(* The heartbeat *)

Beat(g) ==
    /\ ~crashed /\ heart[g] = "acked"
    /\ heart' = [heart EXCEPT ![g] = "waiting"]
    /\ UNCHANGED <<callerVars, ctx, conn, reader, asked, sessionID, identified,
                   serverVars, crashed>>

Zombie(g) ==
    /\ ~crashed /\ heart[g] = "waiting" /\ Close(g)
    /\ UNCHANGED <<callerVars, ctx, reader, asked, sessionID, identified, serverVars,
                   crashed>>

------------------------------------------------------------------------------
(* What comes from outside *)

FallSilent(g) ==
    /\ ~crashed /\ conn[g] = "open" /\ g \notin silent
    /\ silent' = silent \cup {g}
    /\ UNCHANGED <<callerVars, ctx, gatewayVars, undecoded, packets, crashed>>

ShutDown ==
    /\ ~crashed /\ ~ctx /\ ctx' = TRUE
    /\ UNCHANGED <<callerVars, gatewayVars, serverVars, crashed>>

------------------------------------------------------------------------------
Connect == Dial \/ DialFails \/ Identified \/ Disconnected \/ GiveUp
Maintain == Lost \/ Leave \/ Reconnect
Receive(g) ==
    \/ OnHello(g) \/ OnHeartbeatAck(g) \/ OnReady(g) \/ OnResumed(g)
    \/ OnInvalidSession(g) \/ OnReconnect(g)
ReadLoop(g) == ReadNext(g) \/ ReaderLeaves(g) \/ ReadFails(g) \/ IdentifyAgain(g)

Next ==
    \/ Connect \/ Maintain \/ ShutDown
    \/ \E g \in Gateways :
          Receive(g) \/ ReadLoop(g) \/ Beat(g) \/ Zombie(g) \/ FallSilent(g)

\* A reader whose socket is closed sees that; one that is not may wait for ever.
ReadFailsClosed(g) == conn[g] # "open" /\ ReadFails(g)

Fairness ==
    /\ WF_vars(Connect) /\ WF_vars(Maintain)
    /\ \A g \in Gateways :
          /\ WF_vars(ReadNext(g) \/ ReaderLeaves(g) \/ ReadFailsClosed(g) \/ IdentifyAgain(g))
          /\ WF_vars(Beat(g) \/ Zombie(g))

Spec == Init /\ [][Next]_vars
FairSpec == Spec /\ Fairness

------------------------------------------------------------------------------
(* Properties *)

\* A gateway is replaced only once it is closed, so that the events of one account never
\* come from two sockets; the exception is one whose READY could not be decoded.
ReplacedIsClosed ==
    \A g \in Gateways : conn[g] = "open" => g = current \/ g \in undecoded

\* A connection on which Discord says nothing more is noticed at every stage, before
\* HELLO by the timeout of connect, afterwards by the heartbeat, resumed or not: it is
\* closed, unless the process ends.
SilentIsClosed ==
    \A g \in Gateways : g \in silent ~> conn[g] = "nil" \/ ctx \/ crashed

\* maintainGateway never stops before the context ends: a lost gateway is followed by
\* another attempt (up to the bound).
LostIsFollowed ==
    \A g \in Gateways :
       (reconnecting /\ current = g /\ reader[g] = "done" /\ g < MaxGateways)
          ~> current > g \/ ctx \/ crashed
==============================================================================
