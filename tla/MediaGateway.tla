----------------------------- MODULE MediaGateway -----------------------------
(***************************************************************************)
(* One voice websocket of the streamer (mediaGateway): the gateway of the  *)
(* voice connection, or of a stream.  Four kinds of goroutines share it:   *)
(*                                                                         *)
(*   - the listener, which delivers credentials (setSession, setTokens)    *)
(*     and dials when both are there;                                      *)
(*   - the readLoop of each socket dialled so far, with the handlers it    *)
(*     calls and handleDisconnect;                                         *)
(*   - reconnectLoop, at most one;                                         *)
(*   - stop.                                                               *)
(*                                                                         *)
(* g.mu protects conn, readDone and heartbeatCancel; closed and peer are   *)
(* plain fields, and readLoop evaluates g.conn without the lock, anew for  *)
(* every message.  Socket k, the channel made for it, its readLoop and the *)
(* peer and heartbeat its messages bring are all named k; 0 is nil, and    *)
(* for channels the one that newMediaGateway makes.                        *)
(***************************************************************************)
EXTENDS Integers, FiniteSets

CONSTANTS
    MaxConns,   \* bound: sockets dialled
    MaxUpdates, \* bound: credentials delivered
    Overlaps    \* may credentials and losses arrive while a connection is
                \* being set up or taken down?

ASSUME BoundsAssumption == MaxConns \in Nat \ {0} /\ MaxUpdates \in Nat
ASSUME OverlapsAssumption == Overlaps \in BOOLEAN

Sockets == 1..MaxConns
Nil == 0
SocketOrNil == Sockets \cup {Nil}
Credentials == {"session", "token"}

VARIABLES
    signalingOnly,  \* the gateway of a voice connection; never changes
    \* fields of mediaGateway
    creds,          \* hasSession, hasToken
    closed, conn, readDone, heartbeat, peer,
    \* the world
    opened,         \* sockets dialled so far
    shut,           \* the sockets that were closed on this side
    wire,           \* "up", "lost", or "ended" by the server on purpose
    phase,          \* the handshake messages each socket has brought
    livePeers,      \* libdatachannel peers that were made and not closed
    closedDone,     \* the readDone channels that are closed
    crashed,        \* a goroutine has panicked, and the process is gone
    updates,
    \* the goroutines
    lpc,            \* the listener
    rc,             \* reconnectLoop; "off" when g.reconnecting is false
    rpc,            \* the readLoop of each socket
    rsock,          \* the socket it reads from
    rdone,          \* the channel it will close
    intentional,    \* its read failed with voiceCloseDisconnected
    spc, sdone      \* stop, and the channel it waits for

credVars == <<signalingOnly, creds, updates>>
connVars == <<conn, readDone, opened, shut>>
mediaVars == <<heartbeat, peer, livePeers>>
wireVars == <<wire, phase>>
readerVars == <<rpc, rsock, rdone, intentional>>
stopVars == <<closed, spc, sdone>>
deathVars == <<closedDone, crashed>>
vars == <<credVars, connVars, mediaVars, wireVars, readerVars, stopVars, deathVars, lpc, rc>>

Handlers == {"hello", "ready", "ack"}
Dropping == {"drop", "detach", "reset", "decide"}

TypeOK ==
    /\ signalingOnly \in BOOLEAN /\ creds \subseteq Credentials /\ updates \in 0..MaxUpdates
    /\ conn \in SocketOrNil /\ readDone \in SocketOrNil /\ opened \in SocketOrNil
    /\ shut \subseteq Sockets /\ livePeers \subseteq Sockets
    /\ heartbeat \in SocketOrNil /\ peer \in SocketOrNil
    /\ wire \in [Sockets -> {"up", "lost", "ended"}] /\ phase \in [Sockets -> 0..3]
    /\ rpc \in [Sockets -> {"none", "start", "loop", "reading", "gone"} \cup Handlers \cup Dropping]
    /\ rsock \in [Sockets -> SocketOrNil] /\ rdone \in [Sockets -> SocketOrNil]
    /\ intentional \subseteq Sockets
    /\ closed \in BOOLEAN /\ crashed \in BOOLEAN /\ closedDone \subseteq SocketOrNil
    /\ lpc \in {"idle", "try", "dial"}
    /\ rc \in {"off", "check", "sleep", "dial", "store"}
    /\ spc \in {"no", "heartbeat", "detach", "wait", "peer", "done"} /\ sdone \in SocketOrNil

Init ==
    /\ signalingOnly \in BOOLEAN /\ creds = {} /\ updates = 0
    /\ conn = Nil /\ readDone = Nil /\ opened = 0 /\ shut = {}
    /\ heartbeat = Nil /\ peer = Nil /\ livePeers = {}
    /\ wire = [s \in Sockets |-> "up"] /\ phase = [s \in Sockets |-> 0]
    /\ rpc = [k \in Sockets |-> "none"] /\ rsock = [k \in Sockets |-> Nil]
    /\ rdone = [k \in Sockets |-> Nil] /\ intentional = {}
    /\ closed = FALSE /\ spc = "no" /\ sdone = Nil
    /\ closedDone = {} /\ crashed = FALSE
    /\ lpc = "idle" /\ rc = "off"

------------------------------------------------------------------------------
(* Helpers *)

Works(s) == s \notin shut /\ wire[s] = "up"
Running(k) == rpc[k] \notin {"none", "gone"}
StopHeartbeat == heartbeat' = Nil

\* Take the socket out of the gateway under the lock, then close it.
Detached ==
    /\ conn' = Nil
    /\ shut' = IF conn = Nil THEN shut ELSE shut \cup {conn}
    /\ UNCHANGED <<readDone, opened>>

\* Nothing is being set up or taken down.
Quiet ==
    /\ lpc = "idle" /\ rc = "off"
    /\ \A k \in Sockets : rpc[k] \notin Dropping
    /\ conn # Nil => Works(conn)

------------------------------------------------------------------------------
(* dial, by the listener or by reconnectLoop *)

\* Mutant of Install: closed is not looked at again after the handshake.
InstallUnchecked ==
    /\ opened < MaxConns
    /\ opened' = opened + 1
    /\ conn' = opened + 1 /\ readDone' = opened + 1
    /\ rpc' = [rpc EXCEPT ![opened + 1] = "start"]
    /\ UNCHANGED <<shut, rsock, rdone, intentional>>

\* The handshake is through; a gateway closed meanwhile takes no connection.
Install ==
    /\ opened < MaxConns /\ ~closed
    /\ opened' = opened + 1
    /\ conn' = opened + 1 /\ readDone' = opened + 1
    /\ rpc' = [rpc EXCEPT ![opened + 1] = "start"]
    /\ UNCHANGED <<shut, rsock, rdone, intentional>>

DialFails == UNCHANGED <<connVars, readerVars>>

------------------------------------------------------------------------------
(* The listener *)

\* setSession and setTokens: a change closes the socket and leaves the rest to
\* its readLoop.
SetCredential(what) ==
    /\ lpc = "idle" /\ updates < MaxUpdates /\ updates' = updates + 1
    /\ Overlaps \/ Quiet
    /\ creds' = creds \cup {what}
    /\ \/ what \in creds /\ conn # Nil /\ shut' = shut \cup {conn} /\ UNCHANGED lpc
       \/ lpc' = "try" /\ UNCHANGED shut
    /\ UNCHANGED <<signalingOnly, conn, readDone, opened, mediaVars, wireVars,
                   readerVars, stopVars, deathVars, rc>>

\* Mutant of TryConnect: a gateway that has a connection dials again.
TryConnectAlways ==
    /\ lpc = "try" /\ lpc' = IF closed \/ creds # Credentials THEN "idle" ELSE "dial"
    /\ UNCHANGED <<credVars, connVars, mediaVars, wireVars, readerVars, stopVars, deathVars, rc>>

\* tryConnect looks at everything under the lock, and dials without it.
TryConnect ==
    /\ lpc = "try"
    /\ lpc' = IF closed \/ creds # Credentials \/ conn # Nil THEN "idle" ELSE "dial"
    /\ UNCHANGED <<credVars, connVars, mediaVars, wireVars, readerVars, stopVars, deathVars, rc>>

ListenerDials ==
    /\ lpc = "dial" /\ lpc' = "idle"
    /\ Install \/ DialFails
    /\ UNCHANGED <<credVars, mediaVars, wireVars, stopVars, deathVars, rc>>

------------------------------------------------------------------------------
(* reconnectLoop *)

Reconnect(from, to) ==
    /\ rc = from /\ rc' = to
    /\ UNCHANGED <<credVars, mediaVars, wireVars, stopVars, deathVars, lpc>>

CheckClosed ==
    /\ \/ Reconnect("check", IF closed \/ creds # Credentials THEN "store" ELSE "sleep")
       \/ Reconnect("sleep", IF closed THEN "store" ELSE "dial")
    /\ UNCHANGED <<connVars, readerVars>>

\* Mutant of RedialFails: one attempt and no more.
RedialOnce == Reconnect("dial", "store") /\ DialFails

RedialFails == Reconnect("dial", "check") /\ DialFails

Redial == Reconnect("dial", "store") /\ Install

\* g.reconnecting.Store(false)
ReconnectDone == Reconnect("store", "off") /\ UNCHANGED <<connVars, readerVars>>

------------------------------------------------------------------------------
(* readLoop of socket k *)

Reader(k, from, to) == rpc[k] = from /\ rpc' = [rpc EXCEPT ![k] = to]

\* `defer close(g.readDone)` evaluates the field when the goroutine starts.
ReadLoopStarts(k) ==
    /\ Reader(k, "start", "loop")
    /\ rdone' = [rdone EXCEPT ![k] = readDone]
    /\ UNCHANGED <<credVars, connVars, mediaVars, wireVars, rsock, intentional,
                   stopVars, deathVars, lpc, rc>>

\* g.conn.ReadMessage() on whatever g.conn is by now; on nil it panics.
ReadNext(k) ==
    /\ Reader(k, "loop", "reading")
    /\ rsock' = [rsock EXCEPT ![k] = conn]
    /\ crashed' = (conn = Nil)
    /\ UNCHANGED <<credVars, connVars, mediaVars, wireVars, rdone, intentional,
                   stopVars, closedDone, lpc, rc>>

\* The next message of the handshake, or a later one without effect here.
Receive(k) ==
    /\ rpc[k] = "reading" /\ rsock[k] # Nil /\ Works(rsock[k])
    /\ LET s == rsock[k]
       IN  \/ phase[s] = 0 /\ Reader(k, "reading", "hello")
           \/ phase[s] = 1 /\ Reader(k, "reading", "ready")
           \/ phase[s] >= 2 /\ Reader(k, "reading", "ack")
    /\ UNCHANGED <<credVars, connVars, mediaVars, wireVars, rsock, rdone, intentional,
                   stopVars, deathVars, lpc, rc>>

Handled(k) == phase' = [phase EXCEPT ![rsock[k]] = IF @ < 3 THEN @ + 1 ELSE @]

\* The heartbeat of an earlier Hello is replaced; IDENTIFY is sent.
OnHello(k) ==
    /\ Reader(k, "hello", "loop") /\ Handled(k)
    /\ heartbeat' = k
    /\ UNCHANGED <<credVars, connVars, peer, livePeers, wire, rsock, rdone, intentional,
                   stopVars, deathVars, lpc, rc>>

\* A voice gateway signals at once; a stream gateway makes a peer, unless the
\* message names no stream.
OnReady(k) ==
    /\ Reader(k, "ready", "loop") /\ Handled(k)
    /\ \/ UNCHANGED <<peer, livePeers>>
       \/ ~signalingOnly /\ peer' = k /\ livePeers' = livePeers \cup {k}
    /\ UNCHANGED <<credVars, connVars, heartbeat, wire, rsock, rdone, intentional,
                   stopVars, deathVars, lpc, rc>>

\* onSelectProtocolAck signals the peer; the other handlers work on DAVE.
OnAck(k) ==
    /\ Reader(k, "ack", "loop") /\ Handled(k)
    /\ UNCHANGED <<credVars, connVars, mediaVars, wire, rsock, rdone, intentional,
                   stopVars, deathVars, lpc, rc>>

ReadFails(k) ==
    /\ rsock[k] # Nil /\ ~Works(rsock[k]) /\ Reader(k, "reading", "drop")
    /\ intentional' \in IF wire[rsock[k]] = "ended" THEN {intentional \cup {k}} ELSE {intentional}
    /\ UNCHANGED <<credVars, connVars, mediaVars, wireVars, rsock, rdone, stopVars,
                   deathVars, lpc, rc>>

------------------------------------------------------------------------------
(* handleDisconnect of reader k *)

\* Mutant of DropHeartbeat: the heartbeat goes on.
DropNothing(k) ==
    /\ Reader(k, "drop", "detach")
    /\ UNCHANGED <<credVars, connVars, mediaVars, wireVars, rsock, rdone, intentional,
                   stopVars, deathVars, lpc, rc>>

DropHeartbeat(k) ==
    /\ Reader(k, "drop", "detach") /\ StopHeartbeat
    /\ UNCHANGED <<credVars, connVars, peer, livePeers, wireVars, rsock, rdone, intentional,
                   stopVars, deathVars, lpc, rc>>

DropConn(k) ==
    /\ Reader(k, "detach", "reset") /\ Detached
    /\ UNCHANGED <<credVars, mediaVars, wireVars, rsock, rdone, intentional,
                   stopVars, deathVars, lpc, rc>>

\* Mutant of ResetPeer: the peer is forgotten without being closed.
ForgetPeer(k) ==
    /\ Reader(k, "reset", "decide") /\ peer' = Nil
    /\ UNCHANGED <<credVars, connVars, heartbeat, livePeers, wireVars, rsock, rdone, intentional,
                   stopVars, deathVars, lpc, rc>>

ResetPeer(k) ==
    /\ Reader(k, "reset", "decide")
    /\ peer' = Nil /\ livePeers' = livePeers \ {peer}
    /\ UNCHANGED <<credVars, connVars, heartbeat, wireVars, rsock, rdone, intentional,
                   stopVars, deathVars, lpc, rc>>

\* Mutant of Decide: the loop goes on after handleDisconnect.
DecideAndReadOn(k) ==
    /\ Reader(k, "decide", "loop")
    /\ rc' = IF closed \/ k \in intentional \/ rc # "off" THEN rc ELSE "check"
    /\ UNCHANGED <<credVars, connVars, mediaVars, wireVars, rsock, rdone, intentional,
                   stopVars, deathVars, lpc>>

\* The read loop returns and closes the channel it took; unless the gateway is
\* closed or the server meant it, reconnectLoop starts if it is not running.
Decide(k) ==
    /\ Reader(k, "decide", "gone")
    /\ rc' = IF closed \/ k \in intentional \/ rc # "off" THEN rc ELSE "check"
    /\ closedDone' = closedDone \cup {rdone[k]}
    /\ crashed' = (rdone[k] \in closedDone)
    /\ rsock' = [rsock EXCEPT ![k] = Nil] /\ rdone' = [rdone EXCEPT ![k] = Nil]
    /\ intentional' = intentional \ {k}
    /\ UNCHANGED <<credVars, connVars, mediaVars, wireVars, stopVars, lpc>>

------------------------------------------------------------------------------
(* stop *)

Stopping(from, to) ==
    /\ spc = from /\ spc' = to
    /\ UNCHANGED <<credVars, wireVars, readerVars, deathVars, lpc, rc>>

Stop ==
    /\ Stopping("no", "heartbeat") /\ closed' = TRUE
    /\ UNCHANGED <<connVars, mediaVars, sdone>>

StopBeats ==
    /\ Stopping("heartbeat", "detach") /\ StopHeartbeat
    /\ UNCHANGED <<connVars, peer, livePeers, closed, sdone>>

StopConn ==
    /\ Stopping("detach", "wait") /\ Detached /\ sdone' = readDone
    /\ UNCHANGED <<mediaVars, closed>>

\* Mutant of ReadDoneOrTimeout: without a connection there is nothing to wait
\* for, and still stop waits for the channel.
OnlyReadDone == sdone \in closedDone

\* Two seconds are enough for a read loop that is on its way out.
ReadDoneOrTimeout ==
    sdone \in closedDone
        \/ ~\E k \in Sockets : Running(k) /\ (rpc[k] = "reading" => ~Works(rsock[k]))

StopWait ==
    /\ Stopping("wait", "peer") /\ ReadDoneOrTimeout
    /\ UNCHANGED <<connVars, mediaVars, closed, sdone>>

StopPeer ==
    /\ Stopping("peer", "done")
    /\ peer' = Nil /\ livePeers' = livePeers \ {peer}
    /\ UNCHANGED <<connVars, heartbeat, closed, sdone>>

------------------------------------------------------------------------------
(* The server and the network *)

WireFails(s) ==
    /\ s <= opened /\ Works(s)
    /\ Overlaps \/ (lpc = "idle" /\ rc = "off")
    /\ wire' \in {[wire EXCEPT ![s] = w] : w \in {"lost", "ended"}}
    /\ UNCHANGED <<credVars, connVars, mediaVars, phase, readerVars, stopVars, deathVars, lpc, rc>>

------------------------------------------------------------------------------
Listener == TryConnect \/ ListenerDials

ReconnectLoop == CheckClosed \/ RedialFails \/ Redial \/ ReconnectDone

ReadLoop(k) ==
    \/ ReadLoopStarts(k) \/ ReadNext(k) \/ OnHello(k) \/ OnReady(k) \/ OnAck(k)
    \/ ReadFails(k) \/ DropHeartbeat(k) \/ DropConn(k) \/ ResetPeer(k) \/ Decide(k)

StopGoesOn == StopBeats \/ StopConn \/ StopWait \/ StopPeer

Next ==
    /\ ~crashed
    /\ \/ \E what \in Credentials : SetCredential(what)
       \/ Listener \/ ReconnectLoop \/ Stop \/ StopGoesOn
       \/ \E k \in Sockets : ReadLoop(k) \/ Receive(k) \/ WireFails(k)

\* Goroutines run, and a server that is dialled again and again answers in the
\* end.  Nobody has to deliver credentials, messages or failures.
Fairness ==
    /\ WF_vars(~crashed /\ Listener) /\ WF_vars(~crashed /\ ReconnectLoop)
    /\ SF_vars(~crashed /\ Redial)
    /\ WF_vars(~crashed /\ StopGoesOn)
    /\ \A k \in Sockets : WF_vars(~crashed /\ ReadLoop(k))

Spec == Init /\ [][Next]_vars
FairSpec == Spec /\ Fairness

------------------------------------------------------------------------------
(* Properties *)

\* The gateway knows the only socket that is not closed, so a stop, a change of
\* credentials or a disconnect closes it: reconnects and stops leak none.
OneSocket == \A s \in Sockets : s <= opened /\ s \notin shut => s = conn

\* The peer of a connection is closed when the connection goes, before the next
\* one makes its own.
PeerGoesWithItsSocket ==
    \A p \in livePeers : p = peer /\ rpc[p] \notin {"decide", "gone"}

\* Heartbeats are sent only while the connection whose Hello asked for them has
\* a read loop.
HeartbeatHasReader == heartbeat # Nil => rpc[heartbeat] # "gone"

\* When stop returns, the socket, the peer and the heartbeat are gone, whatever
\* was being dialled meanwhile.
StoppedIsClosed ==
    spc = "done" => /\ conn = Nil /\ livePeers = {} /\ heartbeat = Nil
                    /\ \A s \in 1..opened : s \in shut

\* Socket, peer and heartbeat come and go with the connection they belong to, and none
\* outlives a stop.
ConnectionIsWhole ==
    OneSocket /\ PeerGoesWithItsSocket /\ HeartbeatHasReader /\ StoppedIsClosed

\* A read loop panics (on a nil connection, or on a channel closed twice) in no
\* other case than a stop that finds it between two reads.
OnlyStopCrashes == crashed => closed /\ \E k \in Sockets : rpc[k] = "reading" /\ rsock[k] = Nil

\* stop comes to its end, also for a gateway that never had a connection.
StopReturns == spc = "heartbeat" ~> spc = "done" \/ crashed

\* A connection that the network drops is replaced.
LostIsReplaced ==
    \A k \in Sockets :
        rpc[k] = "decide" /\ k \notin intentional
            ~> conn # Nil \/ closed \/ opened = MaxConns

==============================================================================
