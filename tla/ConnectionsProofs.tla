-------------------------- MODULE ConnectionsProofs --------------------------
(* Theorems about the connections to Discord that media go through, for any number of
   sockets, updates, joins, streams, events and epochs: the media gateway, the voice and
   stream connections, and the encryption. *)
EXTENDS MC_Connections, SequenceTheorems, TLAPS

USE BoundsAssumption, OverlapsAssumption

------------------------------------------------------------------------------
(* The media gateway: theorems about Spec of MediaGateway. *)

\* Where a read loop may hold a heartbeat or a peer.
HoldsMedia == {"loop", "reading", "drop"} \cup Handlers

\* A socket not dialled yet has left no trace.
FreshInv ==
    \A s \in Sockets : s > opened =>
        rpc[s] = "none" /\ Works(s) /\ s \notin closedDone

\* The only read loop is the one of the last socket, and reads from it.
ReaderInv ==
    /\ readDone = opened /\ conn \in {Nil, opened}
    /\ \A k \in Sockets : Running(k) =>
          /\ k = opened /\ k \notin closedDone
          /\ rpc[k] # "start" => rdone[k] = k
          /\ rpc[k] \in Handlers \cup {"reading"} =>
                rsock[k] = k \/ (rsock[k] = Nil /\ crashed /\ closed /\ rpc[k] = "reading")

\* While the gateway is open: whose turn it is to change the connection.
OpenInv ==
    ~closed =>
        /\ lpc # "idle" => /\ rc = "off" /\ (conn # Nil => Works(conn))
                           /\ \A k \in Sockets : rpc[k] \notin Dropping
        /\ lpc = "dial" => conn = Nil
        /\ rc # "off" => (conn # Nil => Works(conn))
        /\ rc \in {"check", "sleep", "dial"} =>
              conn = Nil /\ \A k \in Sockets : ~Running(k)
        /\ \A k \in Sockets :
              /\ rpc[k] \in Dropping => rc = "off"
              /\ Running(k) => conn = (IF rpc[k] \in {"reset", "decide"} THEN Nil ELSE k)

\* Peer and heartbeat belong to a read loop that will take them down.
MediaInv ==
    /\ heartbeat # Nil => rpc[heartbeat] \in HoldsMedia
    /\ peer # Nil => rpc[peer] \in HoldsMedia \cup {"detach", "reset"}
    /\ livePeers \subseteq {peer} \ {Nil}

\* How far stop has come.
StopInv ==
    /\ spc # "no" => closed
    /\ spc \in {"wait", "peer", "done"} => conn = Nil /\ sdone = readDone
    /\ spc \in {"peer", "done"} => \A k \in Sockets : ~Running(k)

GatewayInv ==
    TypeOK /\ FreshInv /\ ReaderInv /\ OpenInv /\ OneSocket /\ MediaInv /\ StopInv
    /\ OnlyStopCrashes

------------------------------------------------------------------------------
(* Types *)

\* The initial states are well typed.
LEMMA InitTyped == ASSUME Init PROVE TypeOK
<1> USE DEF TypeOK, SocketOrNil
<1>1. 0 \in 0..MaxUpdates /\ 0 \in 0..3
  OBVIOUS
<1>2. QED
  BY <1>1, Zenon DEF Init, Nil

\* Each step of the gateway's goroutines keeps the types.
LEMMA StepTyped == ASSUME TypeOK, [Next]_vars PROVE TypeOK'
<1> USE DEF TypeOK, SocketOrNil,
            credVars, connVars, mediaVars, wireVars, readerVars, stopVars, deathVars
<1>1. ASSUME Install
      PROVE  /\ conn' \in SocketOrNil /\ readDone' \in SocketOrNil /\ opened' \in SocketOrNil
             /\ rpc' = [rpc EXCEPT ![opened + 1] = "start"]
             /\ UNCHANGED <<shut, rsock, rdone, intentional>>
  BY <1>1 DEF Install, Sockets, Nil
<1>2. ASSUME NEW what \in Credentials, SetCredential(what) PROVE TypeOK'
  BY <1>2 DEF SetCredential
<1>3. CASE TryConnect
  BY <1>3 DEF TryConnect
<1>4. CASE ListenerDials
  <2>1. CASE Install
    BY <1>1, <1>4, <2>1 DEF ListenerDials
  <2>2. CASE DialFails
    BY <1>4, <2>2 DEF ListenerDials, DialFails
  <2>3. QED
    BY <1>4, <2>1, <2>2 DEF ListenerDials
<1>5. CASE CheckClosed
  BY <1>5 DEF CheckClosed, Reconnect
<1>6. CASE RedialFails
  BY <1>6 DEF RedialFails, Reconnect, DialFails
<1>6a. CASE ReconnectDone
  BY <1>6a DEF ReconnectDone, Reconnect
<1>7. CASE Redial
  BY <1>1, <1>7 DEF Redial, Reconnect
<1>8. CASE Stop
  BY <1>8 DEF Stop, Stopping
<1>8a. CASE StopBeats
  BY <1>8a DEF StopBeats, Stopping, StopHeartbeat
<1>9. CASE StopConn
  BY <1>9 DEF StopConn, Stopping, Detached
<1>10. CASE StopWait \/ StopPeer
  BY <1>10 DEF StopWait, StopPeer, Stopping
<1>11. ASSUME NEW k \in Sockets, ReadLoop(k) PROVE TypeOK'
  <2> USE DEF Reader, Handlers, Dropping
  <2>1. CASE ReadLoopStarts(k)
    BY <2>1 DEF ReadLoopStarts
  <2>2. CASE ReadNext(k)
    BY <2>2 DEF ReadNext
  <2>3. ASSUME Handled(k) PROVE phase' \in [Sockets -> 0..3]
    <3>1. \A n \in 0..3 : (IF n < 3 THEN n + 1 ELSE n) \in 0..3
      OBVIOUS
    <3>2. CASE rsock[k] \in Sockets
      <4>1. (IF phase[rsock[k]] < 3 THEN phase[rsock[k]] + 1 ELSE phase[rsock[k]]) \in 0..3
        BY <3>1, <3>2
      <4>2. QED
        BY <2>3, <4>1 DEF Handled
    <3>3. CASE rsock[k] \notin Sockets
      BY <2>3, <3>3 DEF Handled
    <3>4. QED
      BY <3>2, <3>3
  <2>4. CASE OnHello(k)
    BY <2>3, <2>4 DEF OnHello
  <2>5. CASE OnReady(k)
    BY <2>3, <2>5 DEF OnReady
  <2>6. CASE OnAck(k)
    BY <2>3, <2>6 DEF OnAck
  <2>7. CASE ReadFails(k)
    BY <2>7 DEF ReadFails
  <2>8. CASE DropHeartbeat(k)
    BY <2>8 DEF DropHeartbeat, StopHeartbeat
  <2>9. CASE DropConn(k)
    BY <2>9 DEF DropConn, Detached
  <2>10. CASE ResetPeer(k)
    BY <2>10 DEF ResetPeer
  <2>11. CASE Decide(k)
    BY <2>11 DEF Decide
  <2>12. QED
    BY <1>11, <2>1, <2>2, <2>4, <2>5, <2>6, <2>7, <2>8, <2>9, <2>10, <2>11 DEF ReadLoop
<1>12. ASSUME NEW k \in Sockets, Receive(k) PROVE TypeOK'
  BY <1>12 DEF Receive, Reader, Handlers, Dropping
<1>13. ASSUME NEW s \in Sockets, WireFails(s) PROVE TypeOK'
  BY <1>13 DEF WireFails
<1>14. CASE UNCHANGED vars
  BY <1>14 DEF vars
<1>15. QED
  BY <1>2, <1>3, <1>4, <1>5, <1>6, <1>6a, <1>7, <1>8, <1>8a, <1>9, <1>10, <1>11, <1>12, <1>13, <1>14
  DEF Next, Listener, ReconnectLoop, StopGoesOn

\* Every variable of MediaGateway keeps its type.
THEOREM GatewayTypeCorrect == Spec => []TypeOK
<1>1. Init => TypeOK
  BY InitTyped
<1>2. TypeOK /\ [Next]_vars => TypeOK'
  BY StepTyped
<1>3. QED
  BY <1>1, <1>2, PTL DEF Spec

------------------------------------------------------------------------------
(* The inductive invariant, when nothing arrives while a connection is being *)
(* set up or taken down.                                                     *)

\* A socket that is not dialled yet is untouched.
LEMMA FreshStep ==
    ASSUME GatewayInv, Next PROVE FreshInv'
<1> USE DEF GatewayInv, credVars, connVars, mediaVars, wireVars, readerVars, stopVars, deathVars
<1>1. /\ opened \in Nat /\ conn <= opened /\ \A s \in Sockets : s \in Nat /\ s # Nil
      /\ \A k \in Sockets : Running(k) => k = opened
  BY DEF TypeOK, ReaderInv, SocketOrNil, Sockets, Nil
<1>2. CASE Install /\ UNCHANGED <<wire, closedDone>>
  BY <1>1, <1>2 DEF Install, FreshInv, Works, TypeOK
<1>3. ASSUME UNCHANGED opened,
             \A s \in Sockets : s > opened =>
                /\ rpc'[s] = rpc[s] /\ wire'[s] = wire[s]
                /\ s \in shut' => s \in shut
                /\ s \in closedDone' => s \in closedDone
      PROVE  FreshInv'
  BY <1>3 DEF FreshInv, Works
<1>4. ASSUME NEW what \in Credentials, SetCredential(what) PROVE FreshInv'
  BY <1>1, <1>3, <1>4 DEF SetCredential
<1>5. CASE TryConnect \/ CheckClosed \/ RedialFails \/ ReconnectDone
  BY <1>3, <1>5 DEF TryConnect, CheckClosed, RedialFails, ReconnectDone, Reconnect, DialFails
<1>6. CASE ListenerDials \/ Redial
  BY <1>2, <1>3, <1>6 DEF ListenerDials, Redial, Reconnect, DialFails
<1>7. CASE Stop \/ StopBeats \/ StopWait \/ StopPeer
  BY <1>3, <1>7 DEF Stop, StopBeats, StopWait, StopPeer, Stopping
<1>8. CASE StopConn
  BY <1>1, <1>3, <1>8 DEF StopConn, Stopping, Detached
<1>9. ASSUME NEW k \in Sockets, ReadLoop(k) \/ Receive(k) PROVE FreshInv'
  <2>1. /\ UNCHANGED <<opened, wire>>
        /\ rpc[k] \notin {"none", "gone"} /\ \E to : rpc' = [rpc EXCEPT ![k] = to]
    BY <1>9 DEF ReadLoop, Receive, Reader, ReadLoopStarts, ReadNext, OnHello, OnReady, OnAck,
                ReadFails, DropHeartbeat, DropConn, ResetPeer, Decide, Detached
  <2>2. k = opened
    BY <1>1, <2>1 DEF Running
  <2>3. \A s \in Sockets : s > opened => rpc'[s] = rpc[s]
    BY <1>1, <2>1, <2>2 DEF TypeOK
  <2>4. \A s \in Sockets : s > opened => (s \in shut' => s \in shut)
    BY <1>1, <1>9 DEF ReadLoop, Receive, ReadLoopStarts, ReadNext, OnHello, OnReady, OnAck,
                ReadFails, DropHeartbeat, DropConn, ResetPeer, Decide, Detached
  <2>5. \A s \in Sockets : s > opened => (s \in closedDone' => s \in closedDone)
    <3>1. CASE Decide(k)
      <4>1. rdone[k] = k
        BY <3>1 DEF ReaderInv, Decide, Reader, Running
      <4>2. QED
        BY <1>1, <2>2, <3>1, <4>1 DEF Decide
    <3>2. QED
      BY <1>9, <3>1 DEF ReadLoop, Receive, ReadLoopStarts, ReadNext, OnHello, OnReady, OnAck,
                ReadFails, DropHeartbeat, DropConn, ResetPeer
  <2>6. QED
    BY <1>3, <2>1, <2>3, <2>4, <2>5
<1>10. ASSUME NEW s \in Sockets, WireFails(s) PROVE FreshInv'
  BY <1>1, <1>3, <1>10 DEF WireFails, TypeOK
<1>11. QED
  BY <1>4, <1>5, <1>6, <1>7, <1>8, <1>9, <1>10
  DEF Next, Listener, ReconnectLoop, StopGoesOn

\* A gateway takes a new connection only when the last one is gone with its loop.
LEMMA InstalledAlone ==
    ASSUME GatewayInv, Install, ListenerDials \/ Redial
    PROVE  conn = Nil /\ \A k \in Sockets : ~Running(k)
<1> USE DEF GatewayInv
<1>1. ~closed /\ (lpc = "dial" \/ rc = "dial")
  BY DEF Install, ListenerDials, Redial, Reconnect
<1>2. CASE lpc = "dial"
  <2>1. conn = Nil /\ \A k \in Sockets : rpc[k] \notin Dropping
    BY <1>1, <1>2 DEF OpenInv
  <2>2. ASSUME NEW k \in Sockets, Running(k) PROVE FALSE
    BY <1>1, <2>1, <2>2 DEF OpenInv, Dropping, Sockets, Nil
  <2>3. QED
    BY <2>1, <2>2
<1>3. CASE rc = "dial"
  BY <1>1, <1>3 DEF OpenInv
<1>4. QED
  BY <1>1, <1>2, <1>3

\* One read loop at a time, and it reads from its own socket.
LEMMA ReaderStep ==
    ASSUME GatewayInv, Next PROVE ReaderInv'
<1> USE DEF GatewayInv, credVars, connVars, mediaVars, wireVars, readerVars, stopVars, deathVars
<1>1. /\ opened \in Nat /\ \A s \in Sockets : s \in Nat /\ s # Nil
      /\ readDone = opened /\ conn \in {Nil, opened} /\ ~crashed
      /\ \A k \in Sockets : Running(k) => k = opened
  BY DEF TypeOK, ReaderInv, SocketOrNil, Sockets, Nil, Next
<1>2. CASE (ListenerDials \/ Redial) /\ Install
  <2>1. conn = Nil /\ \A k \in Sockets : ~Running(k)
    BY <1>2, InstalledAlone
  <2>2. opened + 1 \in Sockets /\ opened + 1 \notin closedDone
    BY <1>1, <1>2 DEF Install, FreshInv, Sockets
  <2>3. closedDone' = closedDone
    BY <1>2 DEF ListenerDials, Redial, Reconnect
  <2>4. rpc' = [rpc EXCEPT ![opened + 1] = "start"]
    BY <1>2 DEF Install
  <2>5. \A k \in Sockets : Running(k)' => k = opened + 1 /\ rpc'[k] = "start"
    BY <2>1, <2>2, <2>4 DEF Running, TypeOK
  <2>6. readDone' = opened' /\ conn' = opened' /\ opened' = opened + 1
    BY <1>2 DEF Install
  <2>7. QED
    BY <2>2, <2>3, <2>5, <2>6 DEF ReaderInv, Handlers
<1>3. ASSUME UNCHANGED <<readDone, opened, rpc, rsock, rdone, closedDone, crashed>>,
             conn' \in {Nil, conn}
      PROVE  ReaderInv'
  BY <1>1, <1>3 DEF ReaderInv, Running
<1>4. ASSUME NEW what \in Credentials, SetCredential(what) PROVE ReaderInv'
  BY <1>3, <1>4 DEF SetCredential
<1>5. CASE TryConnect \/ CheckClosed \/ RedialFails \/ ReconnectDone
  BY <1>3, <1>5 DEF TryConnect, CheckClosed, RedialFails, ReconnectDone, Reconnect, DialFails
<1>6. CASE ListenerDials \/ Redial
  BY <1>2, <1>3, <1>6 DEF ListenerDials, Redial, Reconnect, DialFails
<1>7. CASE Stop \/ StopBeats \/ StopWait \/ StopPeer
  BY <1>3, <1>7 DEF Stop, StopBeats, StopWait, StopPeer, Stopping
<1>8. CASE StopConn
  BY <1>3, <1>8 DEF StopConn, Stopping, Detached
<1>9. ASSUME NEW k \in Sockets, ReadLoop(k) \/ Receive(k) PROVE ReaderInv'
  <2>1. /\ UNCHANGED <<opened, readDone, closed>> /\ conn' \in {Nil, conn}
        /\ rpc[k] \notin {"none", "gone"} /\ rpc' = [rpc EXCEPT ![k] = rpc'[k]]
    BY <1>9 DEF ReadLoop, Receive, Reader, ReadLoopStarts, ReadNext, OnHello, OnReady, OnAck,
                ReadFails, DropHeartbeat, DropConn, ResetPeer, Decide, Detached, TypeOK
  <2>2. k = opened /\ Running(k) /\ k \notin closedDone
    BY <1>1, <2>1 DEF Running, ReaderInv
  <2>3. \A j \in Sockets : Running(j)' => j = k
    BY <1>1, <2>1, <2>2 DEF TypeOK, Running
  <2>4. SUFFICES ASSUME Running(k)'
                 PROVE  /\ k \notin closedDone'
                        /\ rpc'[k] # "start" => rdone'[k] = k
                        /\ rpc'[k] \in Handlers \cup {"reading"} =>
                              \/ rsock'[k] = k
                              \/ rsock'[k] = Nil /\ crashed' /\ closed' /\ rpc'[k] = "reading"
    BY <1>1, <2>1, <2>2, <2>3 DEF ReaderInv
  <2> USE DEF Reader, TypeOK, Handlers
  <2>5. CASE ReadLoopStarts(k)
    BY <1>1, <2>2, <2>5 DEF ReadLoopStarts
  <2>6. CASE ReadNext(k)
    <3>1. conn # Nil => conn = k
      BY <1>1, <2>2
    <3>2. conn = Nil => closed
      BY <1>1, <2>2, <2>6 DEF OpenInv, ReadNext
    <3>3. rsock'[k] = conn /\ rpc'[k] = "reading" /\ crashed' = (conn = Nil)
          /\ closedDone' = closedDone /\ rdone'[k] = rdone[k] /\ closed' = closed
      BY <2>6 DEF ReadNext
    <3>4. rdone[k] = k
      BY <2>2, <2>6 DEF ReadNext, ReaderInv
    <3>5. QED
      BY <2>2, <3>1, <3>2, <3>3, <3>4
  <2>7. CASE Receive(k) \/ OnHello(k) \/ OnReady(k) \/ OnAck(k) \/ ReadFails(k)
    <3>1. /\ UNCHANGED <<closedDone, rdone, rsock, crashed>>
          /\ rpc[k] # "start" /\ rpc'[k] \notin {"start", "reading"}
          /\ rpc'[k] \in Handlers => rpc[k] = "reading"
      BY <2>7 DEF Receive, OnHello, OnReady, OnAck, ReadFails
    <3>2. QED
      BY <1>1, <2>2, <3>1 DEF ReaderInv
  <2>8. CASE DropHeartbeat(k) \/ DropConn(k) \/ ResetPeer(k)
    <3>1. /\ UNCHANGED <<closedDone, rdone>>
          /\ rpc[k] # "start" /\ rpc'[k] \in Dropping
      BY <2>8 DEF DropHeartbeat, DropConn, ResetPeer, Dropping
    <3>2. QED
      BY <2>2, <3>1 DEF ReaderInv, Dropping
  <2>9. CASE Decide(k)
    BY <2>4, <2>9 DEF Decide, Running
  <2>10. QED
    BY <1>9, <2>5, <2>6, <2>7, <2>8, <2>9 DEF ReadLoop
<1>10. ASSUME NEW s \in Sockets, WireFails(s) PROVE ReaderInv'
  BY <1>3, <1>10 DEF WireFails
<1>11. QED
  BY <1>4, <1>5, <1>6, <1>7, <1>8, <1>9, <1>10
  DEF Next, Listener, ReconnectLoop, StopGoesOn

\* Only the socket that the gateway knows is open.
LEMMA OneSocketStep ==
    ASSUME GatewayInv, Next PROVE OneSocket'
<1> USE DEF GatewayInv, credVars, connVars, mediaVars, wireVars, readerVars, stopVars, deathVars
<1>1. opened \in Nat /\ \A s \in Sockets : s \in Nat /\ s # Nil
  BY DEF TypeOK, SocketOrNil, Sockets, Nil
<1>2. CASE (ListenerDials \/ Redial) /\ Install
  <2>1. conn = Nil
    BY <1>2, InstalledAlone
  <2>2. conn' = opened + 1 /\ opened' = opened + 1 /\ shut' = shut
    BY <1>2 DEF Install
  <2>3. QED
    BY <1>1, <2>1, <2>2 DEF OneSocket
<1>3. ASSUME UNCHANGED <<opened, conn>>, shut \subseteq shut' PROVE OneSocket'
  BY <1>3 DEF OneSocket
<1>4. CASE Detached
  BY <1>4 DEF Detached, OneSocket
<1>5. ASSUME NEW what \in Credentials, SetCredential(what) PROVE OneSocket'
  BY <1>3, <1>5 DEF SetCredential
<1>6. CASE TryConnect \/ CheckClosed \/ RedialFails \/ ReconnectDone
  BY <1>3, <1>6 DEF TryConnect, CheckClosed, RedialFails, ReconnectDone, Reconnect, DialFails
<1>7. CASE ListenerDials \/ Redial
  BY <1>2, <1>3, <1>7 DEF ListenerDials, Redial, Reconnect, DialFails
<1>8. CASE Stop \/ StopGoesOn
  BY <1>3, <1>4, <1>8 DEF StopGoesOn, Stop, StopBeats, StopConn, StopWait, StopPeer, Stopping
<1>9. ASSUME NEW k \in Sockets, ReadLoop(k) \/ Receive(k) \/ WireFails(k) PROVE OneSocket'
  BY <1>3, <1>4, <1>9 DEF ReadLoop, Receive, ReadLoopStarts, ReadNext, OnHello, OnReady, OnAck,
        ReadFails, DropHeartbeat, DropConn, ResetPeer, Decide, WireFails
<1>10. QED
  BY <1>5, <1>6, <1>7, <1>8, <1>9 DEF Next, Listener, ReconnectLoop

\* While the gateway is open, the listener, reconnectLoop and the read loop take
\* turns with the connection.
LEMMA OpenStep ==
    ASSUME ~Overlaps, GatewayInv, Next PROVE OpenInv'
<1> USE DEF GatewayInv, credVars, connVars, mediaVars, wireVars, readerVars, stopVars, deathVars
<1>1. /\ opened \in Nat /\ \A s \in Sockets : s \in Nat /\ s # Nil
      /\ conn \in {Nil, opened} /\ ~crashed
      /\ \A k \in Sockets : Running(k) => k = opened
  BY DEF TypeOK, ReaderInv, SocketOrNil, Sockets, Nil, Next
<1>2. SUFFICES ASSUME ~closed' PROVE OpenInv'
  BY DEF OpenInv
<1>3. ~closed
  <2>1. CASE Stop \/ StopGoesOn
    BY <1>2, <2>1 DEF Stop, StopGoesOn, StopBeats, StopConn, StopWait, StopPeer, Stopping, StopInv
  <2>2. CASE ~(Stop \/ StopGoesOn)
    <3>1. ASSUME NEW k \in Sockets, ReadLoop(k) \/ Receive(k) \/ WireFails(k)
          PROVE closed' = closed
      BY <3>1 DEF ReadLoop, Receive, ReadLoopStarts, ReadNext, OnHello, OnReady, OnAck,
          ReadFails, DropHeartbeat, DropConn, ResetPeer, Decide, WireFails
    <3>2. ASSUME Listener \/ ReconnectLoop PROVE closed' = closed
      BY <3>2 DEF Listener, TryConnect, ListenerDials, ReconnectLoop, CheckClosed, RedialFails,
          Redial, ReconnectDone, Reconnect
    <3>3. ASSUME NEW what \in Credentials, SetCredential(what) PROVE closed' = closed
      BY <3>3 DEF SetCredential
    <3>4. closed' = closed
      BY <2>2, <3>1, <3>2, <3>3 DEF Next
    <3>5. QED
      BY <1>2, <3>4
  <2>3. QED
    BY <2>1, <2>2
<1>4. ~Stop /\ ~StopGoesOn
  BY <1>2, <1>3 DEF Stop, StopGoesOn, StopBeats, StopConn, StopWait, StopPeer, Stopping, StopInv
<1>5. ASSUME NEW what \in Credentials, SetCredential(what) PROVE OpenInv'
  <2>1. /\ Quiet /\ lpc' \in {"idle", "try"} /\ UNCHANGED <<rc, rpc, conn, wire>>
        /\ lpc' # "idle" => shut' = shut
    BY <1>5 DEF SetCredential
  <2>2. QED
    BY <1>3, <2>1 DEF OpenInv, Quiet, Works, Running
<1>6. CASE TryConnect
  <2>1. /\ lpc = "try" /\ lpc' \in {"idle", "dial"} /\ (lpc' = "dial" => conn = Nil)
        /\ UNCHANGED <<rc, rpc, conn, wire, shut>>
    BY <1>6 DEF TryConnect
  <2>2. QED
    BY <1>3, <2>1 DEF OpenInv, Works, Running
<1>7. CASE (ListenerDials \/ Redial) /\ Install
  <2>1. conn = Nil /\ \A k \in Sockets : ~Running(k)
    BY <1>7, InstalledAlone
  <2>2. opened + 1 \in Sockets /\ opened + 1 > opened
    BY <1>1, <1>7 DEF Install, Sockets
  <2>3. conn' = opened + 1 /\ rpc' = [rpc EXCEPT ![opened + 1] = "start"] /\ shut' = shut
    BY <1>7 DEF Install
  <2>4. wire' = wire
    BY <1>7 DEF ListenerDials, Redial, Reconnect
  <2>5. Works(conn)'
    BY <2>2, <2>3, <2>4 DEF FreshInv, Works
  <2>6. lpc' = "idle" /\ rc' \in {"off", "store"}
    <3>1. CASE ListenerDials
      BY <1>3, <3>1 DEF ListenerDials, OpenInv
    <3>2. CASE Redial
      BY <1>3, <3>2 DEF Redial, Reconnect, OpenInv, TypeOK
    <3>3. QED
      BY <1>7, <3>1, <3>2
  <2>7. \A k \in Sockets : (Running(k) \/ rpc[k] \in Dropping)' =>
            k = opened + 1 /\ rpc'[k] = "start"
    BY <2>1, <2>2, <2>3 DEF Running, TypeOK, Dropping
  <2>8. QED
    BY <2>3, <2>5, <2>6, <2>7 DEF OpenInv, Dropping
<1>8. CASE ListenerDials /\ DialFails
  <2>1. lpc' = "idle" /\ UNCHANGED <<rc, rpc, conn, wire, shut>>
    BY <1>8 DEF ListenerDials, DialFails
  <2>2. QED
    BY <1>3, <2>1 DEF OpenInv, Works, Running
<1>9. CASE CheckClosed \/ RedialFails \/ ReconnectDone
  <2>1. /\ rc # "off"
        /\ rc' \in {"check", "sleep", "dial"} => rc \in {"check", "sleep", "dial"}
        /\ UNCHANGED <<lpc, rpc, conn, wire, shut>>
    BY <1>9 DEF CheckClosed, RedialFails, ReconnectDone, Reconnect, DialFails
  <2>2. QED
    BY <1>3, <2>1 DEF OpenInv, Works, Running
<1>10. ASSUME NEW k \in Sockets, ReadLoop(k) \/ Receive(k) PROVE OpenInv'
  <2>1. /\ UNCHANGED <<wire, lpc>> /\ rpc[k] \notin {"none", "gone"}
        /\ rpc' = [rpc EXCEPT ![k] = rpc'[k]]
    BY <1>10 DEF ReadLoop, Receive, Reader, ReadLoopStarts, ReadNext, OnHello, OnReady, OnAck,
                ReadFails, DropHeartbeat, DropConn, ResetPeer, Decide, TypeOK
  <2>2. k = opened /\ Running(k)
    BY <1>1, <2>1 DEF Running
  <2>3. \A j \in Sockets : (Running(j) \/ Running(j)') => j = k
    BY <1>1, <2>1, <2>2 DEF TypeOK, Running
  <2>4. conn = (IF rpc[k] \in {"reset", "decide"} THEN Nil ELSE k)
    BY <1>3, <2>2 DEF OpenInv
  <2>5. CASE ~Decide(k) /\ ~DropConn(k) /\ ~ReadFails(k)
    <3>1. /\ UNCHANGED <<conn, shut, rc>>
          /\ (rpc[k] \in Dropping <=> rpc'[k] \in Dropping)
          /\ (rpc[k] \in {"reset", "decide"} <=> rpc'[k] \in {"reset", "decide"})
      BY <1>10, <2>5 DEF ReadLoop, Receive, Reader, ReadLoopStarts, ReadNext, OnHello, OnReady,
            OnAck, DropHeartbeat, ResetPeer, TypeOK, Dropping
    <3>2. \A j \in Sockets : rpc'[j] \in Dropping => rpc[j] \in Dropping
      BY <2>1, <3>1 DEF TypeOK
    <3>3. \A j \in Sockets : Running(j)' => Running(j)
      BY <2>2, <2>3
    <3>4. QED
      BY <1>3, <2>1, <2>2, <2>3, <2>4, <3>1, <3>2, <3>3 DEF OpenInv, Works, Running
  <2>6. CASE ReadFails(k)
    <3>1. /\ UNCHANGED <<conn, shut, rc>> /\ rpc[k] = "reading" /\ rpc'[k] = "drop"
          /\ rsock[k] # Nil /\ ~Works(rsock[k])
      BY <2>6 DEF ReadFails, Reader, TypeOK
    <3>2. ~Works(conn) /\ conn # Nil
      BY <1>1, <2>2, <2>4, <3>1 DEF ReaderInv
    <3>3. lpc = "idle" /\ rc = "off"
      BY <1>3, <3>2 DEF OpenInv, TypeOK
    <3>4. QED
      BY <1>1, <2>1, <2>2, <2>3, <2>4, <3>1, <3>3 DEF OpenInv
  <2>7. CASE DropConn(k)
    <3>1. /\ conn' = Nil /\ UNCHANGED rc /\ rpc[k] = "detach" /\ rpc'[k] = "reset"
      BY <2>7 DEF DropConn, Detached, Reader, TypeOK
    <3>2. rc = "off" /\ lpc = "idle"
      BY <1>3, <3>1 DEF OpenInv, Dropping
    <3>3. QED
      BY <2>1, <2>3, <3>1, <3>2 DEF OpenInv
  <2>8. CASE Decide(k)
    <3>1. /\ UNCHANGED conn /\ rpc[k] = "decide" /\ rpc'[k] = "gone"
      BY <2>8 DEF Decide, Reader, TypeOK
    <3>2. rc = "off" /\ lpc = "idle" /\ conn = Nil
      BY <1>3, <2>4, <3>1 DEF OpenInv, Dropping
    <3>3. \A j \in Sockets : ~Running(j)'
      BY <2>3, <3>1 DEF Running
    <3>4. \A j \in Sockets : rpc'[j] \notin Dropping
      BY <3>3 DEF Running, Dropping
    <3>5. QED
      BY <2>1, <3>1, <3>2, <3>3, <3>4 DEF OpenInv
  <2>9. QED
    BY <2>5, <2>6, <2>7, <2>8
<1>11. ASSUME NEW s \in Sockets, WireFails(s) PROVE OpenInv'
  <2>1. lpc = "idle" /\ rc = "off" /\ UNCHANGED <<lpc, rc, rpc, conn>>
    BY <1>11 DEF WireFails
  <2>2. QED
    BY <1>3, <2>1 DEF OpenInv, Running
<1>12. QED
  BY <1>4, <1>5, <1>6, <1>7, <1>8, <1>9, <1>10, <1>11
  DEF Next, Listener, ReconnectLoop, ListenerDials, Redial

\* The peer and the heartbeat belong to the read loop that will take them down.
LEMMA MediaStep ==
    ASSUME GatewayInv, Next PROVE MediaInv'
<1> USE DEF GatewayInv, credVars, connVars, mediaVars, wireVars, readerVars, stopVars, deathVars
<1>1. /\ opened \in Nat /\ \A s \in Sockets : s \in Nat /\ s # Nil
      /\ heartbeat \in Sockets \cup {Nil} /\ peer \in Sockets \cup {Nil}
      /\ \A k \in Sockets : Running(k) => k = opened
  BY DEF TypeOK, ReaderInv, SocketOrNil, Sockets, Nil
<1>2. CASE Install /\ UNCHANGED mediaVars
  <2>1. opened + 1 \in Sockets /\ rpc[opened + 1] = "none"
    BY <1>1, <1>2 DEF Install, FreshInv, Sockets
  <2>2. rpc' = [rpc EXCEPT ![opened + 1] = "start"]
    BY <1>2 DEF Install
  <2>3. \A k \in Sockets : rpc[k] # "none" => rpc'[k] = rpc[k]
    BY <2>1, <2>2 DEF TypeOK
  <2>4. QED
    BY <1>1, <1>2, <2>3 DEF MediaInv, HoldsMedia, Handlers
<1>3. ASSUME UNCHANGED rpc, heartbeat' \in {Nil, heartbeat}, peer' \in {Nil, peer},
             livePeers' \subseteq livePeers, livePeers' \subseteq {peer'}
      PROVE  MediaInv'
  BY <1>1, <1>3 DEF MediaInv
<1>4. livePeers \subseteq {peer} /\ livePeers \ {peer} = {}
  BY DEF MediaInv
<1>5. ASSUME NEW what \in Credentials, SetCredential(what) PROVE MediaInv'
  BY <1>3, <1>4, <1>5 DEF SetCredential
<1>6. CASE TryConnect \/ CheckClosed \/ RedialFails \/ ReconnectDone
  BY <1>3, <1>4, <1>6 DEF TryConnect, CheckClosed, RedialFails, ReconnectDone, Reconnect, DialFails
<1>7. CASE ListenerDials \/ Redial
  BY <1>2, <1>3, <1>4, <1>7 DEF ListenerDials, Redial, Reconnect, DialFails
<1>8. CASE Stop \/ StopGoesOn
  BY <1>3, <1>4, <1>8 DEF StopGoesOn, Stop, StopBeats, StopConn, StopWait, StopPeer,
                    Stopping, StopHeartbeat
<1>9. ASSUME NEW k \in Sockets, ReadLoop(k) \/ Receive(k) PROVE MediaInv'
  <2>1. rpc[k] \notin {"none", "gone"} /\ rpc' = [rpc EXCEPT ![k] = rpc'[k]]
    BY <1>9 DEF ReadLoop, Receive, Reader, ReadLoopStarts, ReadNext, OnHello, OnReady, OnAck,
                ReadFails, DropHeartbeat, DropConn, ResetPeer, Decide, TypeOK
  <2>2. \A j \in Sockets : Running(j) => j = k
    BY <1>1, <2>1 DEF Running
  <2>3. heartbeat \in {Nil, k} /\ peer \in {Nil, k}
    BY <1>1, <2>2 DEF MediaInv, HoldsMedia, Handlers, Running
  <2> USE DEF Reader, TypeOK, Handlers, HoldsMedia
  <2>4. CASE ReadLoopStarts(k) \/ ReadNext(k) \/ OnAck(k) \/ ReadFails(k) \/ Receive(k)
    <3>1. /\ UNCHANGED mediaVars
          /\ rpc[k] \in HoldsMedia => rpc'[k] \in HoldsMedia
          /\ rpc[k] \notin {"detach", "reset"}
      BY <2>4 DEF ReadLoopStarts, ReadNext, OnAck, ReadFails, Receive
    <3>2. QED
      BY <2>3, <3>1 DEF MediaInv
  <2>5. CASE OnHello(k)
    BY <2>3, <2>5 DEF OnHello, MediaInv
  <2>6. CASE OnReady(k)
    <3>1. /\ UNCHANGED heartbeat /\ rpc'[k] = "loop"
          /\ \/ peer' = peer /\ livePeers' = livePeers
             \/ peer' = k /\ livePeers' = livePeers \cup {k}
      BY <2>6 DEF OnReady
    <3>2. QED
      BY <1>1, <2>3, <3>1 DEF MediaInv
  <2>7. CASE DropHeartbeat(k) \/ DropConn(k)
    <3>1. /\ UNCHANGED <<peer, livePeers>> /\ rpc'[k] \in {"detach", "reset"}
          /\ heartbeat' = Nil \/ (heartbeat' = heartbeat /\ rpc[k] = "detach")
      BY <2>7 DEF DropHeartbeat, DropConn, StopHeartbeat
    <3>2. QED
      BY <2>3, <3>1 DEF MediaInv
  <2>8. CASE ResetPeer(k) \/ Decide(k)
    <3>1. /\ UNCHANGED heartbeat /\ rpc[k] \in {"reset", "decide"}
          /\ \/ peer' = Nil /\ livePeers' = livePeers \ {peer}
             \/ UNCHANGED <<peer, livePeers>> /\ rpc[k] = "decide"
      BY <2>8 DEF ResetPeer, Decide
    <3>2. heartbeat = Nil /\ (rpc[k] = "decide" => peer = Nil)
      BY <1>1, <2>3, <3>1 DEF MediaInv
    <3>3. QED
      BY <1>1, <1>4, <2>3, <3>1, <3>2 DEF MediaInv
  <2>9. QED
    BY <1>9, <2>4, <2>5, <2>6, <2>7, <2>8 DEF ReadLoop
<1>10. ASSUME NEW s \in Sockets, WireFails(s) PROVE MediaInv'
  BY <1>3, <1>4, <1>10 DEF WireFails
<1>11. QED
  BY <1>5, <1>6, <1>7, <1>8, <1>9, <1>10 DEF Next, Listener, ReconnectLoop

\* Once stop has taken the connection away no other comes, and it goes on only
\* when the read loop is gone.
LEMMA StopStep ==
    ASSUME GatewayInv, Next PROVE StopInv'
<1> USE DEF GatewayInv, credVars, connVars, mediaVars, wireVars, readerVars, stopVars, deathVars
<1>1. /\ opened \in Nat /\ \A s \in Sockets : s \in Nat /\ s # Nil
      /\ \A k \in Sockets : Running(k) => k = opened
      /\ conn = Nil \/ conn = opened
      /\ readDone = opened /\ ~crashed
  BY DEF TypeOK, ReaderInv, SocketOrNil, Sockets, Nil, Next
<1>2. ASSUME spc \in {"wait"}, ReadDoneOrTimeout, NEW k \in Sockets, Running(k) PROVE FALSE
  <2>1. k = opened /\ k \notin closedDone /\ sdone = k /\ conn = Nil
    BY <1>1, <1>2 DEF ReaderInv, StopInv
  <2>2. rpc[k] = "reading" /\ Works(rsock[k])
    BY <1>2, <2>1 DEF ReadDoneOrTimeout
  <2>3. rsock[k] = k
    BY <1>1, <1>2, <2>2 DEF ReaderInv
  <2>4. k \in shut
    BY <1>1, <2>1 DEF OneSocket
  <2>5. QED
    BY <2>2, <2>3, <2>4 DEF Works
<1>3. CASE Stop \/ StopGoesOn
  <2>1. CASE Stop
    BY <2>1 DEF Stop, Stopping, StopInv
  <2>2. CASE StopBeats
    BY <2>2 DEF StopBeats, Stopping, StopInv
  <2>3. CASE StopConn
    BY <2>3 DEF StopConn, Stopping, StopInv, Detached
  <2>4. CASE StopWait
    <3>1. \A k \in Sockets : ~Running(k)
      BY <1>2, <2>4 DEF StopWait, Stopping
    <3>2. QED
      BY <2>4, <3>1 DEF StopWait, Stopping, StopInv, Running
  <2>5. CASE StopPeer
    BY <2>5 DEF StopPeer, Stopping, StopInv, Running
  <2>6. QED
    BY <1>3, <2>1, <2>2, <2>3, <2>4, <2>5 DEF StopGoesOn
<1>4. ASSUME UNCHANGED <<spc, sdone, closed>>,
             closed => /\ UNCHANGED readDone /\ conn' \in {Nil, conn}
                       /\ \A k \in Sockets : Running(k)' => Running(k)
      PROVE  StopInv'
  BY <1>4 DEF StopInv
<1>5. ASSUME NEW what \in Credentials, SetCredential(what) PROVE StopInv'
  BY <1>4, <1>5 DEF SetCredential, Running
<1>6. CASE TryConnect \/ CheckClosed \/ RedialFails \/ ReconnectDone
  BY <1>4, <1>6 DEF TryConnect, CheckClosed, RedialFails, ReconnectDone, Reconnect,
                    DialFails, Running
<1>7. CASE ListenerDials \/ Redial
  <2>1. UNCHANGED <<spc, sdone, closed>> /\ (closed => DialFails)
    BY <1>7 DEF ListenerDials, Redial, Reconnect, Install
  <2>2. QED
    BY <1>4, <2>1 DEF DialFails, Running
<1>8. ASSUME NEW k \in Sockets, ReadLoop(k) \/ Receive(k) PROVE StopInv'
  <2>1. /\ UNCHANGED <<spc, sdone, closed, readDone>> /\ conn' \in {Nil, conn}
        /\ rpc[k] \notin {"none", "gone"} /\ rpc' = [rpc EXCEPT ![k] = rpc'[k]]
    BY <1>8 DEF ReadLoop, Receive, Reader, ReadLoopStarts, ReadNext, OnHello, OnReady, OnAck,
                ReadFails, DropHeartbeat, DropConn, ResetPeer, Decide, Detached, TypeOK
  <2>2. \A j \in Sockets : Running(j)' => Running(j)
    BY <2>1 DEF Running, TypeOK
  <2>3. QED
    BY <1>4, <2>1, <2>2
<1>9. ASSUME NEW s \in Sockets, WireFails(s) PROVE StopInv'
  BY <1>4, <1>9 DEF WireFails, Running
<1>10. QED
  BY <1>3, <1>5, <1>6, <1>7, <1>8, <1>9 DEF Next, Listener, ReconnectLoop

\* A read loop that panics has been stopped between two reads.
LEMMA CrashStep ==
    ASSUME GatewayInv, Next PROVE OnlyStopCrashes'
<1> USE DEF GatewayInv, credVars, connVars, mediaVars, wireVars, readerVars, stopVars, deathVars
<1>1. ~crashed
  BY DEF Next
<1>2. ASSUME UNCHANGED crashed PROVE OnlyStopCrashes'
  BY <1>1, <1>2 DEF OnlyStopCrashes
<1>3. ASSUME NEW k \in Sockets, ReadNext(k) PROVE OnlyStopCrashes'
  <2>1. rpc'[k] = "reading" /\ rsock'[k] = conn /\ closed' = closed /\ crashed' = (conn = Nil)
    BY <1>3 DEF ReadNext, Reader, TypeOK
  <2>2. conn = Nil => closed
    BY <1>3 DEF ReadNext, Reader, OpenInv, Running, Sockets, Nil
  <2>3. QED
    BY <2>1, <2>2 DEF OnlyStopCrashes
<1>4. ASSUME NEW k \in Sockets, Decide(k) PROVE OnlyStopCrashes'
  <2>1. rdone[k] = k /\ k \notin closedDone
    BY <1>4 DEF Decide, Reader, Running, ReaderInv
  <2>2. crashed' = (rdone[k] \in closedDone)
    BY <1>4 DEF Decide
  <2>3. ~crashed'
    BY <2>1, <2>2, Zenon
  <2>4. QED
    BY <2>3 DEF OnlyStopCrashes
<1>5. ASSUME NEW k \in Sockets, ReadLoop(k) \/ Receive(k) \/ WireFails(k), ~ReadNext(k), ~Decide(k)
      PROVE  UNCHANGED crashed
  BY <1>5 DEF ReadLoop, Receive, ReadLoopStarts, OnHello, OnReady, OnAck,
        ReadFails, DropHeartbeat, DropConn, ResetPeer, WireFails
<1>6. ASSUME Listener \/ ReconnectLoop \/ Stop \/ StopGoesOn PROVE UNCHANGED crashed
  BY <1>6 DEF Listener, TryConnect, ListenerDials, ReconnectLoop, CheckClosed, RedialFails,
        Redial, ReconnectDone, Reconnect, Stop, StopGoesOn, StopBeats, StopConn, StopWait,
        StopPeer, Stopping
<1>7. ASSUME NEW what \in Credentials, SetCredential(what) PROVE UNCHANGED crashed
  BY <1>7 DEF SetCredential
<1>8. QED
  BY <1>2, <1>3, <1>4, <1>5, <1>6, <1>7 DEF Next

------------------------------------------------------------------------------
(* The theorems *)

\* The inductive invariant holds when nothing arrives during a change of the
\* connection.
THEOREM GatewayInductive == ASSUME ~Overlaps PROVE Spec => []GatewayInv
<1>1. Init => GatewayInv
  <2> SUFFICES ASSUME Init PROVE GatewayInv
    OBVIOUS
  <2> USE DEF Init
  <2>1. FreshInv /\ ReaderInv /\ OneSocket
    BY DEF FreshInv, ReaderInv, OneSocket, Works, Running, Sockets, Nil
  <2>2. OpenInv /\ MediaInv /\ StopInv /\ OnlyStopCrashes
    BY DEF OpenInv, MediaInv, StopInv, OnlyStopCrashes, Running, Dropping
  <2>3. QED
    BY <2>1, <2>2, InitTyped DEF GatewayInv
<1>2. GatewayInv /\ [Next]_vars => GatewayInv'
  <2> SUFFICES ASSUME GatewayInv, [Next]_vars PROVE GatewayInv'
    OBVIOUS
  <2>1. CASE Next
    <3>1. TypeOK'
      BY <2>1, StepTyped DEF GatewayInv
    <3>2. QED
      BY <2>1, <3>1, FreshStep, ReaderStep, OneSocketStep, OpenStep, MediaStep, StopStep, CrashStep
      DEF GatewayInv
  <2>2. CASE UNCHANGED vars
    BY <2>2 DEF vars, credVars, connVars, mediaVars, wireVars, readerVars, stopVars, deathVars,
        GatewayInv, TypeOK, FreshInv, ReaderInv, OpenInv, OneSocket, MediaInv, StopInv,
        OnlyStopCrashes, Works, Running
  <2>3. QED
    BY <2>1, <2>2
<1>3. QED
  BY <1>1, <1>2, PTL DEF Spec

\* The safety properties of the gateway follow from the invariant.
LEMMA GatewayInvSuffices ==
    ASSUME GatewayInv
    PROVE  PeerGoesWithItsSocket /\ HeartbeatHasReader /\ StoppedIsClosed
<1> USE DEF GatewayInv
<1>1. /\ peer \in Sockets \cup {Nil} /\ heartbeat \in Sockets \cup {Nil}
      /\ opened \in Sockets \cup {Nil} /\ \A s \in 1..opened : s \in Sockets
  BY DEF TypeOK, SocketOrNil, Sockets, Nil
<1>2. PeerGoesWithItsSocket
  BY DEF PeerGoesWithItsSocket, MediaInv, HoldsMedia, Handlers
<1>3. HeartbeatHasReader
  BY DEF HeartbeatHasReader, MediaInv, HoldsMedia, Handlers
<1>4. ASSUME spc = "done" PROVE StoppedIsClosed
  <2>1. conn = Nil /\ \A k \in Sockets : ~Running(k)
    BY <1>4 DEF StopInv
  <2>2. peer = Nil /\ heartbeat = Nil
    BY <1>1, <2>1 DEF MediaInv, HoldsMedia, Handlers, Running
  <2>3. \A s \in 1..opened : s \in Sockets /\ s <= opened /\ s # Nil
    BY <1>1 DEF TypeOK, SocketOrNil, Sockets, Nil
  <2>4. \A s \in 1..opened : s \in shut
    BY <2>1, <2>3 DEF OneSocket
  <2>5. QED
    BY <2>1, <2>2, <2>4 DEF StoppedIsClosed, MediaInv
<1>5. QED
  BY <1>2, <1>3, <1>4 DEF StoppedIsClosed

\* However often the connection is dropped, replaced and stopped, no socket but
\* the one in the gateway is open, and a stop leaves nothing behind.
THEOREM GatewayLeaksNothing ==
    ASSUME ~Overlaps PROVE Spec => [](OneSocket /\ StoppedIsClosed)
<1>1. GatewayInv => OneSocket /\ StoppedIsClosed
  BY GatewayInvSuffices DEF GatewayInv
<1>2. QED
  BY <1>1, GatewayInductive, PTL

\* Peers end with the connection they belong to.
THEOREM GatewayPeerEnds ==
    ASSUME ~Overlaps PROVE Spec => []PeerGoesWithItsSocket
<1>1. GatewayInv => PeerGoesWithItsSocket
  BY GatewayInvSuffices
<1>2. QED
  BY <1>1, GatewayInductive, PTL

\* What a connection consists of begins and ends with it, and a stop leaves none of it.
THEOREM GatewayConnections ==
    ASSUME ~Overlaps PROVE Spec => []ConnectionIsWhole
<1>1. GatewayInv => ConnectionIsWhole
  BY GatewayInvSuffices DEF GatewayInv, ConnectionIsWhole
<1>2. QED
  BY <1>1, GatewayInductive, PTL

\* A read loop never closes its channel twice, and reads a nil connection only
\* after a stop.
THEOREM GatewayCrash == ASSUME ~Overlaps PROVE Spec => []OnlyStopCrashes
<1>1. GatewayInv => OnlyStopCrashes
  BY DEF GatewayInv
<1>2. QED
  BY <1>1, GatewayInductive, PTL

\* What the heartbeat needs of the other goroutines.
HeartInv ==
    /\ \A s \in Sockets : s > opened => rpc[s] = "none"
    /\ heartbeat # Nil => rpc[heartbeat] \in HoldsMedia

\* A heartbeat ends with the read loop of its connection, whatever credentials
\* and losses arrive when: handleDisconnect stops it before it does anything else.
THEOREM HeartbeatEnds == Spec => []HeartbeatHasReader
<1>1. Init => HeartInv
  BY DEF Init, HeartInv, Sockets, Nil
<1>2. TypeOK /\ HeartInv /\ [Next]_vars => HeartInv'
  <2> SUFFICES ASSUME TypeOK, HeartInv, [Next]_vars PROVE HeartInv'
    OBVIOUS
  <2> USE DEF credVars, connVars, mediaVars, wireVars, readerVars, stopVars, deathVars
  <2>1. /\ opened \in Nat /\ \A s \in Sockets : s \in Nat /\ s # Nil
        /\ heartbeat \in Sockets \cup {Nil}
    BY DEF TypeOK, SocketOrNil, Sockets, Nil
  <2>2. ASSUME UNCHANGED <<opened, rpc>>, heartbeat' \in {Nil, heartbeat} PROVE HeartInv'
    BY <2>1, <2>2 DEF HeartInv
  <2>3. CASE Install /\ UNCHANGED heartbeat
    <3>1. opened + 1 \in Sockets /\ rpc[opened + 1] = "none"
      BY <2>1, <2>3 DEF Install, HeartInv, Sockets
    <3>2. rpc' = [rpc EXCEPT ![opened + 1] = "start"] /\ opened' = opened + 1
      BY <2>3 DEF Install
    <3>3. QED
      BY <2>1, <2>3, <3>1, <3>2 DEF HeartInv, HoldsMedia, Handlers, TypeOK
  <2>4. ASSUME NEW what \in Credentials, SetCredential(what) PROVE HeartInv'
    BY <2>2, <2>4 DEF SetCredential
  <2>5. CASE TryConnect \/ CheckClosed \/ RedialFails \/ ReconnectDone
    BY <2>2, <2>5 DEF TryConnect, CheckClosed, RedialFails, ReconnectDone, Reconnect, DialFails
  <2>6. CASE ListenerDials \/ Redial
    BY <2>2, <2>3, <2>6 DEF ListenerDials, Redial, Reconnect, DialFails
  <2>7. CASE Stop \/ StopGoesOn
    BY <2>2, <2>7 DEF StopGoesOn, Stop, StopBeats, StopConn, StopWait, StopPeer, Stopping,
                      StopHeartbeat, Detached
  <2>8. ASSUME NEW k \in Sockets, ReadLoop(k) \/ Receive(k) PROVE HeartInv'
    <3>1. /\ UNCHANGED opened /\ rpc[k] \notin {"none", "gone"}
          /\ rpc' = [rpc EXCEPT ![k] = rpc'[k]]
      BY <2>8 DEF ReadLoop, Receive, Reader, ReadLoopStarts, ReadNext, OnHello, OnReady, OnAck,
                  ReadFails, DropHeartbeat, DropConn, ResetPeer, Decide, Detached, TypeOK
    <3>2. \A s \in Sockets : s > opened => rpc'[s] = "none"
      BY <3>1 DEF HeartInv, TypeOK
    <3>3. \/ heartbeat' = Nil
          \/ heartbeat' = k /\ rpc'[k] = "loop"
          \/ heartbeat' = heartbeat /\ (rpc[k] \in HoldsMedia => rpc'[k] \in HoldsMedia)
      BY <2>8 DEF ReadLoop, Receive, Reader, ReadLoopStarts, ReadNext, OnHello, OnReady, OnAck,
                  ReadFails, DropHeartbeat, DropConn, ResetPeer, Decide, StopHeartbeat,
                  TypeOK, HoldsMedia, Handlers
    <3>4. QED
      BY <2>1, <3>1, <3>2, <3>3 DEF HeartInv, HoldsMedia, TypeOK
  <2>9. ASSUME NEW s \in Sockets, WireFails(s) PROVE HeartInv'
    BY <2>2, <2>9 DEF WireFails
  <2>10. CASE UNCHANGED vars
    BY <2>2, <2>10 DEF vars
  <2>11. QED
    BY <2>4, <2>5, <2>6, <2>7, <2>8, <2>9, <2>10 DEF Next, Listener, ReconnectLoop
<1>3. HeartInv => HeartbeatHasReader
  BY DEF HeartInv, HeartbeatHasReader, HoldsMedia, Handlers
<1>4. QED
  BY <1>1, <1>2, <1>3, GatewayTypeCorrect, PTL DEF Spec

------------------------------------------------------------------------------
(* Queues of events: what removing an element, wherever it is, and adding some at the end
   leave true. *)

EventTypes == {"voiceState", "voiceServer", "left", "streamCreate", "streamServer"}
Events == [type : EventTypes, of : Nat]
StreamEvents == {"streamCreate", "streamServer"}
VoiceEvents == {"voiceServer", "left"}

\* The events of these types belong to connections up to n; to connection n alone.
UpTo(q, types, n) == \A i \in 1..Len(q) : q[i].type \in types => q[i].of <= n
OnlyOf(q, types, n) == \A i \in 1..Len(q) : q[i].type \in types => q[i].of = n

\* Behind an event of connection n there is none of an earlier connection.
InOrder(q, first, types, n) ==
    \A i, j \in 1..Len(q) :
       i < j /\ q[i].type \in first /\ q[i].of = n /\ q[j].type \in types => q[j].of = n

Holds(q, e) == \E i \in 1..Len(q) : q[i] = e

\* r is q without its element k.
Without(q, r, k) ==
    /\ r \in Seq(Events) /\ Len(r) = Len(q) - 1
    /\ \A i \in 1..Len(r) : r[i] = IF i < k THEN q[i] ELSE q[i + 1]

\* Taking the first event of a queue.
LEMMA HeadTaken ==
    ASSUME NEW q \in Seq(Events), q # <<>>
    PROVE  /\ Without(q, Tail(q), 1) /\ 1 \in 1..Len(q) /\ Head(q) = q[1]
           /\ Head(q) \in Events
<1>1. Len(q) \in Nat /\ Len(q) > 0 /\ \A i \in 1..Len(q) : q[i] \in Events
  BY EmptySeq, LenProperties, ElementOfSeq
<1>2. Tail(q) \in Seq(Events) /\ Len(Tail(q)) = Len(q) - 1
  BY HeadTailProperties
<1>3. \A i \in 1..Len(Tail(q)) : Tail(q)[i] = q[i + 1]
  BY HeadTailProperties
<1> QED BY <1>1, <1>2, <1>3 DEF Without

\* Removing any event.
LEMMA AnyTaken ==
    ASSUME NEW q \in Seq(Events), NEW k \in 1..Len(q)
    PROVE  Without(q, V!RemoveAt(q, k), k) /\ q[k] \in Events
<1> DEFINE left == SubSeq(q, 1, k - 1)
           right == SubSeq(q, k + 1, Len(q))
<1>1. Len(q) \in Nat /\ \A i \in 1..Len(q) : q[i] \in Events BY LenProperties, ElementOfSeq
<1>2. left \in Seq(Events) /\ Len(left) = k - 1 /\ \A i \in 1..(k - 1) : left[i] = q[i]
  BY <1>1, SubSeqProperties
<1>3. /\ right \in Seq(Events) /\ Len(right) = Len(q) - k
      /\ \A i \in 1..(Len(q) - k) : right[i] = q[i + k]
  BY <1>1, SubSeqProperties
<1> HIDE DEF left, right
<1>4. /\ left \o right \in Seq(Events) /\ Len(left \o right) = Len(q) - 1
      /\ \A i \in 1..(Len(q) - 1) : (left \o right)[i] = IF i <= k - 1 THEN left[i]
                                                        ELSE right[i - (k - 1)]
  BY <1>1, <1>2, <1>3, ConcatProperties
<1>5. \A i \in 1..(Len(q) - 1) : (left \o right)[i] = IF i < k THEN q[i] ELSE q[i + 1]
  <2> SUFFICES ASSUME NEW i \in 1..(Len(q) - 1)
               PROVE  (left \o right)[i] = IF i < k THEN q[i] ELSE q[i + 1]
    OBVIOUS
  <2>1. CASE i < k
    <3>1. i \in 1..(k - 1) /\ i <= k - 1 BY <1>1, <2>1
    <3> QED BY <1>2, <1>4, <2>1, <3>1
  <2>2. CASE i >= k
    <3>1. i - (k - 1) \in 1..(Len(q) - k) /\ ~(i <= k - 1) /\ ~(i < k) BY <1>1, <2>2
    <3> DEFINE at == i - (k - 1)
    <3>2. at + k = i + 1 BY <1>1
    <3> HIDE DEF at
    <3>3. right[at] = q[i + 1] BY <1>3, <3>1, <3>2 DEF at
    <3>4. (left \o right)[i] = right[at] BY <1>1, <1>4, <3>1 DEF at
    <3> QED BY <1>1, <2>2, <3>3, <3>4
  <2>3. i < k \/ i >= k BY <1>1
  <2> QED BY <2>1, <2>2, <2>3
<1> QED BY <1>1, <1>4, <1>5 DEF Without, V!RemoveAt, left, right

\* Fewer events are still up to n, of n alone, in order; and only the one taken is missing.
LEMMA TakenKeeps ==
    ASSUME NEW q \in Seq(Events), NEW r, NEW k \in 1..Len(q), Without(q, r, k)
    PROVE  /\ \A types, n : UpTo(q, types, n) => UpTo(r, types, n)
           /\ \A types, n : OnlyOf(q, types, n) => OnlyOf(r, types, n)
           /\ \A first, types, n : InOrder(q, first, types, n) => InOrder(r, first, types, n)
           /\ \A e : Holds(q, e) => e = q[k] \/ Holds(r, e)
<1> DEFINE at(i) == IF i < k THEN i ELSE i + 1
<1>1. /\ Len(q) \in Nat /\ Len(r) = Len(q) - 1
      /\ \A i \in 1..Len(r) : at(i) \in 1..Len(q) /\ r[i] = q[at(i)]
  BY DEF Without
<1>2. \A i, j \in 1..Len(r) : i < j => at(i) < at(j) BY <1>1
<1>3. \A j \in 1..Len(q) : j # k => \E i \in 1..Len(r) : at(i) = j
  <2> SUFFICES ASSUME NEW j \in 1..Len(q), j # k PROVE \E i \in 1..Len(r) : at(i) = j
    OBVIOUS
  <2>1. CASE j < k
    <3>1. j \in 1..Len(r) /\ at(j) = j BY <1>1, <2>1
    <3> QED BY <3>1
  <2>2. CASE j > k
    <3>1. j - 1 \in 1..Len(r) /\ at(j - 1) = j BY <1>1, <2>2
    <3> QED BY <3>1
  <2> QED BY <2>1, <2>2
<1> HIDE DEF at
<1>4. ASSUME NEW types, NEW n, UpTo(q, types, n) PROVE UpTo(r, types, n)
  BY <1>1, <1>4 DEF UpTo
<1>5. ASSUME NEW types, NEW n, OnlyOf(q, types, n) PROVE OnlyOf(r, types, n)
  BY <1>1, <1>5 DEF OnlyOf
<1>6. ASSUME NEW first, NEW types, NEW n, InOrder(q, first, types, n)
      PROVE  InOrder(r, first, types, n)
  BY <1>1, <1>2, <1>6 DEF InOrder
<1>7. ASSUME NEW e, Holds(q, e), e # q[k] PROVE Holds(r, e)
  BY <1>1, <1>3, <1>7 DEF Holds
<1> QED BY <1>4, <1>5, <1>6, <1>7

\* What is left behind an event of connection n that was first is of connection n.
LEMMA BehindFirst ==
    ASSUME NEW q \in Seq(Events), q # <<>>, NEW first, NEW types, NEW n,
           InOrder(q, first, types, n), Head(q).type \in first, Head(q).of = n
    PROVE  OnlyOf(Tail(q), types, n)
<1>1. /\ Len(q) \in Nat /\ Len(Tail(q)) = Len(q) - 1 /\ q[1] = Head(q)
      /\ \A i \in 1..Len(Tail(q)) : Tail(q)[i] = q[i + 1]
  BY HeadTaken DEF Without
<1>2. \A i \in 1..Len(Tail(q)) : 1 \in 1..Len(q) /\ i + 1 \in 1..Len(q) /\ 1 < i + 1
  BY <1>1
<1> QED BY <1>1, <1>2 DEF InOrder, OnlyOf

\* r is q with one or two events of these types and of connection n at its end.
Extended(q, r, types, n) ==
    /\ r \in Seq(Events) /\ Len(r) \in {Len(q) + 1, Len(q) + 2}
    /\ \A i \in 1..Len(q) : r[i] = q[i]
    /\ \A i \in (Len(q) + 1)..Len(r) : r[i].of = n /\ r[i].type \in types

\* Discord's answers come behind what is on its way.
LEMMA EventAdded ==
    ASSUME NEW q \in Seq(Events), NEW n \in Nat, NEW type \in EventTypes
    PROVE  Extended(q, Append(q, V!Event(type, n)), {type}, n)
  BY DEF Extended, V!Event, Events

LEMMA EventsAdded ==
    ASSUME NEW q \in Seq(Events), NEW n \in Nat,
           NEW one \in EventTypes, NEW two \in EventTypes
    PROVE  LET r == q \o <<V!Event(one, n), V!Event(two, n)>>
           IN  /\ Extended(q, r, {one, two}, n)
               /\ Holds(r, V!Event(one, n)) /\ Holds(r, V!Event(two, n))
<1> DEFINE a == V!Event(one, n)
           b == V!Event(two, n)
           r == q \o <<a, b>>
<1>1. /\ a \in Events /\ a.of = n /\ a.type = one
      /\ b \in Events /\ b.of = n /\ b.type = two
  BY DEF V!Event, Events
<1> HIDE DEF a, b
<1>2. /\ r \in Seq(Events) /\ Len(q) \in Nat /\ Len(r) = Len(q) + 2
      /\ \A i \in 1..Len(q) : r[i] = q[i]
      /\ r[Len(q) + 1] = a /\ r[Len(q) + 2] = b
  BY <1>1
<1> HIDE DEF r
<1>3. Extended(q, r, {one, two}, n)
  <2>1. \A i \in (Len(q) + 1)..Len(r) : i = Len(q) + 1 \/ i = Len(q) + 2 BY <1>2
  <2> QED BY <1>1, <1>2, <2>1 DEF Extended
<1>4. Holds(r, a) /\ Holds(r, b)
  <2>1. Len(q) + 1 \in 1..Len(r) /\ Len(q) + 2 \in 1..Len(r) BY <1>2
  <2> QED BY <1>2, <2>1 DEF Holds
<1> QED BY <1>3, <1>4 DEF r, a, b

\* Events of connection n at the end change nothing that is said of n, and events of other
\* types nothing at all.
LEMMA AddedKeeps ==
    ASSUME NEW q \in Seq(Events), NEW r, NEW kinds, NEW n \in Nat, Extended(q, r, kinds, n)
    PROVE  /\ \A types, m : m = n \/ types \cap kinds = {} =>
                 /\ UpTo(q, types, m) => UpTo(r, types, m)
                 /\ OnlyOf(q, types, m) => OnlyOf(r, types, m)
           /\ \A first, types, m : m = n \/ types \cap kinds = {} =>
                 (InOrder(q, first, types, m) => InOrder(r, first, types, m))
           /\ \A e : Holds(q, e) => Holds(r, e)
<1>1. /\ Len(q) \in Nat /\ Len(r) \in Nat /\ Len(r) >= Len(q)
      /\ \A i \in 1..Len(r) : i \notin 1..Len(q) => r[i].of = n /\ r[i].type \in kinds
      /\ \A i \in 1..Len(q) : i \in 1..Len(r) /\ r[i] = q[i]
      /\ \A i, j \in 1..Len(r) : i < j /\ j \in 1..Len(q) => i \in 1..Len(q)
  BY DEF Extended
<1>2. ASSUME NEW types, NEW m, m = n \/ types \cap kinds = {}, UpTo(q, types, m)
      PROVE  UpTo(r, types, m)
  <2>1. \A i \in 1..Len(r) : i \notin 1..Len(q) /\ r[i].type \in types => r[i].of <= m
    BY <1>1, <1>2
  <2> QED BY <1>1, <1>2, <2>1 DEF UpTo
<1>3. ASSUME NEW types, NEW m, m = n \/ types \cap kinds = {}, OnlyOf(q, types, m)
      PROVE  OnlyOf(r, types, m)
  BY <1>1, <1>3 DEF OnlyOf
<1>4. ASSUME NEW first, NEW types, NEW m, m = n \/ types \cap kinds = {},
             InOrder(q, first, types, m)
      PROVE  InOrder(r, first, types, m)
  BY <1>1, <1>4 DEF InOrder
<1>5. ASSUME NEW e, Holds(q, e) PROVE Holds(r, e)
  BY <1>1, <1>5 DEF Holds
<1> QED BY <1>2, <1>3, <1>4, <1>5

\* A new connection has no event yet.
LEMMA NextConnection ==
    ASSUME NEW q \in Seq(Events), NEW types, NEW n \in Nat, UpTo(q, types, n)
    PROVE  /\ UpTo(q, types, n + 1)
           /\ \A first \in SUBSET types : InOrder(q, first, types, n + 1)
<1>1. /\ \A i \in 1..Len(q) : q[i] \in Events
      /\ \A e \in Events : e.of \in Nat
  BY ElementOfSeq DEF Events
<1> QED BY <1>1 DEF UpTo, InOrder

------------------------------------------------------------------------------
(* The voice and stream connections (StreamConnections) *)

\* A step of the sum is a step of the worker or leaves it alone.
LEMMA ConnectionSteps == ASSUME [SumNext]_allVars PROVE [V!Next]_V!vars
  BY DEF SumNext, allVars, vVars, V!vars, V!voiceVars, V!streamVars, V!eventVars

ConnectionsTyped ==
    /\ v_voice \in Nat /\ v_joins \in Nat /\ v_voiceToken \in Nat
    /\ v_stream \in Nat /\ v_streams \in Nat /\ v_rtcServerID \in Nat /\ v_token \in Nat
    /\ v_events \in Seq(Events)

\* Where the session's goroutine is while a stream connection is being created or plays, and
\* while its voice connection has been established.
Streaming == {"signal", "creating", "streaming"}
Joined == {"in"} \cup Streaming

\* When the goroutine is somewhere else, the stream connection that it has left behind is
\* one that failed.
OrphanInv ==
    /\ V!OnlyFailedIsOrphaned /\ 0 \notin v_running
    /\ v_pc \in {"out", "joining", "joined", "leave"} => v_stream = 0
    /\ v_pc \in {"in", "leave2", "leave3"} => v_stream = 0 \/ v_stream \in v_failed
    /\ v_pc \in Streaming => v_stream = v_streams /\ v_streams # 0

\* The worker is ready only with the token of its own voice connection, and that comes
\* behind the answer to the last LeaveVoice.
VoiceInv ==
    /\ UpTo(v_events, VoiceEvents, v_joins)
    /\ InOrder(v_events, {"voiceServer"}, VoiceEvents, v_joins)
    /\ v_voiceToken = v_joins => OnlyOf(v_events, VoiceEvents, v_joins)
    /\ v_pc \in {"joining", "joined", "leave", "leave2"} \cup Joined =>
          v_voice = v_joins /\ v_joins # 0
    /\ v_pc \in {"out", "leave3"} => v_voice = 0
    /\ v_pc \in {"joined"} \cup Joined => v_voiceToken = v_joins
    /\ v_callback => v_pc \in Joined

\* The event of the stream being created is on its way, being applied, applied or dropped.
Arrives(type, applied) ==
    \/ v_streams \in v_dropped \/ Holds(v_events, V!Event(type, v_streams))
    \/ v_listener = V!Event(type, v_streams) \/ applied = v_streams

\* Events of earlier streams are applied before, not after.
StreamInv ==
    /\ UpTo(v_events, StreamEvents, v_streams)
    /\ InOrder(v_events, StreamEvents, StreamEvents, v_streams)
    /\ v_listener # V!NoEvent =>
          /\ v_listener \in Events /\ v_listener.type \in StreamEvents
          /\ v_listener.of <= v_streams
          /\ v_listener.of = v_streams => OnlyOf(v_events, StreamEvents, v_streams)
    /\ v_rtcServerID = v_streams \/ v_token = v_streams =>
          /\ OnlyOf(v_events, StreamEvents, v_streams)
          /\ v_listener = V!NoEvent \/ v_listener.of = v_streams
    /\ v_pc = "creating" =>
          Arrives("streamCreate", v_rtcServerID) /\ Arrives("streamServer", v_token)

ConnectionsInv == ConnectionsTyped /\ OrphanInv /\ VoiceInv /\ StreamInv

\* The queue only loses its first event, or one that emit finds no place for.
LEMMA Taken ==
    ASSUME ConnectionsTyped,
           \/ V!Emit
           \/ V!OnVoiceStateUpdate \/ V!OnVoiceServerUpdate \/ V!OnStreamEvent
    PROVE  /\ v_events' \in Seq(Events)
           /\ \A types, n : UpTo(v_events, types, n) => UpTo(v_events', types, n)
           /\ \A types, n : OnlyOf(v_events, types, n) => OnlyOf(v_events', types, n)
           /\ \A first, types, n :
                 InOrder(v_events, first, types, n) => InOrder(v_events', first, types, n)
<1>1. \E k \in 1..Len(v_events) : Without(v_events, v_events', k)
  <2>1. CASE V!Emit
    <3>1. EventCap + 1 \in 1..Len(v_events)
      BY <2>1, ConnectionsAssumed DEF V!Emit, V!ConnectionsAssumption, ConnectionsTyped
    <3> QED BY <2>1, <3>1, AnyTaken DEF V!Emit, ConnectionsTyped
  <2>2. CASE V!OnVoiceStateUpdate \/ V!OnVoiceServerUpdate \/ V!OnStreamEvent
    BY <2>2, HeadTaken
    DEF V!OnVoiceStateUpdate, V!OnVoiceServerUpdate, V!OnStreamEvent, V!Handles,
        ConnectionsTyped
  <2> QED BY <2>1, <2>2
<1>2. PICK k \in 1..Len(v_events) : Without(v_events, v_events', k) BY <1>1
<1> QED BY <1>2, TakenKeeps DEF Without, ConnectionsTyped

\* emit drops an event, and notes it if it was of a stream.
LEMMA EmitKeepsInv == ASSUME ConnectionsInv, V!Emit PROVE ConnectionsInv'
<1> USE DEF ConnectionsInv, V!voiceVars, V!streamVars
<1>1. ConnectionsTyped' /\ OrphanInv'
  BY Taken DEF V!Emit, ConnectionsTyped, OrphanInv, V!OnlyFailedIsOrphaned
<1>2. VoiceInv'
  BY Taken DEF V!Emit, VoiceInv
<1>3. ASSUME NEW type \in StreamEvents, Holds(v_events, V!Event(type, v_streams))
      PROVE  v_streams \in v_dropped' \/ Holds(v_events', V!Event(type, v_streams))
  <2>1. EventCap + 1 \in 1..Len(v_events)
    BY ConnectionsAssumed DEF V!Emit, V!ConnectionsAssumption, ConnectionsTyped
  <2>2. \/ V!Event(type, v_streams) = v_events[EventCap + 1]
        \/ Holds(v_events', V!Event(type, v_streams))
    BY <1>3, <2>1, AnyTaken, TakenKeeps DEF V!Emit, ConnectionsTyped
  <2>3. CASE V!Event(type, v_streams) = v_events[EventCap + 1]
    BY <1>3, <2>3 DEF V!Emit, V!Event, StreamEvents
  <2> QED BY <2>2, <2>3
<1>4. v_dropped \subseteq v_dropped' BY DEF V!Emit
<1>5. StreamInv'
  <2>1. v_pc' = "creating" =>
           Arrives("streamCreate", v_rtcServerID)' /\ Arrives("streamServer", v_token)'
    BY <1>3, <1>4 DEF V!Emit, StreamInv, Arrives, StreamEvents
  <2> QED BY <2>1, Taken DEF V!Emit, StreamInv
<1> QED BY <1>1, <1>2, <1>5

\* The listener applies the events of voice in the order in which they came: what is behind
\* the token of a connection is of that connection.
LEMMA ListenKeepsVoice ==
    ASSUME ConnectionsInv, V!Listen PROVE VoiceInv'
<1> USE DEF ConnectionsInv, V!streamVars
<1>1. CASE V!OnVoiceStateUpdate
  BY <1>1, Taken DEF V!OnVoiceStateUpdate, VoiceInv
<1>2. CASE V!OnVoiceServerUpdate
  <2>1. /\ v_events # <<>> /\ Head(v_events).type = "voiceServer" /\ v_events' = Tail(v_events)
        /\ v_voiceToken' = IF v_voice = 0 THEN v_voiceToken ELSE Head(v_events).of
        /\ UNCHANGED <<v_pc, v_voice, v_joins, v_callback>>
    BY <1>2 DEF V!OnVoiceServerUpdate, V!Handles
  <2>2. Head(v_events).of = v_joins => OnlyOf(v_events', VoiceEvents, v_joins)
    BY <2>1, BehindFirst DEF ConnectionsTyped, VoiceInv
  <2>3. OnlyOf(v_events, VoiceEvents, v_joins) => Head(v_events).of = v_joins
    BY <2>1, HeadTaken DEF ConnectionsTyped, OnlyOf, VoiceEvents
  <2> QED BY <1>2, <2>1, <2>2, <2>3, Taken DEF VoiceInv
<1>3. CASE V!OnStreamEvent
  BY <1>3, Taken DEF V!OnStreamEvent, VoiceInv, V!voiceVars
<1>4. CASE V!ApplyStreamEvent
  BY <1>4 DEF V!ApplyStreamEvent, VoiceInv, V!voiceVars
<1> QED BY <1>1, <1>2, <1>3, <1>4 DEF V!Listen

\* It holds at most one stream event, and holds none of an earlier stream once it has applied
\* one of the current stream.
LEMMA ListenKeepsStream ==
    ASSUME ConnectionsInv, V!Listen PROVE ConnectionsTyped' /\ OrphanInv' /\ StreamInv'
<1> USE DEF ConnectionsInv
<1>1. CASE V!OnVoiceStateUpdate \/ V!OnVoiceServerUpdate
  <2>1. /\ v_events # <<>> /\ Head(v_events).type \notin StreamEvents
        /\ v_events' = Tail(v_events)
        /\ UNCHANGED <<v_pc, v_voice, v_joins, V!streamVars, v_dropped, v_listener>>
        /\ v_voiceToken' \in {v_voiceToken, Head(v_events).of}
    BY <1>1 DEF V!OnVoiceStateUpdate, V!OnVoiceServerUpdate, V!Handles, StreamEvents
  <2>2. Head(v_events) \in Events /\ Head(v_events).of \in Nat
    BY <2>1, HeadTaken DEF ConnectionsTyped, Events
  <2>3. ASSUME NEW type \in StreamEvents, Holds(v_events, V!Event(type, v_streams))
        PROVE  Holds(v_events', V!Event(type, v_streams))
    BY <2>1, <2>3, HeadTaken, TakenKeeps DEF ConnectionsTyped, V!Event
  <2>4. ConnectionsTyped' BY <1>1, <2>1, <2>2, Taken DEF ConnectionsTyped, V!streamVars
  <2>5. OrphanInv' BY <2>1 DEF OrphanInv, V!OnlyFailedIsOrphaned, V!streamVars
  <2>6. Arrives("streamCreate", v_rtcServerID) => Arrives("streamCreate", v_rtcServerID)'
    BY <2>1, <2>3 DEF Arrives, V!streamVars, StreamEvents
  <2>7. Arrives("streamServer", v_token) => Arrives("streamServer", v_token)'
    BY <2>1, <2>3 DEF Arrives, V!streamVars, StreamEvents
  <2> QED BY <1>1, <2>1, <2>4, <2>5, <2>6, <2>7, Taken DEF StreamInv, V!streamVars
<1>2. CASE V!OnStreamEvent
  <2>1. /\ v_listener = V!NoEvent /\ v_events # <<>> /\ Head(v_events).type \in StreamEvents
        /\ v_events' = Tail(v_events)
        /\ v_listener' = IF v_voice # 0 /\ v_stream # 0 THEN Head(v_events) ELSE V!NoEvent
        /\ UNCHANGED <<v_pc, v_voice, v_joins, v_voiceToken, V!streamVars, v_dropped>>
    BY <1>2 DEF V!OnStreamEvent, V!Handles, StreamEvents, V!voiceVars
  <2>2. Head(v_events) \in Events /\ Head(v_events).of <= v_streams
    BY <2>1, HeadTaken DEF ConnectionsTyped, StreamInv, UpTo
  <2>3. Head(v_events).of = v_streams => OnlyOf(v_events', StreamEvents, v_streams)
    BY <2>1, BehindFirst DEF ConnectionsTyped, StreamInv
  <2>4. OnlyOf(v_events, StreamEvents, v_streams) => Head(v_events).of = v_streams
    BY <2>1, HeadTaken DEF ConnectionsTyped, OnlyOf
  <2>5. ASSUME NEW type, Holds(v_events, V!Event(type, v_streams)), v_pc = "creating"
        PROVE  \/ Holds(v_events', V!Event(type, v_streams))
               \/ v_listener' = V!Event(type, v_streams)
    <3>1. v_voice # 0 /\ v_stream # 0 BY <2>5 DEF VoiceInv, OrphanInv, Streaming, Joined
    <3> QED BY <2>1, <2>5, <3>1, HeadTaken, TakenKeeps DEF ConnectionsTyped
  <2>6. ConnectionsTyped' BY <1>2, <2>1, Taken DEF ConnectionsTyped, V!streamVars
  <2>7. OrphanInv' BY <2>1 DEF OrphanInv, V!OnlyFailedIsOrphaned, V!streamVars
  <2>8. v_listener \notin {V!Event("streamCreate", v_streams),
                           V!Event("streamServer", v_streams)}
    BY <2>1 DEF V!NoEvent, V!Event
  <2>9. v_pc' = "creating" =>
           Arrives("streamCreate", v_rtcServerID)' /\ Arrives("streamServer", v_token)'
    BY <2>1, <2>5, <2>8 DEF StreamInv, Arrives, V!streamVars
  <2> QED BY <1>2, <2>1, <2>2, <2>3, <2>4, <2>6, <2>7, <2>9, Taken DEF StreamInv, V!streamVars
<1>3. CASE V!ApplyStreamEvent
  <2>1. /\ v_listener # V!NoEvent /\ v_listener' = V!NoEvent
        /\ \/ /\ v_listener.type = "streamCreate" /\ v_token' = v_token
              /\ v_rtcServerID' = IF v_stream = 0 THEN v_rtcServerID ELSE v_listener.of
           \/ /\ v_listener.type = "streamServer" /\ v_rtcServerID' = v_rtcServerID
              /\ v_token' = IF v_stream = 0 THEN v_token ELSE v_listener.of
        /\ UNCHANGED <<v_pc, v_voice, v_joins, v_voiceToken, v_stream, v_streams, v_running,
                       v_failed, v_events, v_dropped>>
    BY <1>3 DEF V!ApplyStreamEvent, V!voiceVars
  <2>2. /\ v_listener \in Events /\ v_listener.of \in Nat
    BY <2>1 DEF StreamInv, Events
  <2>3. ConnectionsTyped' BY <2>1, <2>2 DEF ConnectionsTyped
  <2>4. OrphanInv' BY <2>1 DEF OrphanInv, V!OnlyFailedIsOrphaned
  <2>5. v_pc = "creating" => v_stream # 0 BY DEF OrphanInv, Streaming
  <2>6. v_pc' = "creating" =>
           Arrives("streamCreate", v_rtcServerID)' /\ Arrives("streamServer", v_token)'
    BY <2>1, <2>5 DEF StreamInv, Arrives, V!Event
  <2> QED BY <2>1, <2>3, <2>4, <2>6 DEF StreamInv
<1> QED BY <1>1, <1>2, <1>3 DEF V!Listen

\* JoinVoice begins with a connection of which nothing is on its way yet.
LEMMA JoinKeepsInv == ASSUME ConnectionsInv, V!JoinVoice PROVE ConnectionsInv'
<1> USE DEF ConnectionsInv, ConnectionsTyped, V!Goto
<1>1. /\ v_pc = "out" /\ v_pc' = "joining" /\ v_joins' = v_joins + 1 /\ v_voice' = v_joins'
      /\ v_voiceToken' = 0
      /\ v_events' = v_events \o <<V!Event("voiceState", v_joins'),
                                   V!Event("voiceServer", v_joins')>>
      /\ UNCHANGED <<v_callback, V!streamVars, v_dropped, v_listener>>
  BY DEF V!JoinVoice
<1>2. Extended(v_events, v_events', {"voiceState", "voiceServer"}, v_joins + 1)
  <2>1. v_joins' \in Nat BY <1>1
  <2>2. Extended(v_events, v_events', {"voiceState", "voiceServer"}, v_joins')
    BY <1>1, <2>1, EventsAdded DEF EventTypes
  <2> QED BY <1>1, <2>2
<1>3. ConnectionsTyped' BY <1>1, <1>2 DEF Extended, V!streamVars
<1>4. OrphanInv'
  BY <1>1 DEF OrphanInv, V!OnlyFailedIsOrphaned, V!streamVars, Streaming
<1>5. VoiceInv'
  <2>1. /\ UpTo(v_events, VoiceEvents, v_joins + 1)
        /\ InOrder(v_events, {"voiceServer"}, VoiceEvents, v_joins + 1)
    BY NextConnection DEF VoiceInv, VoiceEvents
  <2>2. /\ UpTo(v_events', VoiceEvents, v_joins')
        /\ InOrder(v_events', {"voiceServer"}, VoiceEvents, v_joins')
    BY <1>1, <1>2, <2>1, AddedKeeps
  <2> QED BY <1>1, <2>2 DEF VoiceInv, Joined, Streaming
<1>6. StreamInv'
  <2>1. StreamEvents \cap {"voiceState", "voiceServer"} = {} BY DEF StreamEvents
  <2>2. /\ UpTo(v_events', StreamEvents, v_streams)
        /\ InOrder(v_events', StreamEvents, StreamEvents, v_streams)
        /\ OnlyOf(v_events, StreamEvents, v_streams)
              => OnlyOf(v_events', StreamEvents, v_streams)
    BY <1>2, <2>1, AddedKeeps DEF StreamInv
  <2> QED BY <1>1, <2>2 DEF StreamInv, V!streamVars
<1> QED BY <1>3, <1>4, <1>5, <1>6

\* SignalStream asks for the credentials of the stream connection just installed.
LEMMA SignalKeepsInv == ASSUME ConnectionsInv, V!SignalStream PROVE ConnectionsInv'
<1> USE DEF ConnectionsInv, ConnectionsTyped, V!Goto
<1>1. /\ v_pc = "signal" /\ v_pc' = "creating"
      /\ v_events' = v_events \o <<V!Event("streamCreate", v_streams),
                                   V!Event("streamServer", v_streams)>>
      /\ UNCHANGED <<V!voiceVars, V!streamVars, v_dropped, v_listener>>
  BY DEF V!SignalStream
<1>2. /\ Extended(v_events, v_events', StreamEvents, v_streams)
      /\ Holds(v_events', V!Event("streamCreate", v_streams))
      /\ Holds(v_events', V!Event("streamServer", v_streams))
  BY <1>1, EventsAdded DEF EventTypes, StreamEvents
<1>3. ConnectionsTyped' BY <1>1, <1>2 DEF Extended, V!voiceVars, V!streamVars
<1>4. OrphanInv'
  BY <1>1 DEF OrphanInv, V!OnlyFailedIsOrphaned, V!streamVars, Streaming
<1>5. VoiceInv'
  <2>1. VoiceEvents \cap StreamEvents = {} BY DEF StreamEvents, VoiceEvents
  <2>2. /\ UpTo(v_events', VoiceEvents, v_joins)
        /\ InOrder(v_events', {"voiceServer"}, VoiceEvents, v_joins)
        /\ OnlyOf(v_events, VoiceEvents, v_joins) => OnlyOf(v_events', VoiceEvents, v_joins)
    BY <1>2, <2>1, AddedKeeps DEF VoiceInv
  <2> QED BY <1>1, <2>2 DEF VoiceInv, V!voiceVars, Joined, Streaming
<1>6. StreamInv'
  <2>1. /\ UpTo(v_events', StreamEvents, v_streams)
        /\ InOrder(v_events', StreamEvents, StreamEvents, v_streams)
        /\ OnlyOf(v_events, StreamEvents, v_streams)
              => OnlyOf(v_events', StreamEvents, v_streams)
    BY <1>2, AddedKeeps DEF StreamInv
  <2> QED BY <1>1, <1>2, <2>1 DEF StreamInv, V!streamVars, Arrives
<1> QED BY <1>3, <1>4, <1>5, <1>6

\* The worker leaves its channel, or is taken out of it: the event is of the last join.
LEMMA LeftKeepsInv ==
    ASSUME ConnectionsInv, V!StopVoiceConnection \/ V!Kick PROVE ConnectionsInv'
<1> USE DEF ConnectionsInv, ConnectionsTyped, V!Goto
<1>1. /\ v_events' = Append(v_events, V!Event("left", v_joins))
      /\ UNCHANGED <<V!voiceVars, v_dropped, v_listener, v_streams, v_rtcServerID, v_token,
                     v_failed>>
      /\ \/ UNCHANGED <<v_pc, v_stream, v_running>>
         \/ /\ v_pc = "leave3" /\ v_pc' = "out" /\ v_stream' = 0
            /\ v_running' = v_running \ {v_stream}
  BY DEF V!StopVoiceConnection, V!Kick, V!StopConnection, V!streamVars, VoiceInv, OrphanInv,
         Joined, Streaming
<1>2. Extended(v_events, v_events', {"left"}, v_joins)
  BY <1>1, EventAdded DEF EventTypes
<1>3. ConnectionsTyped' BY <1>1, <1>2 DEF Extended, V!voiceVars
<1>4. OrphanInv'
  BY <1>1 DEF OrphanInv, V!OnlyFailedIsOrphaned, Streaming
<1>5. VoiceInv'
  <2>1. /\ UpTo(v_events', VoiceEvents, v_joins)
        /\ InOrder(v_events', {"voiceServer"}, VoiceEvents, v_joins)
        /\ OnlyOf(v_events, VoiceEvents, v_joins) => OnlyOf(v_events', VoiceEvents, v_joins)
    BY <1>2, AddedKeeps DEF VoiceInv
  <2> QED BY <1>1, <2>1 DEF VoiceInv, V!voiceVars, Joined, Streaming
<1>6. StreamInv'
  <2>1. StreamEvents \cap {"left"} = {} BY DEF StreamEvents
  <2>2. /\ UpTo(v_events', StreamEvents, v_streams)
        /\ InOrder(v_events', StreamEvents, StreamEvents, v_streams)
        /\ OnlyOf(v_events, StreamEvents, v_streams)
              => OnlyOf(v_events', StreamEvents, v_streams)
    BY <1>2, <2>1, AddedKeeps DEF StreamInv
  <2>3. \A e : Holds(v_events, e) => Holds(v_events', e) BY <1>2, AddedKeeps
  <2>4. v_pc' = "creating" =>
           Arrives("streamCreate", v_rtcServerID)' /\ Arrives("streamServer", v_token)'
    BY <1>1, <2>3 DEF StreamInv, Arrives
  <2> QED BY <1>1, <2>2, <2>4 DEF StreamInv
<1> QED BY <1>3, <1>4, <1>5, <1>6

\* CreateStream hangs a new connection off the voice connection; the one before is stopped,
\* or one that failed.
LEMMA CreateKeepsInv == ASSUME ConnectionsInv, V!CreateStream PROVE ConnectionsInv'
<1> USE DEF ConnectionsInv, ConnectionsTyped, V!Goto
<1>1. /\ v_pc = "in" /\ v_pc' = "signal" /\ v_streams' = v_streams + 1
      /\ v_stream' = v_streams' /\ v_rtcServerID' = 0 /\ v_token' = 0
      /\ v_running' = v_running \cup {v_streams'}
      /\ UNCHANGED <<V!voiceVars, v_failed, v_events, v_dropped, v_listener>>
  BY DEF V!CreateStream, V!Install, V!eventVars
<1>2. ConnectionsTyped' BY <1>1 DEF V!voiceVars
<1>3. OrphanInv'
  BY <1>1 DEF OrphanInv, V!OnlyFailedIsOrphaned, Streaming
<1>4. VoiceInv' BY <1>1 DEF VoiceInv, V!voiceVars, Joined, Streaming
<1>5. StreamInv'
  <2>1. /\ UpTo(v_events, StreamEvents, v_streams + 1)
        /\ InOrder(v_events, StreamEvents, StreamEvents, v_streams + 1)
    BY NextConnection DEF StreamInv
  <2>2. \A e \in Events : e.of \in Nat BY DEF Events
  <2> QED BY <1>1, <2>1, <2>2 DEF StreamInv
<1> QED BY <1>2, <1>3, <1>4, <1>5

\* The other steps of the session's goroutine leave the queue and the credentials alone.
LEMMA SessionKeepsInv ==
    ASSUME ConnectionsInv,
           \/ V!VoiceReady \/ V!JoinFails \/ V!SetOnVoiceLeave
           \/ V!StreamReady \/ V!CreateFails \/ V!StopStream
           \/ V!ClearOnVoiceLeave \/ V!LeaveVoice
    PROVE  ConnectionsInv'
<1> USE DEF ConnectionsInv, V!Goto, V!eventVars
<1>1. ConnectionsTyped'
  BY DEF ConnectionsTyped, V!VoiceReady, V!JoinFails, V!SetOnVoiceLeave, V!StreamReady,
         V!CreateFails, V!StopStream, V!StopConnection, V!ClearOnVoiceLeave, V!LeaveVoice,
         V!voiceVars, V!streamVars
<1>2. OrphanInv'
  BY DEF OrphanInv, V!OnlyFailedIsOrphaned, Streaming, V!VoiceReady, V!JoinFails,
         V!SetOnVoiceLeave, V!StreamReady, V!CreateFails, V!StopStream, V!StopConnection,
         V!ClearOnVoiceLeave, V!LeaveVoice, V!streamVars
<1>3. VoiceInv'
  BY DEF VoiceInv, Joined, Streaming, V!VoiceReady, V!JoinFails,
         V!SetOnVoiceLeave, V!StreamReady, V!CreateFails, V!StopStream,
         V!ClearOnVoiceLeave, V!LeaveVoice, V!voiceVars
<1>4. StreamInv'
  BY DEF StreamInv, V!VoiceReady, V!JoinFails, V!SetOnVoiceLeave, V!StreamReady,
         V!CreateFails, V!StopStream, V!StopConnection, V!ClearOnVoiceLeave, V!LeaveVoice,
         V!streamVars
<1> QED BY <1>1, <1>2, <1>3, <1>4

\* Every step of the worker, of Discord and of the listener keeps the invariant.
LEMMA ConnectionsKeepInv == ASSUME ConnectionsInv, [V!Next]_V!vars PROVE ConnectionsInv'
<1>1. CASE V!Listen
  BY <1>1, ListenKeepsVoice, ListenKeepsStream DEF ConnectionsInv
<1>2. CASE UNCHANGED V!vars
  BY <1>2 DEF V!vars, V!voiceVars, V!streamVars, V!eventVars, ConnectionsInv,
     ConnectionsTyped, OrphanInv, V!OnlyFailedIsOrphaned, VoiceInv, StreamInv, Arrives
<1> QED BY <1>1, <1>2, EmitKeepsInv, JoinKeepsInv, SignalKeepsInv, LeftKeepsInv,
           CreateKeepsInv, SessionKeepsInv
        DEF V!Next, V!Session

\* The invariant holds throughout.
LEMMA ConnectionsInductive == SumSpec => []ConnectionsInv
<1>1. SumInit => ConnectionsInv
  <2> SUFFICES ASSUME SumInit PROVE ConnectionsInv OBVIOUS
  <2>1. v_events = <<>> /\ v_events \in Seq(Events) /\ Len(v_events) = 0
    BY DEF SumInit, V!Init
  <2>2. /\ \A types, n : UpTo(v_events, types, n) /\ OnlyOf(v_events, types, n)
        /\ \A first, types, n : InOrder(v_events, first, types, n)
    BY <2>1 DEF UpTo, OnlyOf, InOrder
  <2> QED BY <2>1, <2>2
          DEF SumInit, V!Init, V!NoEvent, ConnectionsInv, ConnectionsTyped, OrphanInv,
              V!OnlyFailedIsOrphaned, VoiceInv, StreamInv, Joined, Streaming
<1>2. ConnectionsInv /\ [SumNext]_allVars => ConnectionsInv'
  BY ConnectionSteps, ConnectionsKeepInv
<1> QED BY <1>1, <1>2, PTL DEF SumSpec

\* A stream that played is always stopped: only CreateStream can leave a media gateway
\* behind, when it fails (streamer.go, stream connection).
THEOREM PlayedStreamIsStopped == SumSpec => []OnlyFailedIsOrphaned
<1>1. ConnectionsInv => OnlyFailedIsOrphaned
  BY DEF ConnectionsInv, OrphanInv, OnlyFailedIsOrphaned
<1> QED BY <1>1, ConnectionsInductive, PTL

\* However events of earlier streams, drops and the listener's late steps interleave, the
\* credentials of the stream being created reach its own connection.
THEOREM CredentialsReachTheirStream == SumSpec => []AnswerIsNotLost
<1>1. ConnectionsInv => AnswerIsNotLost
  <2> SUFFICES ASSUME ConnectionsInv, v_pc = "creating", v_listener = V!NoEvent,
                      v_streams \notin v_dropped
               PROVE  \/ \E i \in DOMAIN v_events :
                            v_events[i] \in {V!Event("streamCreate", v_streams),
                                             V!Event("streamServer", v_streams)}
                      \/ v_rtcServerID = v_stream /\ v_token = v_stream
    BY DEF AnswerIsNotLost, V!AnswerIsNotLost
  <2>1. v_listener \notin {V!Event("streamCreate", v_streams),
                           V!Event("streamServer", v_streams)}
    BY DEF V!NoEvent, V!Event
  <2>2. Arrives("streamCreate", v_rtcServerID) /\ Arrives("streamServer", v_token)
    BY DEF ConnectionsInv, StreamInv
  <2>3. v_stream = v_streams BY DEF ConnectionsInv, OrphanInv, Streaming
  <2>4. DOMAIN v_events = 1..Len(v_events) BY DEF ConnectionsInv, ConnectionsTyped
  <2> QED BY <2>1, <2>2, <2>3, <2>4 DEF Arrives, Holds
<1> QED BY <1>1, ConnectionsInductive, PTL

\* onVoiceLeave is called only for the voice connection that is current: the answer to the
\* LeaveVoice of an earlier one is applied before the token of the next.
THEOREM LeaveIsOfThisConnection == SumSpec => LeaveIsGenuine
<1>1. ConnectionsInv /\ [V!Next]_V!vars
         => [~v_told /\ v_told' => Head(v_events).of = v_voice]_V!vars
  <2> SUFFICES ASSUME ConnectionsInv, V!Next, ~v_told, v_told'
               PROVE  Head(v_events).of = v_voice
    OBVIOUS
  <2>1. V!OnVoiceStateUpdate
    BY DEF V!Next, V!Session, V!Listen, V!JoinVoice, V!VoiceReady, V!JoinFails,
           V!SetOnVoiceLeave, V!CreateStream, V!SignalStream, V!StreamReady, V!CreateFails,
           V!StopStream, V!ClearOnVoiceLeave, V!LeaveVoice, V!StopVoiceConnection, V!Kick,
           V!Emit, V!OnVoiceServerUpdate, V!OnStreamEvent, V!ApplyStreamEvent, V!voiceVars
  <2>2. v_events # <<>> /\ v_callback /\ Head(v_events).type = "left"
    BY <2>1 DEF V!OnVoiceStateUpdate, V!Handles
  <2>3. v_voice = v_joins /\ v_voiceToken = v_joins
    BY <2>2 DEF ConnectionsInv, VoiceInv
  <2>4. OnlyOf(v_events, VoiceEvents, v_joins) BY <2>3 DEF ConnectionsInv, VoiceInv
  <2> QED BY <2>2, <2>3, <2>4, HeadTaken
          DEF ConnectionsInv, ConnectionsTyped, OnlyOf, VoiceEvents
<1>2. [SumNext]_allVars => [V!Next]_V!vars BY ConnectionSteps
<1> QED BY <1>1, <1>2, ConnectionsInductive, PTL DEF SumSpec, LeaveIsGenuine, V!LeaveIsGenuine

------------------------------------------------------------------------------
(* The encryption of what a gateway sends: the theorems about DaveSession, for the instance
   that MC_Connections has of it. *)

DP == INSTANCE DaveSessionProofs WITH
    Pipelined <- FALSE, protocolVersion <- e_protocolVersion,
    preparedTransitions <- e_preparedTransitions,
    lastPreparedTransitionVersion <- e_lastPreparedTransitionVersion,
    passthrough <- e_passthrough, ratchet <- e_ratchet, decryptors <- e_decryptors,
    sessionVersion <- e_sessionVersion, epoch <- e_epoch, announced <- e_announced,
    pending <- e_pending, lastId <- e_lastId, executed <- e_executed, acks <- e_acks,
    sent <- e_sent

\* The two instances are the same specification.
LEMMA SameDaveInit == E!Init => DP!Init
  BY Zenon DEF
     E!Init, DP!Init, E!Disabled, DP!Disabled, E!NoKey, DP!NoKey, E!NoFrame, DP!NoFrame

LEMMA SameDaveNext == E!Next => DP!Next
  BY DEF
     E!Restrict, DP!Restrict, E!Next, DP!Next, E!Handler, DP!Handler, E!SendFrame, DP!SendFrame,
     E!Active, DP!Active, E!Sealed, DP!Sealed, E!NoFrame, DP!NoFrame,
     E!AddUser, DP!AddUser, E!Announce, DP!Announce, E!Disabled, DP!Disabled,
     E!Ids, DP!Ids, E!InitTransition, DP!InitTransition, E!KeepSelf, DP!KeepSelf, E!KeyOfUser,
     DP!KeyOfUser, E!MayAnnounce, DP!MayAnnounce, E!NewEpoch, DP!NewEpoch, E!NoKey, DP!NoKey,
     E!OnDaveExecuteTransition, DP!OnDaveExecuteTransition, E!OnDaveMLSPrepareCommitTransition,
     DP!OnDaveMLSPrepareCommitTransition, E!OnDaveMLSWelcome, DP!OnDaveMLSWelcome,
     E!OnDavePrepareEpoch, DP!OnDavePrepareEpoch, E!OnDavePrepareTransition,
     DP!OnDavePrepareTransition, E!OnSelectProtocolAck, DP!OnSelectProtocolAck,
     E!PrepareTransition, DP!PrepareTransition, E!ProtocolInit, DP!ProtocolInit, E!Put, DP!Put,
     E!RemoveUser, DP!RemoveUser, E!SetupSelf, DP!SetupSelf, E!Versions, DP!Versions,
     E!discordVars, DP!discordVars, E!sessionVars, DP!sessionVars

LEMMA DaveRuns == SumSpec => DP!Spec
<1>1. SumInit => DP!Init BY SameDaveInit DEF SumInit
<1>2. [SumNext]_allVars => [DP!Next]_DP!vars
  BY SameDaveNext
  DEF SumNext, allVars, eVars, DP!vars, DP!sessionVars, DP!discordVars
<1> QED BY <1>1, <1>2, PTL DEF SumSpec, DP!Spec

\* Whatever fails, is ignored, reconnects or is executed late, the key of what a gateway sends
\* changes exactly when Discord executes a transition; only a frame that libdave refuses, or one
\* sent while the session is not in the epoch executed last, may go out in the clear or under an
\* earlier key (DaveSession, KeysFollowExecution).
THEOREM SentKeysFollowExecution == SumSpec => KeysFollowTransitions
<1>1. DP!Spec => DP!KeysFollowTransitions BY DP!KeysFollowExecution
<1>2. DP!KeysFollowTransitions => KeysFollowTransitions
  BY DEF KeysFollowTransitions,
     E!KeysFollowTransitions, DP!KeysFollowTransitions, E!Active, DP!Active, E!Disabled,
     DP!Disabled, E!KeyIsExecuted, DP!KeyIsExecuted, E!ExecutedKeyIsUsed, DP!ExecutedKeyIsUsed,
     E!Current, DP!Current, E!NoKey, DP!NoKey, E!NoFrame, DP!NoFrame, E!Sealed, DP!Sealed,
     E!discordVars, DP!discordVars, E!sessionVars, DP!sessionVars, E!vars, DP!vars
<1> QED BY <1>1, <1>2, DaveRuns, PTL
=============================================================================
