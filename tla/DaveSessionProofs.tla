-------------------------- MODULE DaveSessionProofs --------------------------
(***************************************************************************)
(* Theorems about DaveSession, for any number of users, epochs,            *)
(* transitions and connections, if Discord announces a transition only     *)
(* when the last one is executed or its connection is gone (~Pipelined).   *)
(***************************************************************************)
EXTENDS DaveSession, TLAPS

\* Put changes one entry.
LEMMA PutEntry ==
    ASSUME NEW key, NEW value, NEW map
    PROVE  /\ DOMAIN Put(key, value, map) = DOMAIN map \cup {key}
           /\ Put(key, value, map)[key] = value
           /\ \A k \in DOMAIN map : k # key => Put(key, value, map)[k] = map[k]
BY DEF Put

\* So does a deletion.
LEMMA RemoveEntry ==
    ASSUME NEW key, NEW map
    PROVE  DOMAIN Restrict(map, DOMAIN map \ {key}) = DOMAIN map \ {key}
BY DEF Restrict

------------------------------------------------------------------------------
(* The only transition that is pending is the last one announced.  If it was prepared, the
   session is in its epoch and has been since, or has gone back to no encryption; otherwise its
   epoch is not the one the session is in, so that executing it makes none current.  Ids are
   not used twice, so that one prepared for a lost connection is never executed. *)

NumbersInv ==
    /\ announced \in Nat /\ executed \in Nat /\ executed <= announced
    /\ lastId \in Nat /\ epoch \in Nat /\ epoch <= announced /\ ratchet \in Nat

TransitionInv ==
    /\ DOMAIN pending \subseteq {lastId} \ {InitTransition}
    /\ DOMAIN preparedTransitions \subseteq 1..lastId
    /\ \A id \in DOMAIN pending :
          /\ pending[id] = NoKey \/ pending[id] \in executed..announced
          /\ id \in DOMAIN preparedTransitions =>
                \/ preparedTransitions[id] = Disabled /\ protocolVersion = Disabled
                \/ preparedTransitions[id] # Disabled /\ pending[id] = epoch /\ epoch # NoKey
          /\ id \notin DOMAIN preparedTransitions => pending[id] = NoKey \/ pending[id] # epoch

\* In the epoch executed last, the session has its key and uses it.
KeyInv == Current => ratchet = executed /\ ~passthrough

DaveInv == NumbersInv /\ TransitionInv /\ KeyInv /\ ratchet <= executed

DaveSessionTyped == sessionVersion \in Versions

\* The epoch of an announcement: none for a downgrade, otherwise the next one.
Numbered(e) ==
    \/ e = NoKey /\ announced' = announced
    \/ e = announced + 1 /\ announced' = e

SealKept == Sealed => Sealed' \/ protocolVersion' = Disabled

\* What Discord announces, and when: nothing else is pending.
LEMMA Announced ==
    ASSUME ~Pipelined, DaveInv, NEW id \in Ids, NEW e \in Nat, Announce(id, e),
           Numbered(e)
    PROVE  /\ DOMAIN pending = {} /\ announced' \in Nat
           /\ executed' \in executed..announced'
           /\ \/ /\ id = InitTransition /\ UNCHANGED <<pending, lastId>>
                 /\ e # NoKey => executed' = e
              \/ /\ id = lastId + 1 /\ lastId' = id /\ id # InitTransition
                 /\ DOMAIN pending' = {id} /\ pending'[id] = e /\ executed' = executed
<1> USE DEF DaveInv, NumbersInv, TransitionInv, NoKey, InitTransition
<1> USE DEF Numbered
<1>1. DOMAIN pending = {} /\ announced' \in Nat /\ announced' >= announced
  BY DEF Announce, MayAnnounce
<1>2. CASE id = InitTransition /\ UNCHANGED <<pending, lastId>>
           /\ executed' = IF e = NoKey THEN executed ELSE e
  BY <1>1, <1>2
<1>3. CASE id = lastId + 1 /\ lastId' = id /\ pending' = Put(id, e, pending)
           /\ UNCHANGED executed
  <2>1. DOMAIN pending' = DOMAIN pending \cup {id} /\ pending'[id] = e
    BY <1>3 DEF Put
  <2>2. DOMAIN pending' = {id}
    BY <1>1, <2>1, Zenon
  <2>3. QED
    BY <1>1, <1>3, <2>1, <2>2
<1>4. QED
  BY <1>2, <1>3 DEF Announce

\* A transition that is announced and prepared keeps the invariant.
LEMMA PreparedInTurn ==
    ASSUME ~Pipelined, DaveInv, NEW id \in Ids, NEW e \in Nat, Announce(id, e),
           Numbered(e),
           NEW version \in Versions, NEW now \in Nat, PrepareTransition(id, version, now),
           epoch' \in 0..announced', version # Disabled => now = e /\ epoch' = e /\ e # NoKey
    PROVE  DaveInv' /\ SealKept
<1> USE DEF Versions, Disabled, NoKey, InitTransition
<1>1. /\ DOMAIN pending = {} /\ announced' \in Nat
      /\ executed' \in executed..announced'
      /\ \/ /\ id = InitTransition /\ UNCHANGED <<pending, lastId>>
            /\ e # NoKey => executed' = e
         \/ /\ id = lastId + 1 /\ lastId' = id /\ id # InitTransition
            /\ DOMAIN pending' = {id} /\ pending'[id] = e /\ executed' = executed
  BY Announced
<1>2. protocolVersion' = version
  BY DEF PrepareTransition
<1>3. CASE id = InitTransition
  <2>1. SetupSelf(version, now) /\ UNCHANGED <<preparedTransitions, pending, lastId>>
    BY <1>1, <1>3 DEF PrepareTransition, DaveInv, NumbersInv
  <2>2. ratchet' = IF version = Disabled THEN ratchet ELSE e
    BY <2>1 DEF SetupSelf
  <2>3. NumbersInv' /\ ratchet' <= executed'
    BY <1>1, <1>3, <2>1, <2>2 DEF DaveInv, NumbersInv
  <2>4. TransitionInv' /\ KeyInv'
    <3>1. TransitionInv' BY <1>1, <2>1 DEF DaveInv, TransitionInv
    <3>2. CASE version = Disabled BY <1>2, <3>1, <3>2 DEF KeyInv, Current
    <3>3. CASE version # Disabled
      BY <1>1, <3>1, <1>3, <2>1, <2>2, <3>3 DEF KeyInv, SetupSelf
    <3> QED BY <3>1, <3>2, <3>3
  <2>5. SealKept
    <3>1. CASE version = Disabled
      BY <1>2, <3>1 DEF SealKept
    <3>2. CASE version # Disabled
      <4>1. protocolVersion' # Disabled /\ ratchet' # NoKey
        BY <1>2, <2>2, <3>2
      <4>2. ~passthrough'
        BY <2>1, <3>2 DEF SetupSelf
      <4>3. QED
        BY <4>1, <4>2 DEF SealKept, Sealed, Active
    <3>3. QED
      BY <3>1, <3>2
  <2>6. QED
    BY <2>3, <2>4, <2>5 DEF DaveInv
<1>4. CASE id # InitTransition
  <2>1. /\ preparedTransitions' = Put(id, version, preparedTransitions)
        /\ UNCHANGED <<passthrough, ratchet>>
    BY <1>4 DEF PrepareTransition, KeepSelf
  <2>2. /\ DOMAIN preparedTransitions' = DOMAIN preparedTransitions \cup {id}
        /\ preparedTransitions'[id] = version
    BY <2>1, PutEntry
  <2>3. id = lastId + 1 /\ lastId' = id /\ DOMAIN pending' = {id} /\ pending'[id] = e
        /\ executed' = executed
    BY <1>1, <1>4
  <2>4. NumbersInv' /\ ratchet' <= executed'
    BY <1>1, <2>1, <2>3 DEF DaveInv, NumbersInv
  <2>5. TransitionInv'
    <3>1. DOMAIN preparedTransitions' \subseteq 1..lastId'
      BY <2>2, <2>3 DEF DaveInv, NumbersInv, TransitionInv
    <3>2. e = NoKey \/ e \in executed'..announced'
      <4>1. executed' <= announced /\ (e # NoKey => announced' = e)
        BY <2>3 DEF DaveInv, NumbersInv, Numbered
      <4>2. executed' \in Nat /\ announced' \in Nat /\ (e # NoKey => announced < e)
        BY <1>1, <2>3 DEF DaveInv, NumbersInv, Numbered
      <4>3. QED
        BY <4>1, <4>2 DEF DaveInv, NumbersInv
    <3>3. \/ version = Disabled /\ protocolVersion' = Disabled
          \/ version # Disabled /\ e = epoch' /\ epoch' # NoKey
      BY <1>2
    <3>4. QED
      BY <1>4, <2>2, <2>3, <3>1, <3>2, <3>3 DEF TransitionInv
  <2>key. KeyInv'
    <3>1. CASE version = Disabled BY <1>2, <3>1 DEF KeyInv, Current
    <3>2. CASE version # Disabled
      <4>1. epoch' = announced + 1 /\ executed' = executed /\ executed <= announced
        BY <2>3, <3>2 DEF DaveInv, NumbersInv, Numbered
      <4>2. epoch' # executed' BY <4>1 DEF DaveInv, NumbersInv
      <4> QED BY <4>2 DEF KeyInv, Current
    <3> QED BY <3>1, <3>2
  <2>6. SealKept
    <3>1. CASE version = Disabled
      BY <1>2, <3>1 DEF SealKept
    <3>2. CASE version # Disabled
      BY <1>2, <2>1, <3>2 DEF SealKept, Sealed, Active
    <3>3. QED
      BY <3>1, <3>2
  <2>7. QED
    BY <2>4, <2>5, <2>key, <2>6 DEF DaveInv
<1>5. QED
  BY <1>3, <1>4

\* protocolInit prepares nothing that waits, and only starts or ends the encryption.
LEMMA ProtocolInitEffect ==
    ASSUME NEW version \in Versions, ProtocolInit(version)
    PROVE  /\ UNCHANGED <<preparedTransitions, ratchet>> /\ epoch' \in {epoch, NoKey}
           /\ version # Disabled => UNCHANGED passthrough /\ epoch' = NoKey
BY DEF ProtocolInit, PrepareTransition, SetupSelf, InitTransition

\* A commit or welcome that is announced and not prepared, whether ignored or failed.
LEMMA NotPrepared ==
    ASSUME ~Pipelined, DaveInv, NEW id \in Ids, NewEpoch, Announce(id, announced + 1),
           UNCHANGED <<preparedTransitions, ratchet>>, epoch' \in {epoch, NoKey},
           \/ epoch' = NoKey \/ protocolVersion' = Disabled
           \/ UNCHANGED <<protocolVersion, passthrough, epoch>>
    PROVE  DaveInv'
<1> USE DEF NoKey, InitTransition, NewEpoch
<1> DEFINE e == announced + 1
<1>1. announced \in Nat /\ e \in Nat /\ e # NoKey
  BY DEF DaveInv, NumbersInv
<1>2. /\ DOMAIN pending = {} /\ announced' \in Nat
      /\ executed' \in executed..announced'
      /\ \/ id = InitTransition /\ UNCHANGED <<pending, lastId>> /\ executed' = e
         \/ /\ id = lastId + 1 /\ lastId' = id /\ id # InitTransition
            /\ DOMAIN pending' = {id} /\ pending'[id] = e /\ executed' = executed
  BY <1>1, Announced DEF Numbered
<1>3. NumbersInv' /\ ratchet' <= executed'
  BY <1>2 DEF DaveInv, NumbersInv
<1>4. TransitionInv'
  <2>1. CASE UNCHANGED <<pending, lastId>>
    BY <1>2, <2>1 DEF DaveInv, TransitionInv
  <2>2. CASE /\ id = lastId + 1 /\ lastId' = id /\ id # InitTransition
             /\ DOMAIN pending' = {id} /\ pending'[id] = e /\ executed' = executed
    <3>1. id \notin DOMAIN preparedTransitions'
      BY <2>2 DEF DaveInv, NumbersInv, TransitionInv
    <3>2. DOMAIN preparedTransitions' \subseteq 1..lastId'
      BY <2>2 DEF DaveInv, NumbersInv, TransitionInv
    <3>3. e \in executed'..announced'
      BY <1>1, <2>2 DEF DaveInv, NumbersInv
    <3>4. e # epoch'
      BY <1>1 DEF DaveInv, NumbersInv
    <3>5. QED
      BY <2>2, <3>1, <3>2, <3>3, <3>4 DEF TransitionInv
  <2>3. QED
    BY <1>2, <2>1, <2>2
<1>5. KeyInv'
  <2>1. CASE epoch' = NoKey \/ protocolVersion' = Disabled
    BY <2>1 DEF KeyInv, Current
  <2>2. CASE UNCHANGED <<protocolVersion, passthrough, epoch>> /\ executed' = executed
    BY <2>2 DEF DaveInv, KeyInv, Current
  <2>3. CASE UNCHANGED epoch /\ executed' = e
    <3>1. epoch' # executed' BY <1>1, <2>3 DEF DaveInv, NumbersInv
    <3> QED BY <3>1 DEF KeyInv, Current
  <2> QED BY <1>2, <2>1, <2>2, <2>3
<1>6. QED
  BY <1>3, <1>4, <1>5 DEF DaveInv

------------------------------------------------------------------------------
(* The handlers *)

\* Selecting a protocol, a downgrade, and the first epoch of a group.
\* A protocol that is selected, or a first epoch, finds or leaves nothing pending.
LEMMA AckAndEpochStep ==
    ASSUME ~Pipelined, DaveInv, NEW version \in Versions,
           OnSelectProtocolAck(version) \/ OnDavePrepareEpoch(version)
    PROVE  DaveInv' /\ SealKept
<1> USE DEF Versions, Disabled, NoKey
<1>1. CASE OnSelectProtocolAck(version)
  <2>1. /\ UNCHANGED <<preparedTransitions, ratchet>> /\ epoch' \in {epoch, NoKey}
        /\ version # Disabled => UNCHANGED passthrough /\ epoch' = NoKey
    BY <1>1, ProtocolInitEffect DEF OnSelectProtocolAck
  <2>2. /\ pending' = << >> /\ protocolVersion' = version
        /\ UNCHANGED <<announced, lastId, executed>>
    BY <1>1 DEF OnSelectProtocolAck
  <2>3. DOMAIN pending' = {}
    BY <2>2
  <2>4. DaveInv'
    BY <2>1, <2>2, <2>3 DEF DaveInv, NumbersInv, TransitionInv, KeyInv, Current
  <2>5. CASE version = Disabled
    BY <2>2, <2>4, <2>5 DEF SealKept
  <2>6. CASE version # Disabled
    BY <2>1, <2>2, <2>4, <2>6 DEF SealKept, Sealed, Active
  <2>7. QED
    BY <2>5, <2>6
<1>2. CASE OnDavePrepareEpoch(version)
  <2>1. DOMAIN pending = {} /\ epoch' = NoKey
        /\ UNCHANGED <<sessionVars, discordVars>>
    BY <1>2 DEF OnDavePrepareEpoch, MayAnnounce
  <2>2. DaveInv'
    BY <2>1 DEF DaveInv, NumbersInv, TransitionInv, KeyInv, Current, sessionVars, discordVars
  <2>3. SealKept
    BY <2>1 DEF SealKept, Sealed, Active, sessionVars
  <2>4. QED
    BY <2>2, <2>3
<1>3. QED
  BY <1>1, <1>2

\* A downgrade is prepared like any other transition.
LEMMA DowngradeStep ==
    ASSUME ~Pipelined, DaveInv, NEW id \in Ids, OnDavePrepareTransition(id)
    PROVE  DaveInv' /\ SealKept
<1>1. /\ NoKey \in Nat /\ Announce(id, NoKey) /\ Numbered(NoKey)
      /\ Disabled \in Versions /\ epoch \in Nat /\ PrepareTransition(id, Disabled, epoch)
      /\ epoch' \in 0..announced'
  BY DEF OnDavePrepareTransition, Numbered, NoKey, Versions, DaveInv, NumbersInv
<1>2. QED
  BY <1>1, PreparedInTurn

\* A commit or welcome is ignored, fails, or is prepared in its turn.
LEMMA MLSStep ==
    ASSUME ~Pipelined, DaveInv, DaveSessionTyped, NEW id \in Ids,
           OnDaveMLSPrepareCommitTransition(id) \/ OnDaveMLSWelcome(id)
    PROVE  DaveInv' /\ SealKept
<1> USE DEF Disabled
<1>1. NewEpoch /\ Announce(id, announced + 1)
  BY DEF OnDaveMLSPrepareCommitTransition, OnDaveMLSWelcome
<1>2. CASE UNCHANGED <<sessionVars, sessionVersion, epoch>>
  <2>1. DaveInv'
    BY <1>1, <1>2, NotPrepared DEF sessionVars
  <2>2. SealKept
    BY <1>2 DEF SealKept, Sealed, Active, sessionVars
  <2>3. QED
    BY <2>1, <2>2
<1>3. CASE /\ ProtocolInit(sessionVersion)
           /\ protocolVersion' = IF sessionVersion = Disabled THEN Disabled ELSE protocolVersion
  <2>1. /\ UNCHANGED <<preparedTransitions, ratchet>> /\ epoch' \in {epoch, NoKey}
        /\ sessionVersion # Disabled => UNCHANGED passthrough /\ epoch' = NoKey
    BY <1>3, ProtocolInitEffect DEF DaveSessionTyped
  <2>2. DaveInv'
    BY <1>1, <1>3, <2>1, NotPrepared
  <2>3. CASE sessionVersion = Disabled
    BY <1>3, <2>2, <2>3 DEF SealKept
  <2>4. CASE sessionVersion # Disabled
    BY <1>3, <2>1, <2>2, <2>4 DEF SealKept, Sealed, Active
  <2>5. QED
    BY <2>3, <2>4
<1>4. CASE /\ sessionVersion # Disabled /\ epoch' = announced + 1
           /\ PrepareTransition(id, sessionVersion, announced + 1)
  <2>1. /\ announced + 1 \in Nat /\ announced + 1 # NoKey /\ Numbered(announced + 1)
        /\ epoch' \in 0..announced'
    BY <1>1, <1>4 DEF NewEpoch, Numbered, DaveInv, NumbersInv, NoKey
  <2>2. QED
    BY <1>1, <1>4, <2>1, PreparedInTurn DEF DaveSessionTyped
<1>5. QED
  BY <1>2, <1>3, <1>4 DEF OnDaveMLSPrepareCommitTransition, OnDaveMLSWelcome

\* What is executed was prepared for the epoch the session is in, or not at all.
LEMMA ExecuteStep ==
    ASSUME ~Pipelined, DaveInv, NEW id \in Ids, OnDaveExecuteTransition(id)
    PROVE  DaveInv' /\ SealKept
<1> USE DEF NoKey, Disabled
<1>1. id = lastId /\ id \in DOMAIN pending
  BY DEF OnDaveExecuteTransition, DaveInv, TransitionInv
<1>2. DOMAIN pending' = {}
  <2>1. DOMAIN pending' = DOMAIN pending \ {id}
    BY RemoveEntry DEF OnDaveExecuteTransition
  <2>2. QED
    BY <1>1, <2>1 DEF DaveInv, TransitionInv
<1>3. executed' = (IF pending[id] = NoKey THEN executed ELSE pending[id])
      /\ UNCHANGED <<protocolVersion, announced, lastId>>
  BY DEF OnDaveExecuteTransition
<1>4. executed' \in executed..announced
  BY <1>1, <1>3 DEF DaveInv, NumbersInv, TransitionInv
<1>5. CASE id \notin DOMAIN preparedTransitions
  <2>1. UNCHANGED <<preparedTransitions, epoch, passthrough, ratchet>>
    BY <1>5 DEF OnDaveExecuteTransition
  <2>key. KeyInv'
    <3>1. pending[id] = NoKey \/ pending[id] # epoch
      BY <1>1, <1>5 DEF DaveInv, TransitionInv
    <3> QED BY <1>3, <2>1, <3>1 DEF DaveInv, KeyInv, Current
  <2>2. DaveInv'
    BY <1>2, <1>3, <1>4, <2>1, <2>key DEF DaveInv, NumbersInv, TransitionInv
  <2>3. SealKept
    BY <1>3, <2>1 DEF SealKept, Sealed, Active
  <2>4. QED
    BY <2>2, <2>3
<1>6. CASE id \in DOMAIN preparedTransitions
  <2> DEFINE version == preparedTransitions[id]
             now == IF version = Disabled THEN NoKey ELSE epoch
  <2>1. /\ preparedTransitions' = Restrict(preparedTransitions, DOMAIN preparedTransitions \ {id})
        /\ epoch' = now /\ SetupSelf(version, now)
    BY <1>6 DEF OnDaveExecuteTransition
  <2>2. DOMAIN preparedTransitions' \subseteq 1..lastId'
    BY <1>3, <2>1, RemoveEntry DEF DaveInv, TransitionInv
  <2>3. \/ version = Disabled /\ protocolVersion = Disabled
        \/ version # Disabled /\ pending[id] = epoch /\ epoch # NoKey
    BY <1>1, <1>6 DEF DaveInv, TransitionInv
  <2>4. CASE version = Disabled /\ protocolVersion = Disabled
    <3>1. epoch' = NoKey /\ ratchet' = ratchet
      BY <2>1, <2>4 DEF SetupSelf
    <3>2. DaveInv'
      BY <1>2, <1>3, <1>4, <2>2, <3>1 DEF DaveInv, NumbersInv, TransitionInv, KeyInv, Current
    <3>3. SealKept
      BY <1>3, <2>4 DEF SealKept
    <3>4. QED
      BY <3>2, <3>3
  <2>5. CASE version # Disabled /\ pending[id] = epoch /\ epoch # NoKey
    <3>1. epoch' = epoch /\ ratchet' = epoch /\ executed' = epoch
      BY <1>3, <2>1, <2>5 DEF SetupSelf
    <3>2. ~passthrough'
      BY <2>1, <2>5 DEF SetupSelf
    <3>3. DaveInv'
      BY <1>2, <1>3, <1>4, <2>2, <3>1, <3>2 DEF DaveInv, NumbersInv, TransitionInv, KeyInv
    <3>4. SealKept
      BY <1>3, <2>5, <3>1, <3>2 DEF SealKept, Sealed, Active
    <3>5. QED
      BY <3>3, <3>4
  <2>6. QED
    BY <2>3, <2>4, <2>5
<1>7. QED
  BY <1>5, <1>6

\* Every step of the session keeps the invariant, and what is sealed stays sealed.
LEMMA DaveStep ==
    ASSUME ~Pipelined, DaveInv, DaveSessionTyped, [Next]_vars
    PROVE  DaveInv' /\ SealKept
<1> USE DEF DaveInv, NumbersInv, TransitionInv, KeyInv, Current, SealKept, Sealed, Active
<1>1. ASSUME NEW u \in Users, AddUser(u) \/ RemoveUser(u)
      PROVE  DaveInv' /\ SealKept
  BY <1>1 DEF AddUser, RemoveUser, discordVars
<1>2. CASE SendFrame \/ UNCHANGED vars
  BY <1>2 DEF SendFrame, vars, sessionVars, discordVars
<1> HIDE DEF DaveInv, SealKept
<1>3. QED
  BY <1>1, <1>2, AckAndEpochStep, DowngradeStep, MLSStep, ExecuteStep DEF Next, Handler

\* A frame is sealed with the key there is, which is the executed one in its epoch.
LEMMA FrameStep ==
    ASSUME DaveInv', Next
    PROVE  KeyIsExecuted' /\ ExecutedKeyIsUsed'
<1>1. CASE sent' = NoFrame
  BY <1>1 DEF KeyIsExecuted, ExecutedKeyIsUsed, NoFrame
<1>2. CASE SendFrame
  <2>1. ratchet' <= executed' BY DEF DaveInv
  <2>2. ASSUME Current' PROVE ratchet' = executed' /\ Sealed
    <3>1. ratchet' = executed' /\ ~passthrough' BY <2>2 DEF DaveInv, KeyInv
    <3>2. executed' # NoKey /\ protocolVersion' # Disabled BY <2>2 DEF Current
    <3> QED BY <1>2, <3>1, <3>2 DEF SendFrame, sessionVars, Sealed, Active
  <2>3. Sealed => sent' \in {"sealed", "refused"} BY <1>2 DEF SendFrame
  <2> QED BY <2>1, <2>2, <2>3 DEF KeyIsExecuted, ExecutedKeyIsUsed
<1> QED BY <1>1, <1>2 DEF Next

\* The version libdave was given is one of the two.
LEMMA VersionIsKnown == Spec => []DaveSessionTyped
<1>1. Init => DaveSessionTyped
  BY DEF Init, DaveSessionTyped, Versions
<1>2. DaveSessionTyped /\ [Next]_vars => DaveSessionTyped'
  BY DEF Next, Handler, SendFrame, vars, DaveSessionTyped, OnSelectProtocolAck, OnDavePrepareEpoch,
     OnDavePrepareTransition, OnDaveExecuteTransition, OnDaveMLSPrepareCommitTransition,
     OnDaveMLSWelcome, AddUser, RemoveUser, ProtocolInit
<1>3. QED
  BY <1>1, <1>2, PTL DEF Spec

\* Whatever fails, is ignored, reconnects or is executed late, the key of what is sent changes
\* exactly when Discord executes a transition: none is used before, and in the epoch executed
\* last every frame that libdave does not refuse is sealed with its key.  Once frames are
\* encrypted, they are until the protocol is version 0 again (dave_session.go).
THEOREM KeysFollowExecution == ASSUME ~Pipelined PROVE Spec => KeysFollowTransitions
<1> DEFINE Followed == /\ KeyIsExecuted' /\ ExecutedKeyIsUsed'
                       /\ Sealed => Sealed' \/ protocolVersion' = Disabled
<1>1. Init => DaveInv
  BY DEF Init, DaveInv, NumbersInv, TransitionInv, KeyInv, Current, NoKey
<1>2. DaveInv /\ DaveSessionTyped /\ [Next]_vars => DaveInv' /\ [Followed]_vars
  <2> SUFFICES ASSUME DaveInv, DaveSessionTyped, [Next]_vars
               PROVE  DaveInv' /\ [Followed]_vars
    OBVIOUS
  <2>1. DaveInv' /\ SealKept
    BY DaveStep
  <2>2. CASE Next
    BY <2>1, <2>2, FrameStep DEF SealKept
  <2>3. QED
    BY <2>1, <2>2
<1>3. QED
  BY <1>1, <1>2, VersionIsKnown, PTL DEF Spec, KeysFollowTransitions

==============================================================================
