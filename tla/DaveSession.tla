----------------------------- MODULE DaveSession -----------------------------
(***************************************************************************)
(* The end-to-end encryption of a media gateway (daveSession), one for all *)
(* connections of the gateway.  Discord announces a change of the group as *)
(* a transition, every member answers that it is ready, and Discord has    *)
(* the transition executed; transition 0 takes effect at once.             *)
(*                                                                         *)
(* libdave and Discord are external: a commit or welcome that is accepted  *)
(* brings the session to a new epoch, and epochs are numbered in the order *)
(* in which they are announced.  Discord announces a transition only when  *)
(* the one before is executed, under an id it has not used; a downgrade is *)
(* the only transition it announces by a message of its own.               *)
(*                                                                         *)
(* Frames are sent all the while; only the first one of a stream waits for *)
(* MediaReady.  libdave may fail to encrypt one.                           *)
(***************************************************************************)
EXTENDS Integers, Functions

CONSTANTS
    Users,          \* the other members of the call
    MaxEpochs,      \* bound: epochs announced
    MaxTransitions, \* bound: transitions other than 0
    MaxAcks,        \* bound: connections whose protocol was selected
    Pipelined       \* may a transition be announced before the last one is executed?

DaveAssumption ==
    /\ MaxEpochs \in Nat /\ MaxTransitions \in Nat /\ MaxAcks \in Nat
    /\ Pipelined \in BOOLEAN

Disabled == 0
Versions == {Disabled, 1}
InitTransition == 0
Ids == 0..MaxTransitions
NoKey == 0
Epochs == 0..MaxEpochs

VARIABLES
    \* daveSession
    protocolVersion, preparedTransitions, lastPreparedTransitionVersion,
    passthrough, ratchet,  \* of the encryptor: its mode, and the epoch of its key
    decryptors,            \* of each user, the epoch of the key, or NoKey for passthrough
    \* libdave.Session
    sessionVersion, epoch, \* the epoch it is in, or NoKey without a group
    \* Discord
    announced,             \* epochs announced
    pending,               \* transitions announced and not executed: id -> epoch, or NoKey
    lastId, executed,      \* the last id used; the last epoch executed
    acks,
    \* MediaPeer
    sent                   \* what became of the frame that the last step sent, if it did

sessionVars ==
    <<protocolVersion, preparedTransitions, lastPreparedTransitionVersion, passthrough, ratchet,
      decryptors>>
discordVars == <<announced, pending, lastId, executed, acks>>
vars == <<sessionVars, sessionVersion, epoch, discordVars, sent>>

\* In the clear; sealed with the key of the ratchet; or in the clear as libdave refused it.
NoFrame == "none"
Frames == {"clear", "sealed", "refused"}

Partial(domain, range) == UNION {[d -> range] : d \in SUBSET domain}

TypeOK ==
    /\ protocolVersion \in Versions /\ lastPreparedTransitionVersion \in Versions
    /\ preparedTransitions \in Partial(Ids, Versions)
    /\ passthrough \in BOOLEAN /\ ratchet \in Epochs
    /\ decryptors \in Partial(Users, Epochs)
    /\ sessionVersion \in Versions /\ epoch \in Epochs /\ announced \in Epochs
    /\ pending \in Partial(Ids, Epochs) /\ lastId \in Ids /\ executed \in Epochs
    /\ acks \in 0..MaxAcks /\ sent \in Frames \cup {NoFrame}

Init ==
    /\ protocolVersion = Disabled /\ preparedTransitions = << >>
    /\ lastPreparedTransitionVersion = Disabled
    /\ passthrough = TRUE /\ ratchet = NoKey /\ decryptors = << >>
    /\ sessionVersion = Disabled /\ epoch = NoKey
    /\ announced = 0 /\ pending = << >> /\ lastId = 0 /\ executed = 0 /\ acks = 0
    /\ sent = NoFrame

-----------------------------------------------------------------------------
(* What a step does to the keys; e is the epoch the libdave session is in by then *)

\* setupKeyRatchetForUser for this client.
SetupSelf(version, e) ==
    /\ passthrough' = (version = Disabled)
    /\ ratchet' = IF version = Disabled THEN ratchet ELSE e

KeepSelf == UNCHANGED <<passthrough, ratchet>>

\* A Go map with one entry more, or another value in it.
Put(key, value, map) ==
    [k \in DOMAIN map \cup {key} |-> IF k = key THEN value ELSE map[k]]

KeyOfUser(version, e) == IF version = Disabled THEN NoKey ELSE e

\* Every transition takes effect for this client when it is prepared.
PrepareSelfAtOnce(id, version, e) ==
    /\ decryptors' = [u \in DOMAIN decryptors |-> KeyOfUser(version, e)]
    /\ SetupSelf(version, e)
    /\ preparedTransitions' = IF id = InitTransition THEN preparedTransitions
                              ELSE Put(id, version, preparedTransitions)
    /\ lastPreparedTransitionVersion' = version /\ protocolVersion' = version

\* prepareTransition: what is received may use the new keys at once; what is sent, only when
\* the transition is executed, or if it is the first one.
PrepareTransition(id, version, e) ==
    /\ decryptors' = [u \in DOMAIN decryptors |-> KeyOfUser(version, e)]
    /\ IF id = InitTransition
       THEN SetupSelf(version, e) /\ UNCHANGED preparedTransitions
       ELSE /\ preparedTransitions' = Put(id, version, preparedTransitions)
            /\ KeepSelf
    /\ lastPreparedTransitionVersion' = version /\ protocolVersion' = version

\* protocolInit: a new group, or none; libdave forgets the old one.
ProtocolInit(version) ==
    IF version = Disabled
    THEN PrepareTransition(InitTransition, Disabled, epoch) /\ UNCHANGED <<sessionVersion, epoch>>
    ELSE /\ sessionVersion' = version /\ epoch' = NoKey
         /\ UNCHANGED <<preparedTransitions, lastPreparedTransitionVersion, passthrough, ratchet,
                        decryptors>>

-----------------------------------------------------------------------------
(* Discord announces *)

MayAnnounce == Pipelined \/ DOMAIN pending = {}

\* The id of a new transition: the first one of a group has id 0.
Announce(id, e) ==
    /\ MayAnnounce
    /\ \/ /\ id = InitTransition /\ UNCHANGED <<pending, lastId>>
          /\ executed' = IF e = NoKey THEN executed ELSE e
       \/ /\ id = lastId + 1 /\ id <= MaxTransitions /\ lastId' = id
          /\ pending' = Put(id, e, pending) /\ UNCHANGED executed
    /\ UNCHANGED acks

NewEpoch == announced < MaxEpochs /\ announced' = announced + 1

-----------------------------------------------------------------------------
(* The handlers, each under the lock *)

\* A connection, the first or another one, has its protocol selected; what the server had
\* announced to the old one is gone.
OnSelectProtocolAck(version) ==
    /\ acks < MaxAcks /\ acks' = acks + 1
    /\ pending' = << >>
    /\ ProtocolInit(version) /\ protocolVersion' = version
    /\ UNCHANGED <<announced, lastId, executed>>

\* A downgrade.
OnDavePrepareTransition(id) ==
    /\ Announce(id, NoKey) /\ UNCHANGED announced
    /\ PrepareTransition(id, Disabled, epoch)
    /\ UNCHANGED <<sessionVersion, epoch>>

\* An epoch that is not the first needs no preparation.
OnDavePrepareEpoch(version) ==
    /\ MayAnnounce /\ version # Disabled
    /\ sessionVersion' = version /\ epoch' = NoKey
    /\ UNCHANGED <<sessionVars, discordVars>>

\* ProcessCommit fails, or ignores what is not for this group; a failure starts the group
\* anew, with the version libdave knows.
OnDaveMLSPrepareCommitTransition(id) ==
    /\ NewEpoch /\ Announce(id, announced + 1)
    /\ \/ UNCHANGED <<sessionVars, sessionVersion, epoch>>
       \/ /\ ProtocolInit(sessionVersion)
          /\ protocolVersion' = IF sessionVersion = Disabled THEN Disabled ELSE protocolVersion
       \/ sessionVersion # Disabled /\ epoch' = announced + 1
          /\ PrepareTransition(id, sessionVersion, announced + 1) /\ UNCHANGED sessionVersion

\* A welcome that fails is reported, and a key package is sent for another one.
OnDaveMLSWelcome(id) ==
    /\ NewEpoch /\ Announce(id, announced + 1)
    /\ \/ UNCHANGED <<sessionVars, sessionVersion, epoch>>
       \/ sessionVersion # Disabled /\ epoch' = announced + 1
          /\ PrepareTransition(id, sessionVersion, announced + 1) /\ UNCHANGED sessionVersion

\* An id that was not prepared reads as version 0 in the map.
ExecuteUnprepared(id) ==
    /\ id \in DOMAIN pending
    /\ pending' = Restrict(pending, DOMAIN pending \ {id})
    /\ executed' = IF pending[id] = NoKey THEN executed ELSE pending[id]
    /\ LET version == IF id \in DOMAIN preparedTransitions THEN preparedTransitions[id]
                                                           ELSE Disabled
           now == IF version = Disabled THEN NoKey ELSE epoch
       IN  /\ preparedTransitions' =
                  Restrict(preparedTransitions, DOMAIN preparedTransitions \ {id})
           /\ epoch' = now /\ SetupSelf(version, now)
    /\ UNCHANGED <<protocolVersion, lastPreparedTransitionVersion, decryptors, sessionVersion,
                   announced, lastId, acks>>

\* Mutant of OnDaveExecuteTransition: the key is not replaced.
ExecuteWithoutKey(id) ==
    /\ id \in DOMAIN pending
    /\ pending' = Restrict(pending, DOMAIN pending \ {id})
    /\ executed' = IF pending[id] = NoKey THEN executed ELSE pending[id]
    /\ preparedTransitions' = Restrict(preparedTransitions, DOMAIN preparedTransitions \ {id})
    /\ UNCHANGED <<protocolVersion, lastPreparedTransitionVersion, passthrough, ratchet, epoch,
                   decryptors, sessionVersion, announced, lastId, acks>>

\* executeTransition: an id that was not prepared is passed over; a downgrade resets libdave.
OnDaveExecuteTransition(id) ==
    /\ id \in DOMAIN pending
    /\ pending' = Restrict(pending, DOMAIN pending \ {id})
    /\ executed' = IF pending[id] = NoKey THEN executed ELSE pending[id]
    /\ IF id \in DOMAIN preparedTransitions
       THEN LET version == preparedTransitions[id]
                now == IF version = Disabled THEN NoKey ELSE epoch
            IN  /\ preparedTransitions' =
                       Restrict(preparedTransitions, DOMAIN preparedTransitions \ {id})
                /\ epoch' = now /\ SetupSelf(version, now)
       ELSE UNCHANGED <<preparedTransitions, epoch, passthrough, ratchet>>
    /\ UNCHANGED <<protocolVersion, lastPreparedTransitionVersion, decryptors, sessionVersion,
                   announced, lastId, acks>>

AddUser(u) ==
    /\ u \notin DOMAIN decryptors
    /\ decryptors' = Put(u, KeyOfUser(lastPreparedTransitionVersion, epoch), decryptors)
    /\ UNCHANGED <<protocolVersion, preparedTransitions, lastPreparedTransitionVersion,
                   passthrough, ratchet, sessionVersion, epoch, discordVars>>

RemoveUser(u) ==
    /\ u \in DOMAIN decryptors
    /\ decryptors' = Restrict(decryptors, DOMAIN decryptors \ {u})
    /\ UNCHANGED <<protocolVersion, preparedTransitions, lastPreparedTransitionVersion,
                   passthrough, ratchet, sessionVersion, epoch, discordVars>>

Handler ==
    \/ \E v \in Versions : OnSelectProtocolAck(v) \/ OnDavePrepareEpoch(v)
    \/ \E id \in Ids :
        \/ OnDavePrepareTransition(id) \/ OnDaveExecuteTransition(id)
        \/ OnDaveMLSPrepareCommitTransition(id) \/ OnDaveMLSWelcome(id)
    \/ \E u \in Users : AddUser(u) \/ RemoveUser(u)

-----------------------------------------------------------------------------
(* Frames *)

Active == protocolVersion # Disabled /\ ratchet # NoKey

Sealed == Active /\ ~passthrough

\* encrypt, then sendVideo or sendAudio, which send the frame as it is when encrypt fails.
SendFrame ==
    /\ sent' \in IF Sealed THEN {"sealed", "refused"} ELSE {"clear"}
    /\ UNCHANGED <<sessionVars, sessionVersion, epoch, discordVars>>

Next == (Handler /\ sent' = NoFrame) \/ SendFrame

Spec == Init /\ [][Next]_vars

-----------------------------------------------------------------------------
\* No frame is sealed with the key of an epoch that the others do not use yet, because its
\* transition was not executed.
KeyIsExecuted == sent = "sealed" => ratchet <= executed

\* The session is in the epoch that was executed last.
Current == protocolVersion # Disabled /\ epoch = executed /\ epoch # NoKey

\* From its execution on the key is the one that is used: each frame is sealed with it, unless
\* libdave fails to encrypt the frame, which then goes out in the clear.
ExecutedKeyIsUsed ==
    Current /\ sent # NoFrame => sent = "refused" \/ (sent = "sealed" /\ ratchet = executed)

\* The key changes exactly when Discord executes a transition, whatever fails, is ignored,
\* reconnects or is executed late; and once frames are encrypted, they are until the protocol
\* is version 0 again, by a downgrade that was announced or by a new connection.
KeysFollowTransitions ==
    [][ /\ KeyIsExecuted' /\ ExecutedKeyIsUsed'
        /\ Sealed => Sealed' \/ protocolVersion' = Disabled ]_vars

==============================================================================
