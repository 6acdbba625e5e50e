---------------------------- MODULE SessionProofs ----------------------------
(* Theorems about the sender of a segment (MediaSender), as MC_Session has it beside the
   session: what SumSpec says of the variables of one component is what the component's own
   specification says. *)
EXTENDS MC_Session, Integers, TLAPS

\* A step of the sum is a step of the sender or leaves it alone.
LEMMA SenderSteps == ASSUME [SumNext]_allVars PROVE [S!Next]_sVars
  BY DEF SumNext, allVars

------------------------------------------------------------------------------
(* What the proofs need to know of types. *)

SenderTyped ==
    /\ s_pauseSent \in Nat /\ s_loadingSent \in Nat /\ s_last \in Nat /\ s_skew \in Int
    /\ DOMAIN s_pc = S!Kinds /\ s_back \in {"next", "hold1", "hold2"}

SenderInv == SenderTyped /\ S!DebtsAreKept /\ S!CardUsesLiveHandle

\* Each pump works on its own program counter.
LEMMA PumpMoves ==
    ASSUME DOMAIN s_pc = S!Kinds, NEW k \in S!Kinds, NEW from, NEW to, S!At(k, from, to)
    PROVE  /\ DOMAIN s_pc' = S!Kinds
           /\ s_pc[k] = from /\ s_pc'[k] = to
           /\ \A j \in S!Kinds \ {k} : s_pc'[j] = s_pc[j]
  BY DEF S!At

\* Settling a pause takes the cards that were counted off both the debt and the lead of the
\* video, whether they were fewer than the pause was long or more; a second settlement of
\* the same epoch takes nothing.
LEMMA SettledOnce ==
    ASSUME SenderTyped, S!SettlePause
    PROVE  /\ s_pauseSent' \in Nat /\ s_last' \in Nat /\ s_skew' \in Int
           /\ s_loadingSent' = s_loadingSent
           /\ s_up => s_skew' = s_skew - s_pauseSent + s_pauseSent'
  BY DEF SenderTyped, S!SettlePause

------------------------------------------------------------------------------
(* One step *)

\* The pause, the contexts and the native thread change neither a clock nor a debt; the
\* handle is freed only while no card is being encoded.
LEMMA NativeKeepsInv ==
    ASSUME SenderInv,
           \/ S!Pause \/ S!Resume \/ S!CancelSegment
           \/ \E k \in S!Kinds : S!NativePacket(k)
           \/ S!NativeStep \/ S!NativeEnds \/ S!PeerCloses
    PROVE  SenderInv'
<1> USE DEF SenderInv, SenderTyped, S!DebtsAreKept, S!CardUsesLiveHandle, S!CardsOwed,
            S!debtVars, S!pauseVars, S!waitVars
<1>1. CASE S!Pause BY <1>1 DEF S!Pause, S!nativeVars
<1>2. CASE S!Resume BY <1>2, SenderAssumed DEF S!Resume, S!nativeVars, S!SenderAssumption
<1>3. CASE S!CancelSegment BY <1>3 DEF S!CancelSegment, S!nativeVars
<1>4. ASSUME NEW k \in S!Kinds, S!NativePacket(k) PROVE SenderInv'
  BY <1>4 DEF S!NativePacket
<1>5. CASE S!EmitPuts BY <1>5 DEF S!EmitPuts
<1>6. CASE S!NativeEnds BY <1>6 DEF S!NativeEnds
<1>7. CASE S!FreeHandle BY <1>7 DEF S!FreeHandle
<1>8. CASE S!PeerCloses BY <1>8 DEF S!PeerCloses, S!nativeVars
<1> QED BY <1>1, <1>2, <1>3, <1>4, <1>5, <1>6, <1>7, <1>8 DEF S!NativeStep, S!NativeAborts

\* A pump settles a pause or the loading cards at once with the clocks, and neither pump
\* waits where a card has been sent and is not counted yet.
LEMMA PumpKeepsInv ==
    ASSUME SenderInv, NEW k \in S!Kinds, S!PumpStep(k)
    PROVE  SenderInv'
<1> USE DEF SenderInv, S!DebtsAreKept, S!CardUsesLiveHandle, S!CardsOwed, S!Kinds
<1>1. CASE S!Hold(k)
  <2>1. /\ SenderTyped' /\ s_up' = s_up /\ s_npc' = s_npc
        /\ \/ s_pc'["video"] = s_pc["video"]
           \/ s_pc["video"] # "cardCount" /\ s_pc'["video"] \in {"next", "clock"}
    BY <1>1, PumpMoves, SettledOnce DEF S!Hold, SenderTyped, S!nativeVars, S!waitVars
  <2>2. s_up => s_skew' = s_skew - s_pauseSent + s_pauseSent'
    BY <1>1, SettledOnce DEF S!Hold
  <2>3. s_loadingSent' = s_loadingSent BY <1>1, SettledOnce DEF S!Hold
  <2>4. (s_pc'["video"] = "cardCount") <=> (s_pc["video"] = "cardCount") BY <2>1
  <2>5. ASSUME s_up' PROVE s_skew' = S!CardsOwed'
    <3>1. s_up BY <2>1, <2>5
    <3>2. s_skew = S!CardsOwed /\ s_skew' = s_skew - s_pauseSent + s_pauseSent'
      BY <2>2, <3>1
    <3>3. /\ s_pauseSent \in Nat /\ s_loadingSent \in Nat /\ s_skew \in Int
          /\ s_pauseSent' \in Nat /\ s_loadingSent' \in Nat /\ s_skew' \in Int
      BY <2>1 DEF SenderTyped
    <3>4. CASE s_pc["video"] = "cardCount" BY <2>3, <2>4, <3>2, <3>3, <3>4
    <3>5. CASE s_pc["video"] # "cardCount" BY <2>3, <2>4, <3>2, <3>3, <3>5
    <3> QED BY <3>4, <3>5
  <2>6. s_pc'["video"] = "encode" => s_npc' # "done" BY <2>1
  <2> QED BY <2>1, <2>5, <2>6
<1>2. CASE S!Take(k)
  BY <1>2, PumpMoves DEF S!Take, SenderTyped, S!nativeVars, S!debtVars, S!pauseVars
<1>3. CASE S!Fail(k)
  BY <1>3 DEF S!Fail, SenderTyped, S!nativeVars, S!debtVars, S!pauseVars, S!waitVars
<1>4. CASE S!Send(k)
  BY <1>4, PumpMoves DEF S!Send, S!SettleLoading, SenderTyped, S!nativeVars, S!pauseVars
<1> QED BY <1>1, <1>2, <1>3, <1>4 DEF S!PumpStep

\* A card is owed from the moment it is sent, first by the place of the pump and then by a
\* counter; it is encoded only with a handle that was there when it was looked up.
LEMMA CardKeepsInv ==
    ASSUME SenderInv, S!CardStep \/ S!Starved \/ S!LiveTimeout
    PROVE  SenderInv'
<1> USE DEF SenderInv, SenderTyped, S!DebtsAreKept, S!CardUsesLiveHandle, S!CardsOwed,
            S!Kinds, S!nativeVars, S!debtVars, S!pauseVars, S!waitVars
<1>1. CASE S!PausedVideo BY <1>1, PumpMoves DEF S!PausedVideo
<1>2. CASE S!LookUpCard BY <1>2, PumpMoves DEF S!LookUpCard
<1>3. CASE S!EncodeCard BY <1>3, PumpMoves DEF S!EncodeCard
<1>4. CASE S!SendCard BY <1>4, PumpMoves DEF S!SendCard
<1>5. CASE S!CountCard BY <1>5, PumpMoves DEF S!CountCard
<1>6. CASE S!CardWait BY <1>6, PumpMoves DEF S!CardWait
<1>7. CASE S!Starved BY <1>7, PumpMoves DEF S!Starved
<1>8. CASE S!LiveTimeout BY <1>8, PumpMoves DEF S!LiveTimeout
<1> QED BY <1>1, <1>2, <1>3, <1>4, <1>5, <1>6, <1>7, <1>8 DEF S!CardStep

\* The debts survive the change of segments: the next one settles them.
LEMMA SegmentKeepsInv == ASSUME SenderInv, S!BeginSegment PROVE SenderInv'
  BY DEF SenderInv, SenderTyped, S!DebtsAreKept, S!CardUsesLiveHandle, S!CardsOwed, S!Kinds,
         S!BeginSegment, S!RunOver

\* Every step of the sender keeps the invariant.
LEMMA SenderKeepsInv == ASSUME SenderInv, [S!Next]_sVars PROVE SenderInv'
<1>1. CASE S!Next
  BY <1>1, NativeKeepsInv, PumpKeepsInv, CardKeepsInv, SegmentKeepsInv DEF S!Next
<1>2. CASE UNCHANGED sVars
  BY <1>2 DEF sVars, SenderInv, SenderTyped, S!DebtsAreKept, S!CardUsesLiveHandle, S!CardsOwed
<1> QED BY <1>1, <1>2

------------------------------------------------------------------------------
(* Theorems *)

\* The invariant holds from the first segment on.
LEMMA SenderInductive == SumSpec => []SenderInv
<1>1. SumInit => SenderInv
  BY DEF SumInit, S!Init, SenderInv, SenderTyped, S!DebtsAreKept, S!CardUsesLiveHandle,
         S!CardsOwed, S!Kinds
<1>2. SenderInv /\ [SumNext]_allVars => SenderInv' BY SenderSteps, SenderKeepsInv
<1> QED BY <1>1, <1>2, PTL DEF SumSpec

\* However the pumps send cards, count them and settle pauses, the video is ahead of the audio
\* by exactly the cards not settled yet: for any number of packets, pauses of any length,
\* cards and segments (mediaSender, play.go).
THEOREM CardsAreSettledOnce == SumSpec => []DebtsAreKept
<1>1. SenderInv => DebtsAreKept BY DEF SenderInv, DebtsAreKept
<1> QED BY <1>1, SenderInductive, PTL

\* The native handle is not freed under a card that is being encoded, whenever libav ends
\* (nativeState, transcode_cgo.go).
THEOREM HandleOutlivesCards == SumSpec => []CardUsesLiveHandle
<1>1. SenderInv => CardUsesLiveHandle BY DEF SenderInv, CardUsesLiveHandle
<1> QED BY <1>1, SenderInductive, PTL
=============================================================================
