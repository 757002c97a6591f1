---------------------------- MODULE FixtureProofs ----------------------------
(***************************************************************************)
(* Passing Gate 1 is enough for the bridge, for streams of every length    *)
(* and frames of every depth: the gate and the bridge keep stacks of their *)
(* own, and while both read neither ever differs from the other.           *)
(***************************************************************************)
EXTENDS Fixture, StreamFacts

Boundary == {"BlockStart", "BlockCommit", "TransactionStart", "TransactionEnd"}

\* The stream has the chosen length, and what stands in it unread is one of its
\* ends, so not a frame event.
StreamTyped ==
  /\ stream \in Seq(EmesEvent \cup {Unread})
  /\ Len(stream) <= MaxLen
  /\ pos \in 0..Len(stream)
  /\ \A i \in 1..Len(stream) :
       i > pos => stream[i] = Unread \/ (stream[i] \in EmesEvent /\ stream[i].type \in Boundary)

\* Gate and bridge have the same frames open, in a transaction or not.
SameFrames ==
  /\ gateFrames \in Seq(FrameIDs)
  /\ Len(gateFrames) <= pos
  /\ frame_stack \in Seq(FrameBuffer)
  /\ Len(frame_stack) = Len(gateFrames)
  /\ \A j \in 1..Len(gateFrames) : /\ frame_stack[j].frame_id = gateFrames[j]
                                   /\ frame_stack[j].depth <= MaxLen
  /\ txOpen \in BOOLEAN /\ tx_open \in BOOLEAN
  /\ tx_open <=> txOpen

ContextTyped == block_number \in Nat /\ tx_index \in Nat /\ tx_hash \in Nat

\* The inductive invariant.
InStep ==
  gated =>
    /\ StreamTyped
    /\ verdict = "ok" => bridge_result = "Ok"
    /\ verdict \in {"pending", "running"} =>
         bridge_result = "running" /\ SameFrames /\ ContextTyped

\* Frame ids and numbers of events fit their types.
LEMMA Widths ==
  /\ U32_MAX \in Nat /\ U64_MAX \in Nat /\ MaxLen \in Nat
  /\ MaxLen <= U32_MAX /\ MaxLen <= U64_MAX
  /\ \A f \in FrameIDs : f \in 0..U32_MAX /\ f \in 0..U64_MAX
<1>1. U32_MAX \in Nat /\ U64_MAX \in Nat /\ U32_MAX < U64_MAX
  BY WidthAssumption
<1>2. FrameIDs \subseteq 0..U32_MAX /\ MaxLen \in 1..U32_MAX
  BY FixtureAssumption
<1> QED BY <1>1, <1>2

-----------------------------------------------------------------------------
(***************************************************************************)
(* What is read.                                                           *)
(***************************************************************************)

\* The fields of the events that a gated stream is made of.
Readable(e) ==
  /\ e \in EmesEvent
  /\ e.type \in Boundary \cup {"FrameEnter", "FrameExit", "AccountCreated"}
  /\ e.type = "FrameEnter" => e.frameID \in FrameIDs /\ e.depth = Len(gateFrames)
  /\ e.type = "AccountCreated" =>
       e.frameID = (IF gateFrames = << >> THEN NO_FRAME ELSE InnermostFrame)

LEMMA BoundaryReadable ==
  ASSUME NEW e \in EmesEvent, e.type \in Boundary
  PROVE  Readable(e)
  BY DEF Readable, Boundary

\* Numbering an event changes nothing of its other fields.
LEMMA MiddleReadable ==
  ASSUME gateFrames \in Seq(FrameIDs), NEW e \in Structural \cup TaggedMutations,
         NEW q \in U64
  PROVE  Readable(SetSequence(e, q))
<1> USE FixtureAssumption, WidthAssumption
        DEF Readable, Boundary, SetSequence, EmesEvent, U64, NO_FRAME
<1>1. CASE e \in {BlockStartEvent(1), BlockCommitEvent, TransactionStartEvent(1, 0)}
  <2>1. CASE e = BlockStartEvent(1)
    BY <2>1 DEF BlockStartEvent
  <2>2. CASE e = BlockCommitEvent
    BY <2>2 DEF BlockCommitEvent
  <2>3. CASE e = TransactionStartEvent(1, 0)
    BY <2>3 DEF TransactionStartEvent
  <2> QED BY <1>1, <2>1, <2>2, <2>3
<1>2. CASE e \in {TransactionEndEvent(r) : r \in BOOLEAN}
  BY <1>2 DEF TransactionEndEvent
<1>3. CASE e \in {FrameEnterEvent(f, p, Len(gateFrames)) : f \in FrameIDs,
                                                         p \in FrameIDs \cup {NO_FRAME}}
  <2>1. PICK f \in FrameIDs, p \in FrameIDs \cup {NO_FRAME} :
          e = FrameEnterEvent(f, p, Len(gateFrames))
    BY <1>3
  <2>2. f \in U64 /\ p \in U64 /\ Len(gateFrames) \in Nat
    OBVIOUS
  <2> QED BY <2>1, <2>2 DEF FrameEnterEvent
<1>4. CASE e \in {FrameExitEvent(f, r) : f \in FrameIDs, r \in BOOLEAN}
  <2>1. PICK f \in FrameIDs, r \in BOOLEAN : e = FrameExitEvent(f, r)
    BY <1>4
  <2>2. f \in U64
    OBVIOUS
  <2> QED BY <2>1, <2>2 DEF FrameExitEvent
<1>5. CASE e \in TaggedMutations
  <2> DEFINE f == IF gateFrames = << >> THEN NO_FRAME ELSE InnermostFrame
  <2>1. PICK a \in Address : e = AccountCreatedEvent(f, a)
    BY <1>5 DEF TaggedMutations
  <2>2. f \in U64
    <3>1. gateFrames # << >> => InnermostFrame \in FrameIDs
      BY DEF InnermostFrame
    <3>2. FrameIDs \subseteq U64 /\ NO_FRAME \in U64
      OBVIOUS
    <3> QED BY <3>1, <3>2
  <2> HIDE DEF f
  <2>3. Readable(SetSequence(e, q)) <=>
          Readable([type |-> "AccountCreated", sequence |-> q, frameID |-> f, address |-> a])
    BY <2>1 DEF AccountCreatedEvent
  <2> QED BY <2>2, <2>3 DEF f
<1> QED BY <1>1, <1>2, <1>3, <1>4, <1>5 DEF Structural

\* What is offered at a position can be read there.
LEMMA OfferedReadable ==
  ASSUME StreamTyped, gateFrames \in Seq(FrameIDs), pos < Len(stream),
         NEW e \in Offered(Structural \cup TaggedMutations)
  PROVE  Readable(e)
<1>1. pos + 1 \in 1..Len(stream) /\ pos + 1 <= MaxLen
  BY FixtureAssumption DEF StreamTyped
<1>2. CASE stream[pos + 1] = Unread
  <2>1. PICK d \in Structural \cup TaggedMutations, q \in SequenceAt(pos + 1) :
          e = SetSequence(d, q)
    BY <1>2 DEF Offered
  <2>2. q \in U64
    BY <1>1, FixtureAssumption, WidthAssumption DEF SequenceAt, U64, StreamTyped
  <2> QED BY <2>1, <2>2, MiddleReadable
<1>3. CASE stream[pos + 1] # Unread
  <2>1. e = stream[pos + 1]
    BY <1>3 DEF Offered
  <2> QED BY <1>1, <1>3, <2>1, BoundaryReadable DEF StreamTyped
<1> QED BY <1>2, <1>3

-----------------------------------------------------------------------------
(***************************************************************************)
(* Each event that the gate accepts makes the bridge take the arm of its   *)
(* match that does not fail, and the stacks move together.                 *)
(***************************************************************************)

Reads(e) ==
  /\ StreamTyped /\ SameFrames /\ ContextTyped
  /\ bridge_result = "running"
  /\ pos < Len(stream) /\ pos' = pos + 1
  /\ Readable(e) /\ Translate(e)
  /\ verdict' = "running"

\* An event that neither side's frames are concerned with.
LEMMA FramesKept ==
  ASSUME SameFrames, pos \in Nat, pos' \in {pos, pos + 1},
         UNCHANGED <<gateFrames, txOpen, frame_stack, tx_open>>
  PROVE  SameFrames'
<1>1. Len(gateFrames) <= pos'
  BY DEF SameFrames
<1> QED BY <1>1 DEF SameFrames

LEMMA BlockStartRead ==
  ASSUME NEW e, Reads(e), e.type = "BlockStart", NEW i, GateBlockStart(e, i)
  PROVE  bridge_result' = "running" /\ SameFrames' /\ ContextTyped'
<1>1. UNCHANGED <<gateFrames, txOpen>>
  BY DEF Reads, GateBlockStart, Reject, gateScan
<1>2. TranslateBlockStart(e)
  BY DEF Reads, Translate
<1>3. e.number \in Nat
  BY DEF Reads, Readable, EmesEvent
<1>4. SameFrames'
  BY <1>1, <1>2, FramesKept DEF TranslateBlockStart, Reads, StreamTyped
<1> QED BY <1>2, <1>3, <1>4 DEF TranslateBlockStart, Reads, ContextTyped

LEMMA BlockCommitRead ==
  ASSUME NEW e, Reads(e), e.type = "BlockCommit", NEW i, NEW n, GateBlockCommit(e, i, n)
  PROVE  bridge_result' = "running" /\ SameFrames' /\ ContextTyped'
<1>1. UNCHANGED <<gateFrames, txOpen>>
  BY DEF Reads, GateBlockCommit, Reject, gateScan
<1>2. UNCHANGED bridgeVars
  BY DEF Reads, Translate, TranslateBlockCommit
<1>3. SameFrames'
  BY <1>1, <1>2, FramesKept DEF bridgeVars, Reads, StreamTyped
<1> QED BY <1>2, <1>3 DEF bridgeVars, bridgeContext, Reads, ContextTyped

LEMMA TransactionStartRead ==
  ASSUME NEW e, Reads(e), e.type = "TransactionStart", GateTransactionStart(e)
  PROVE  bridge_result' = "running" /\ SameFrames' /\ ContextTyped'
<1>1. ~txOpen /\ txOpen' = TRUE /\ gateFrames' = << >>
  BY DEF Reads, GateTransactionStart, Reject
<1>2. TranslateTransactionStart(e)
  BY DEF Reads, Translate
<1>3. ~tx_open
  BY <1>1 DEF Reads, SameFrames
<1>4. /\ tx_open' = TRUE /\ frame_stack' = << >>
      /\ tx_index' = e.txIndex /\ tx_hash' = e.hash
      /\ UNCHANGED <<block_number, bridge_result>>
  BY <1>2, <1>3 DEF TranslateTransactionStart
<1>5. e.txIndex \in Nat /\ e.hash \in Nat
  BY DEF Reads, Readable, EmesEvent
<1>6. SameFrames'
  BY <1>1, <1>4 DEF SameFrames, Reads, StreamTyped
<1> QED BY <1>4, <1>5, <1>6 DEF Reads, ContextTyped

LEMMA TransactionEndRead ==
  ASSUME NEW e, Reads(e), e.type = "TransactionEnd", GateTransactionEnd(e)
  PROVE  bridge_result' = "running" /\ SameFrames' /\ ContextTyped'
<1>1. txOpen /\ gateFrames = << >> /\ txOpen' = FALSE /\ UNCHANGED gateFrames
  BY DEF Reads, GateTransactionEnd, Reject
<1>2. TranslateTransactionEnd(e)
  BY DEF Reads, Translate
<1>3. tx_open /\ frame_stack = << >>
  BY <1>1 DEF Reads, SameFrames
<1>4. tx_open' = FALSE /\ UNCHANGED <<frame_stack, bridgeContext, bridge_result>>
  BY <1>2, <1>3 DEF TranslateTransactionEnd, BridgeFail
<1>5. gateFrames' = << >> /\ frame_stack' = << >> /\ pos' \in Nat
  BY <1>1, <1>3, <1>4 DEF Reads, StreamTyped
<1>6. SameFrames'
  <2>1. txOpen' \in BOOLEAN /\ tx_open' \in BOOLEAN /\ (tx_open' <=> txOpen')
    BY <1>1, <1>4
  <2> QED BY <1>5, <2>1 DEF SameFrames
<1> QED BY <1>4, <1>6 DEF Reads, ContextTyped, bridgeContext

LEMMA FrameEnterRead ==
  ASSUME NEW e, Reads(e), e.type = "FrameEnter", GateFrameEnter(e)
  PROVE  bridge_result' = "running" /\ SameFrames' /\ ContextTyped'
<1> DEFINE b == [frame_id |-> e.frameID, depth |-> e.depth, events |-> << >>]
<1>1. txOpen /\ UNCHANGED txOpen /\ gateFrames' = Append(gateFrames, e.frameID)
  BY DEF Reads, GateFrameEnter, Reject
<1>2. TranslateFrameEnter(e)
  BY DEF Reads, Translate
<1>3. tx_open
  BY <1>1 DEF Reads, SameFrames
<1>4. frame_stack' = Append(frame_stack, b) /\ UNCHANGED <<tx_open, bridgeContext, bridge_result>>
  BY <1>2, <1>3 DEF TranslateFrameEnter, BridgeFail
<1>5. e.frameID \in FrameIDs /\ e.depth = Len(gateFrames) /\ e.depth \in Nat /\ e.depth < MaxLen
  BY FixtureAssumption DEF Reads, Readable, SameFrames, StreamTyped
<1>6. b \in FrameBuffer /\ b.frame_id = e.frameID /\ b.depth = e.depth
  <2>1. e.frameID \in 0..U64_MAX
    BY <1>5, Widths
  <2>2. e.depth \in 0..U64_MAX
    BY <1>5, Widths
  <2>3. << >> \in Seq(CseEvent)
    OBVIOUS
  <2> QED BY <2>1, <2>2, <2>3 DEF FrameBuffer
<1> HIDE DEF b
<1>7. SameFrames'
  <2>1. /\ gateFrames' \in Seq(FrameIDs) /\ Len(gateFrames') = Len(gateFrames) + 1
        /\ \A j \in 1..Len(gateFrames) : gateFrames'[j] = gateFrames[j]
        /\ gateFrames'[Len(gateFrames) + 1] = e.frameID
    BY <1>1, <1>5, Pushed DEF Reads, SameFrames
  <2>2. /\ frame_stack' \in Seq(FrameBuffer) /\ Len(frame_stack') = Len(frame_stack) + 1
        /\ \A j \in 1..Len(frame_stack) : frame_stack'[j] = frame_stack[j]
        /\ frame_stack'[Len(frame_stack) + 1] = b
    BY <1>4, <1>6, Pushed DEF Reads, SameFrames
  <2>3. \A j \in 1..Len(gateFrames') : /\ frame_stack'[j].frame_id = gateFrames'[j]
                                       /\ frame_stack'[j].depth <= MaxLen
    <3> TAKE j \in 1..Len(gateFrames')
    <3>1. CASE j \in 1..Len(gateFrames)
      BY <3>1, <2>1, <2>2 DEF Reads, SameFrames
    <3>2. CASE j = Len(gateFrames) + 1
      BY <3>2, <2>1, <2>2, <1>5, <1>6, FixtureAssumption, WidthAssumption DEF Reads, SameFrames
    <3> QED BY <2>1, <3>1, <3>2 DEF Reads, SameFrames
  <2>4. Len(gateFrames') <= pos' /\ Len(frame_stack') = Len(gateFrames')
    BY <2>1, <2>2 DEF Reads, SameFrames, StreamTyped
  <2>5. txOpen' \in BOOLEAN /\ tx_open' \in BOOLEAN /\ (tx_open' <=> txOpen')
    BY <1>1, <1>4 DEF Reads, SameFrames
  <2> QED BY <2>1, <2>2, <2>3, <2>4, <2>5 DEF SameFrames
<1> QED BY <1>4, <1>7 DEF Reads, ContextTyped, bridgeContext

LEMMA FrameExitRead ==
  ASSUME NEW e, Reads(e), e.type = "FrameExit", GateFrameExit(e)
  PROVE  bridge_result' = "running" /\ SameFrames' /\ ContextTyped'
<1> DEFINE n == Len(gateFrames)
<1>1. /\ gateFrames \in Seq(FrameIDs) /\ gateFrames # << >>
      /\ txOpen /\ e.frameID = InnermostFrame
      /\ UNCHANGED txOpen /\ gateFrames' = SubSeq(gateFrames, 1, Len(gateFrames) - 1)
  BY DEF Reads, SameFrames, GateFrameExit, ClosesInnermost, Reject
<1>2. /\ n \in Nat /\ n > 0 /\ Len(frame_stack) = n /\ frame_stack \in Seq(FrameBuffer)
      /\ frame_stack # << >> /\ Top.frame_id = e.frameID /\ tx_open
  BY <1>1 DEF Reads, SameFrames, Top, InnermostFrame
<1>3. TranslateFrameExit(e)
  BY DEF Reads, Translate
<1>4. /\ IF e.reverted THEN Discard ELSE Merge(Top.events)
      /\ UNCHANGED <<tx_open, bridgeContext, bridge_result>>
  BY <1>2, <1>3 DEF TranslateFrameExit, BridgeFail
<1>5. /\ gateFrames' \in Seq(FrameIDs) /\ Len(gateFrames') = n - 1
      /\ \A j \in 1..n - 1 : gateFrames'[j] = gateFrames[j]
  BY <1>1, Popped
<1>6. /\ Pop \in Seq(FrameBuffer) /\ Len(Pop) = n - 1
      /\ \A j \in 1..n - 1 : Pop[j] = frame_stack[j]
      /\ Top \in FrameBuffer
  BY <1>2, Popped DEF Pop, Top
<1>7. /\ frame_stack' \in Seq(FrameBuffer) /\ Len(frame_stack') = n - 1
      /\ \A j \in 1..n - 1 : /\ frame_stack'[j].frame_id = frame_stack[j].frame_id
                             /\ frame_stack'[j].depth = frame_stack[j].depth
  <2>1. CASE frame_stack' = Pop
    BY <2>1, <1>6
  <2>2. CASE Merge(Top.events) /\ n > 1
    <3> DEFINE m == n - 1
               es == Pop[m].events \o Top.events
    <3>1. Refilled(Pop, m, es, frame_stack')
      <4>1. frame_stack' = [Pop EXCEPT ![Len(frame_stack) - 1].events = @ \o Top.events]
        <5>1. Len(frame_stack) # 1
          <6> HIDE DEF n
          <6>1. n > 1 /\ n \in Nat /\ Len(frame_stack) = n
            BY <2>2, <1>2, Zenon
          <6> QED BY <6>1
        <5> HIDE DEF n, m, es
        <5> QED BY <2>2, <5>1, Zenon DEF Merge
      <4>2. m = Len(frame_stack) - 1
        BY <1>2
      <4> HIDE DEF n, m
      <4> QED BY <4>1, <4>2 DEF Refilled
    <3>2. m \in 1..Len(Pop)
      BY <2>2, <1>2, <1>6
    <3>3. Pop[m].events \in Seq(CseEvent) /\ Top.events \in Seq(CseEvent)
      <4>1. Pop[m] \in FrameBuffer
        BY <3>2, <1>6
      <4> HIDE DEF m
      <4> QED BY <4>1, <1>6 DEF FrameBuffer
    <3>4. es \in Seq(CseEvent)
      BY <3>3, ConcatElements
    <3> HIDE DEF m, es
    <3>5. /\ frame_stack' \in Seq(FrameBuffer) /\ Len(frame_stack') = Len(Pop)
          /\ \A j \in 1..Len(Pop) : /\ frame_stack'[j].frame_id = Pop[j].frame_id
                                    /\ frame_stack'[j].depth = Pop[j].depth
      <4>1. Pop \in Seq(FrameBuffer)
        BY <1>6
      <4> QED BY <3>1, <3>2, <3>4, <4>1, BufferChanged
    <3> QED BY <3>5, <1>6
  <2>3. \/ frame_stack' = Pop
        \/ Merge(Top.events) /\ n > 1
    BY <1>2, <1>4 DEF Discard, Merge
  <2> QED BY <2>1, <2>2, <2>3
<1>8. SameFrames'
  <2>1. \A j \in 1..n - 1 : /\ frame_stack'[j].frame_id = gateFrames'[j]
                            /\ frame_stack'[j].depth <= MaxLen
    <3> TAKE j \in 1..n - 1
    <3>1. j \in 1..n
      BY <1>2
    <3>2. frame_stack[j].frame_id = gateFrames[j] /\ frame_stack[j].depth <= MaxLen
      BY <3>1 DEF Reads, SameFrames
    <3> HIDE DEF n
    <3> QED BY <3>2, <1>5, <1>7
  <2>2. Len(gateFrames') <= pos'
    BY <1>2, <1>5 DEF Reads, SameFrames, StreamTyped
  <2>3. txOpen' \in BOOLEAN /\ tx_open' \in BOOLEAN /\ (tx_open' <=> txOpen')
    BY <1>1, <1>4 DEF Reads, SameFrames
  <2> QED BY <1>5, <1>7, <2>1, <2>2, <2>3 DEF SameFrames
<1> QED BY <1>4, <1>8 DEF Reads, ContextTyped, bridgeContext

LEMMA AccountCreatedRead ==
  ASSUME NEW e, Reads(e), e.type = "AccountCreated", GateMutation(e)
  PROVE  bridge_result' = "running" /\ SameFrames' /\ ContextTyped'
<1> DEFINE payload == [type |-> "ContractCreated", address |-> e.address]
           n == Len(frame_stack)
<1>1. UNCHANGED <<txOpen, gateFrames>>
  BY DEF GateMutation
<1>2. append_mutation(e.frameID, payload)
  BY DEF Reads, Translate, TranslateAccountCreated
<1>3. payload \in Payload
  BY DEF Reads, Readable, EmesEvent, Payload
<1> HIDE DEF payload
<1>4. CASE e.frameID = NO_FRAME
  <2>1. UNCHANGED <<frame_stack, tx_open, bridgeContext, bridge_result>>
    BY <1>2, <1>4 DEF append_mutation
  <2>2. SameFrames'
    BY <1>1, <2>1, FramesKept DEF Reads, StreamTyped
  <2> QED BY <2>1, <2>2 DEF Reads, ContextTyped, bridgeContext
<1>5. CASE e.frameID # NO_FRAME
  <2>1. gateFrames # << >> /\ gateFrames \in Seq(FrameIDs)
    BY <1>5 DEF Reads, Readable, SameFrames
  <2>2. /\ n \in Nat /\ n \in 1..n /\ frame_stack # << >> /\ n = Len(gateFrames)
        /\ frame_stack \in Seq(FrameBuffer) /\ Top = frame_stack[n]
        /\ gateFrames[n] \in FrameIDs
    BY <2>1 DEF Reads, SameFrames, Top
  <2>3. Top \in FrameBuffer /\ Top.frame_id = gateFrames[n] /\ Top.depth <= MaxLen
    BY <2>2 DEF Reads, SameFrames
  <2>4. Top.depth \in Nat /\ Top.events \in Seq(CseEvent)
    BY <2>3, Widths DEF FrameBuffer
  <2>5. Top.frame_id \in 0..U32_MAX /\ Top.depth \in 0..U32_MAX
    BY <2>2, <2>3, <2>4, Widths
  <2> DEFINE event == CseEventOf(payload, Top.frame_id, Top.depth, tx_hash, tx_index)
             es == Append(frame_stack[n].events, event)
  <2>6. /\ Refilled(frame_stack, n, es, frame_stack')
        /\ UNCHANGED <<tx_open, bridgeContext, bridge_result>>
    <3>1. ~(Top.frame_id > U32_MAX \/ Top.depth > U32_MAX)
      BY <2>5, Widths
    <3>2. /\ frame_stack' = [frame_stack EXCEPT ![Len(frame_stack)].events =
                              Append(@, event)]
          /\ UNCHANGED <<tx_open, bridgeContext, bridge_result>>
      BY <1>2, <1>5, <2>2, <3>1 DEF append_mutation, BridgeFail
    <3> HIDE DEF event
    <3> QED BY <3>2 DEF Refilled
  <2>7. event \in CseEvent
    BY <1>3, <2>5, CseEventType DEF Reads, ContextTyped
  <2> HIDE DEF event
  <2>8. es \in Seq(CseEvent)
    BY <2>2, <2>4, <2>7
  <2> HIDE DEF n, es
  <2>9. /\ frame_stack' \in Seq(FrameBuffer) /\ Len(frame_stack') = Len(frame_stack)
        /\ \A j \in 1..Len(frame_stack) :
             /\ frame_stack'[j].frame_id = frame_stack[j].frame_id
             /\ frame_stack'[j].depth = frame_stack[j].depth
    BY <2>2, <2>6, <2>8, BufferChanged DEF n
  <2>10. SameFrames'
    <3>1. Len(gateFrames') <= pos'
      BY <1>1 DEF Reads, SameFrames, StreamTyped
    <3> QED BY <1>1, <2>6, <2>9, <3>1 DEF Reads, SameFrames
  <2> QED BY <2>6, <2>10 DEF Reads, ContextTyped, bridgeContext
<1> QED BY <1>4, <1>5

-----------------------------------------------------------------------------
(***************************************************************************)
(* The invariant and the theorem.                                          *)
(***************************************************************************)

LEMMA InitInStep == Init => InStep
<1> SUFFICES ASSUME Init, gated PROVE InStep
  BY DEF InStep
<1>1. PICK n \in 0..MaxLen, q \in {0, 1},
            first \in {BlockStartEvent(1), TransactionStartEvent(1, 0)},
            last \in {BlockCommitEvent, TransactionEndEvent(FALSE)} :
        stream = [i \in 1..n |-> IF i = 1 THEN SetSequence(first, q)
                                 ELSE IF i = n THEN SetSequence(last, n - 1) ELSE Unread]
  BY DEF Init
<1>2. q \in U64 /\ (n > 1 => n - 1 \in U64) /\ n \in Nat /\ n <= MaxLen
  BY Widths, WidthAssumption DEF U64
<1>3. /\ SetSequence(first, q) \in EmesEvent /\ SetSequence(first, q).type \in Boundary
      /\ n > 1 => /\ SetSequence(last, n - 1) \in EmesEvent
                  /\ SetSequence(last, n - 1).type \in Boundary
  <2>0. 0 \in U64
    BY WidthAssumption DEF U64
  <2>1. first \in EmesEvent /\ first.type \in Boundary
    <3>1. CASE first = BlockStartEvent(1)
      BY <2>0, <3>1 DEF BlockStartEvent, EmesEvent, Boundary
    <3>2. CASE first = TransactionStartEvent(1, 0)
      BY <2>0, <3>2 DEF TransactionStartEvent, EmesEvent, Boundary
    <3> QED BY <3>1, <3>2
  <2>2. last \in EmesEvent /\ last.type \in Boundary
    <3>1. CASE last = BlockCommitEvent
      BY <2>0, <3>1 DEF BlockCommitEvent, EmesEvent, Boundary
    <3>2. CASE last = TransactionEndEvent(FALSE)
      BY <2>0, <3>2 DEF TransactionEndEvent, EmesEvent, Boundary
    <3> QED BY <3>1, <3>2
  <2> QED BY <1>2, <2>1, <2>2, Stamped
<1>4. StreamTyped
  <2>1. \A i \in 1..n : \/ stream[i] = Unread
                        \/ stream[i] \in EmesEvent /\ stream[i].type \in Boundary
    BY <1>1, <1>2, <1>3
  <2>2. stream = [i \in 1..n |-> stream[i]]
    BY <1>1
  <2>3. \A i \in 1..n : stream[i] \in EmesEvent \cup {Unread}
    BY <2>1
  <2>4. stream \in Seq(EmesEvent \cup {Unread}) /\ Len(stream) = n
    BY <1>2, <2>2, <2>3
  <2>5. pos = 0
    BY DEF Init
  <2> QED BY <1>2, <2>1, <2>4, <2>5 DEF StreamTyped
<1>5. SameFrames /\ ContextTyped /\ bridge_result = "running" /\ verdict = "pending"
  <2>1. /\ gateFrames = << >> /\ frame_stack = << >> /\ pos = 0
        /\ txOpen = FALSE /\ tx_open = FALSE
        /\ block_number = 0 /\ tx_index = 0 /\ tx_hash = 0
        /\ bridge_result = "running" /\ verdict = "pending"
    BY DEF Init, GateInit, BridgeInit
  <2>2. txOpen \in BOOLEAN /\ tx_open \in BOOLEAN /\ (tx_open <=> txOpen)
    BY <2>1
  <2>3. SameFrames
    BY <2>1, <2>2 DEF SameFrames
  <2> QED BY <2>1, <2>3 DEF ContextTyped
<1> QED BY <1>4, <1>5 DEF InStep

LEMMA BeginKeeps ==
  ASSUME InStep, Begin
  PROVE  InStep'
<1>1. gated /\ gated' = gated /\ verdict = "pending" /\ UNCHANGED <<gateScan, bridgeVars, stream, pos>>
  BY DEF Begin, GateBegin, Reject
<1>2. StreamTyped /\ SameFrames /\ ContextTyped /\ bridge_result = "running"
  BY <1>1 DEF InStep
<1>3. verdict' # "ok"
  BY DEF Begin, GateBegin, Reject
<1>4. StreamTyped'
  BY <1>1, <1>2 DEF StreamTyped
<1>5. SameFrames'
  BY <1>1, <1>2, FramesKept DEF gateScan, bridgeVars, StreamTyped
<1>6. ContextTyped' /\ bridge_result' = "running"
  BY <1>1, <1>2 DEF ContextTyped, bridgeVars, bridgeContext
<1> QED BY <1>3, <1>4, <1>5, <1>6 DEF InStep

LEMMA ReadKeeps ==
  ASSUME InStep, ReadNext
  PROVE  InStep'
<1>1. PICK e \in Offered(Structural \cup TaggedMutations) : Read(e)
  BY DEF ReadNext
<1>2. /\ gated /\ pos < Len(stream) /\ gated' = gated /\ pos' = pos + 1
      /\ stream' = [stream EXCEPT ![pos + 1] = e]
      /\ GateRead(e, pos + 1, Len(stream)) /\ verdict = "running"
  BY <1>1 DEF Read, ReadNext, GateRead
<1>3. StreamTyped /\ SameFrames /\ ContextTyped /\ bridge_result = "running"
  BY <1>2 DEF InStep
<1>4. Readable(e)
  BY <1>2, <1>3, OfferedReadable DEF SameFrames
<1>5. StreamTyped'
  <2>1. /\ stream \in Seq(EmesEvent \cup {Unread}) /\ pos + 1 \in 1..Len(stream)
        /\ e \in EmesEvent \cup {Unread}
    BY <1>2, <1>3, <1>4 DEF StreamTyped, Readable
  <2>2. /\ stream' \in Seq(EmesEvent \cup {Unread}) /\ Len(stream') = Len(stream)
        /\ \A j \in 1..Len(stream) : stream'[j] = IF j = pos + 1 THEN e ELSE stream[j]
    BY <1>2, <2>1, ExceptSeq
  <2> QED BY <1>2, <1>3, <2>1, <2>2 DEF StreamTyped
<1>6. CASE verdict' = "running"
  <2>1. Translate(e)
    BY <1>1, <1>3, <1>6 DEF Read
  <2>2. Reads(e)
    BY <1>2, <1>3, <1>4, <1>6, <2>1 DEF Reads
  <2>3. bridge_result' = "running" /\ SameFrames' /\ ContextTyped'
    <3>1. Monotonic(e)
      BY <1>2, <1>6 DEF GateRead, Reject
    <3>2. CASE e.type = "BlockStart"
      BY <1>2, <1>6, <2>2, <3>1, <3>2, BlockStartRead DEF GateRead, Reject
    <3>3. CASE e.type = "BlockCommit"
      BY <1>2, <1>6, <2>2, <3>1, <3>3, BlockCommitRead DEF GateRead, Reject
    <3>4. CASE e.type = "TransactionStart"
      BY <1>2, <1>6, <2>2, <3>1, <3>4, TransactionStartRead DEF GateRead, Reject
    <3>5. CASE e.type = "TransactionEnd"
      BY <1>2, <1>6, <2>2, <3>1, <3>5, TransactionEndRead DEF GateRead, Reject
    <3>6. CASE e.type = "FrameEnter"
      BY <1>2, <1>6, <2>2, <3>1, <3>6, FrameEnterRead DEF GateRead, Reject
    <3>7. CASE e.type = "FrameExit"
      BY <1>2, <1>6, <2>2, <3>1, <3>7, FrameExitRead DEF GateRead, Reject
    <3>8. CASE e.type = "AccountCreated"
      BY <1>2, <1>6, <2>2, <3>1, <3>8, AccountCreatedRead DEF GateRead, Reject
    <3> QED BY <1>4, <3>2, <3>3, <3>4, <3>5, <3>6, <3>7, <3>8 DEF Readable, Boundary
  <2> QED BY <1>5, <1>6, <2>3 DEF InStep
<1>7. CASE verdict' # "running"
  <2>1. verdict' \in Rule
    BY <1>2, <1>7 DEF GateRead, Reject, Accept, Rule, GateBlockStart, GateBlockCommit,
       GateTransactionStart, GateTransactionEnd, GateFrameEnter, GateFrameExit, GateMutation
  <2> QED BY <1>5, <2>1 DEF InStep, Rule
<1> QED BY <1>6, <1>7

LEMMA EndKeeps ==
  ASSUME InStep, End
  PROVE  InStep'
<1>1. /\ gated /\ gated' = gated /\ verdict = "running"
      /\ verdict' = IF txOpen THEN "tx-encapsulation" ELSE "ok"
      /\ UNCHANGED <<stream, pos>>
  BY DEF End, GateEnd
<1>2. StreamTyped /\ SameFrames /\ bridge_result = "running"
  BY <1>1 DEF InStep
<1>3. StreamTyped'
  BY <1>1, <1>2 DEF StreamTyped
<1>4. CASE txOpen
  BY <1>1, <1>3, <1>4 DEF InStep
<1>5. CASE ~txOpen
  <2>1. verdict' = "ok" /\ ~tx_open
    BY <1>1, <1>2, <1>5 DEF SameFrames
  <2>2. TranslateFinish
    BY <1>2, <2>1 DEF End
  <2>3. bridge_result' = "Ok"
    BY <2>1, <2>2 DEF TranslateFinish, BridgeFail
  <2> QED BY <1>3, <2>1, <2>3 DEF InStep
<1> QED BY <1>4, <1>5

\* The bridge translates every stream that passes Gate 1: none of its own checks
\* (translate.rs, UnbalancedFrames, FrameIdOverflow and the rest) fires after it.
THEOREM GateIsEnough == Spec => []GateSufficient
<1>1. Init => InStep /\ (~gated => verdict = "pending")
  BY InitInStep DEF Init, GateInit
<1>2. InStep /\ (~gated => verdict = "pending") /\ [Next]_vars
        => (InStep /\ (~gated => verdict = "pending"))'
  <2> SUFFICES ASSUME InStep, ~gated => verdict = "pending", [Next]_vars
               PROVE  (InStep /\ (~gated => verdict = "pending"))'
    OBVIOUS
  <2>1. CASE Begin
    BY <2>1, BeginKeeps DEF Begin
  <2>2. CASE ReadNext
    BY <2>2, ReadKeeps DEF ReadNext, Read
  <2>3. CASE End
    BY <2>3, EndKeeps DEF End
  <2>4. CASE (\E e \in Anything : ReadUngated(e)) \/ EndUngated
    <3>1. ~gated /\ gated' = gated /\ verdict' = verdict
      BY <2>4 DEF ReadUngated, EndUngated, gateVars
    <3> QED BY <3>1 DEF InStep
  <2>5. CASE UNCHANGED vars
    BY <2>5 DEF vars, gateVars, gateScan, bridgeVars, bridgeContext, InStep, StreamTyped,
                SameFrames, ContextTyped
  <2> QED BY <2>1, <2>2, <2>3, <2>4, <2>5 DEF Next, Judged
<1>3. InStep /\ (~gated => verdict = "pending") => GateSufficient
  BY DEF InStep, GateSufficient
<1> QED BY <1>1, <1>2, <1>3, PTL DEF Spec

-----------------------------------------------------------------------------
(***************************************************************************)
(* Gate 1 is exact.  While it reads, it has judged every event so far      *)
(* rightly; when it stops at one, that event breaks a rule in the stream   *)
(* and in whatever the stream might have been continued to.                *)
(***************************************************************************)

\* The inductive invariant.
GateRight ==
  IF gated
  THEN /\ StreamTyped
       /\ verdict = "pending" =>
            /\ pos = 0 /\ prevSeq = 0 /\ seqInitialized = FALSE /\ txOpen = FALSE
            /\ gateFrames = << >> /\ rootFrameCount = 0 /\ rootFrameReverted = FALSE
       /\ verdict = "running" =>
            /\ Encapsulated(stream)
            /\ GateKnows(stream, pos, FrameIDs)
            /\ \A i \in 1..pos : RulesAt(stream, i)
       /\ GateExact
  ELSE verdict = "pending"

\* A closing continues what it closes by at least the commit of the block.
LEMMA ClosingContinues ==
  ASSUME NEW S, NEW s \in Seq(S), NEW c \in Closings(s)
  PROVE  /\ Len(c) \in Nat /\ Len(c) > Len(s)
         /\ SameTo(s, c, Len(s))
<1> DEFINE n     == Len(s)
           open  == {i \in 1..n : s[i].type = "FrameEnter" /\ ~\E j \in 1..n : Closes(s, i, j)}
           depth == Cardinality(open)
           nth(k) == CHOOSE i \in open : Cardinality({h \in open : h <= i}) = k
           exits(r) == [k \in 1..depth |-> FrameExitEvent(s[nth(depth + 1 - k)].frameID, r)]
           end(r) == IF TxDepth(s, n) > 0 THEN <<TransactionEndEvent(r)>> ELSE << >>
           tail(r) == exits(r) \o end(r) \o <<BlockCommitEvent>>
           stamped(q) == [k \in 1..Len(q) |-> SetSequence(q[k], s[n].sequence + k)]
<1>1. PICK r \in BOOLEAN : c = s \o stamped(tail(r))
  BY Zenon DEF Closings
<1>2. n \in Nat /\ depth \in Nat
  <2>1. IsFiniteSet(1..n) /\ open \in SUBSET (1..n)
    BY FS_Interval
  <2> HIDE DEF open, nth, exits, end, tail, stamped
  <2>2. Cardinality(open) \in Nat
    BY <2>1, FS_Subset, FS_CardinalityType
  <2> QED BY <2>2
<1> HIDE DEF depth, nth
<1>3. \E A : exits(r) \in Seq(A)
  <2> DEFINE A == {exits(r)[k] : k \in 1..depth}
  <2>1. exits(r) \in [1..depth -> A]
    OBVIOUS
  <2> HIDE DEF exits
  <2>2. exits(r) \in Seq(A)
    BY <1>2, <2>1
  <2> QED BY <2>2
<1> HIDE DEF exits
<1>4. PICK A : exits(r) \in Seq(A)
  BY <1>3
<1> DEFINE B == A \cup {TransactionEndEvent(r), BlockCommitEvent}
<1>5. exits(r) \in Seq(B) /\ end(r) \in Seq(B) /\ <<BlockCommitEvent>> \in Seq(B)
  <2>1. exits(r) \in Seq(B)
    BY <1>4
  <2> HIDE DEF B
  <2>2. TransactionEndEvent(r) \in B /\ BlockCommitEvent \in B
    BY DEF B
  <2> QED BY <2>1, <2>2
<1> HIDE DEF B, end
<1>6. tail(r) \in Seq(B) /\ Len(tail(r)) \in Nat /\ Len(tail(r)) > 0
  <2>1. exits(r) \o end(r) \in Seq(B) /\ Len(exits(r) \o end(r)) \in Nat
    BY <1>5, ConcatElements
  <2>2. Len(<<BlockCommitEvent>>) = 1
    OBVIOUS
  <2> DEFINE q == exits(r) \o end(r)
  <2> HIDE DEF q
  <2>3. q \in Seq(B) /\ Len(q) \in Nat
    BY <2>1 DEF q
  <2>4. /\ q \o <<BlockCommitEvent>> \in Seq(B)
        /\ Len(q \o <<BlockCommitEvent>>) = Len(q) + 1
    BY <1>5, <2>2, <2>3, ConcatElements
  <2> QED BY <2>3, <2>4 DEF q
<1> HIDE DEF tail
<1> DEFINE t == stamped(tail(r))
           C == {t[k] : k \in 1..Len(tail(r))}
<1>7. t \in Seq(C) /\ Len(t) = Len(tail(r))
  <2>1. t \in [1..Len(tail(r)) -> C]
    OBVIOUS
  <2> HIDE DEF t, C
  <2> QED BY <1>6, <2>1
<1>8. c = s \o t
  BY <1>1
<1> HIDE DEF t, C
<1>9. s \in Seq(S \cup C) /\ t \in Seq(S \cup C)
  BY <1>7
<1>10. Len(c) = n + Len(t) /\ \A i \in 1..n : c[i] = s[i]
  BY <1>8, <1>9, ConcatElements
<1> QED BY <1>2, <1>6, <1>7, <1>10 DEF SameTo

LEMMA GateRightInit == Init => GateRight
<1> SUFFICES ASSUME Init PROVE GateRight
  OBVIOUS
<1>1. /\ verdict = "pending" /\ pos = 0 /\ prevSeq = 0 /\ seqInitialized = FALSE /\ txOpen = FALSE
      /\ gateFrames = << >> /\ rootFrameCount = 0 /\ rootFrameReverted = FALSE
  BY DEF Init, GateInit
<1>2. gated => StreamTyped
  BY InitInStep, <1>1 DEF InStep
<1>3. GateExact
  BY <1>1 DEF GateExact, Rule
<1> QED BY <1>1, <1>2, <1>3 DEF GateRight

LEMMA BeginRight ==
  ASSUME GateRight, Begin
  PROVE  GateRight'
<1>1. gated /\ gated' = gated /\ verdict = "pending" /\ UNCHANGED <<gateScan, stream, pos>>
  BY DEF Begin, GateBegin, Reject
<1>2. /\ StreamTyped /\ pos = 0 /\ prevSeq = 0 /\ seqInitialized = FALSE /\ txOpen = FALSE
      /\ gateFrames = << >> /\ rootFrameCount = 0 /\ rootFrameReverted = FALSE
  BY <1>1 DEF GateRight
<1>3. StreamTyped'
  BY <1>1, <1>2 DEF StreamTyped
<1>4. \/ verdict' = "block-encapsulation"
      \/ verdict' = "running" /\ Encapsulated(stream)
  BY DEF Begin, GateBegin, Reject
<1>5. GateExact' /\ verdict' # "pending"
  BY <1>1, <1>2, <1>4 DEF GateExact, Rule
<1>6. ASSUME verdict' = "running"
      PROVE  /\ Encapsulated(stream)'
             /\ GateKnows(stream, pos, FrameIDs)'
             /\ \A i \in 1..pos' : RulesAt(stream', i)
  <2>1. /\ pos' = 0 /\ prevSeq' = 0 /\ seqInitialized' = FALSE /\ txOpen' = FALSE
        /\ gateFrames' = << >> /\ rootFrameCount' = 0 /\ rootFrameReverted' = FALSE
        /\ stream' = stream
    BY <1>1, <1>2 DEF gateScan
  <2>2. Knows(stream, 0, FrameIDs, FALSE, 0, FALSE, << >>, 0, FALSE)
    BY KnowsAtStart
  <2>3. GateKnows(stream, pos, FrameIDs)'
    BY <2>1, <2>2 DEF GateKnows
  <2>4. Encapsulated(stream)'
    BY <1>4, <1>6, <2>1 DEF Encapsulated
  <2> QED BY <2>1, <2>3, <2>4
<1> QED BY <1>1, <1>3, <1>5, <1>6 DEF GateRight

\* The event that is read, in the stream as it now is and in any continuation.
LEMMA ReadJudged ==
  ASSUME GateRight, gated, NEW e \in Offered(Structural \cup TaggedMutations), Read(e),
         NEW t, SameTo(stream', t, pos + 1), pos + 1 = Len(stream) <=> pos + 1 = Len(t)
  PROVE  RightlyJudged(t, pos, FrameIDs)
<1>1. /\ verdict = "running" /\ pos < Len(stream) /\ GateRead(e, pos + 1, Len(stream))
      /\ stream' = [stream EXCEPT ![pos + 1] = e]
  BY DEF Read, GateRead
<1>2. /\ StreamTyped /\ GateKnows(stream, pos, FrameIDs)
      /\ pos \in Nat /\ pos + 1 \in 1..Len(stream) /\ stream \in Seq(EmesEvent \cup {Unread})
  BY <1>1 DEF GateRight, StreamTyped
<1>3. Readable(e)
  BY <1>1, <1>2, OfferedReadable DEF GateKnows, Knows
<1>4. \A j \in 1..Len(stream) : stream'[j] = IF j = pos + 1 THEN e ELSE stream[j]
  BY <1>1, <1>2
<1>5. t[pos + 1] = e /\ SameTo(stream, t, pos)
  BY <1>2, <1>4 DEF SameTo
<1>6. GateKnows(t, pos, FrameIDs)
  BY <1>2, <1>5, KnowsSame DEF GateKnows
<1>7. e.type = "FrameEnter" => e.frameID \in FrameIDs
  BY <1>3 DEF Readable
<1> QED BY <1>1, <1>2, <1>5, <1>6, <1>7, GateJudgesRightly

LEMMA ReadRight ==
  ASSUME GateRight, ReadNext
  PROVE  GateRight'
<1>1. PICK e \in Offered(Structural \cup TaggedMutations) : Read(e)
  BY DEF ReadNext
<1>2. /\ gated /\ gated' = gated /\ verdict = "running" /\ pos < Len(stream) /\ pos' = pos + 1
      /\ stream' = [stream EXCEPT ![pos + 1] = e]
  BY <1>1 DEF Read, ReadNext, GateRead
<1>3. /\ StreamTyped /\ Encapsulated(stream) /\ GateKnows(stream, pos, FrameIDs)
      /\ \A i \in 1..pos : RulesAt(stream, i)
  BY <1>2 DEF GateRight
<1>4. /\ pos \in Nat /\ pos + 1 \in 1..Len(stream) /\ stream \in Seq(EmesEvent \cup {Unread})
      /\ Len(stream) \in Nat
  BY <1>2, <1>3 DEF StreamTyped
<1>5. Readable(e)
  BY <1>1, <1>2, <1>3, OfferedReadable DEF GateKnows, Knows
<1>6. /\ stream' \in Seq(EmesEvent \cup {Unread}) /\ Len(stream') = Len(stream)
      /\ \A j \in 1..Len(stream) : stream'[j] = IF j = pos + 1 THEN e ELSE stream[j]
  <2>1. e \in EmesEvent \cup {Unread}
    BY <1>5 DEF Readable
  <2> QED BY <1>2, <1>4, <2>1, ExceptSeq
<1>7. StreamTyped'
  BY <1>2, <1>3, <1>4, <1>6 DEF StreamTyped
<1>8. RightlyJudged(stream', pos, FrameIDs)
  <2>1. SameTo(stream', stream', pos + 1)
    BY DEF SameTo
  <2>2. pos + 1 = Len(stream) <=> pos + 1 = Len(stream')
    BY <1>6
  <2> QED BY <1>1, <1>2, <2>1, <2>2, ReadJudged
<1>9. CASE verdict' = "running"
  <2>1. RulesAt(stream', pos + 1) /\ GateKnows(stream, pos, FrameIDs)'
    BY <1>2, <1>8, <1>9 DEF RightlyJudged, GateKnows
  <2>2. \A i \in 1..pos' : RulesAt(stream', i)
    <3>1. SameTo(stream, stream', pos)
      BY <1>4, <1>6 DEF SameTo
    <3>2. \A i \in 1..pos : RulesAt(stream', i)
      BY <1>3, <1>4, <1>6, <3>1, RulesSame
    <3>3. \A i \in 1..pos + 1 : i \in 1..pos \/ i = pos + 1
      BY <1>4
    <3> QED BY <1>2, <2>1, <3>2, <3>3
  <2>3. Encapsulated(stream)'
    <3>1. /\ stream # << >> /\ stream[1].type = "BlockStart" /\ stream[1].sequence = 0
          /\ stream[Len(stream)].type = "BlockCommit"
      BY <1>3 DEF Encapsulated
    <3>2. stream[1] # Unread /\ stream[Len(stream)] # Unread
      BY <3>1 DEF Unread
    <3>3. stream[pos + 1] # Unread => e = stream[pos + 1]
      BY DEF Offered
    <3>4. 1 \in 1..Len(stream) /\ Len(stream) \in 1..Len(stream)
      BY <1>4
    <3>5. stream'[1] = stream[1] /\ stream'[Len(stream)] = stream[Len(stream)]
      BY <1>6, <3>2, <3>3, <3>4
    <3>6. stream' # << >>
      BY <1>6, <3>4
    <3> QED BY <1>6, <3>1, <3>5, <3>6 DEF Encapsulated
  <2>4. GateExact'
    BY <1>9 DEF GateExact, Rule
  <2> QED BY <1>2, <1>7, <1>9, <2>1, <2>2, <2>3, <2>4 DEF GateRight
<1>10. CASE verdict' # "running"
  <2>1. verdict' \in Rule /\ BrokenAt(stream', pos + 1)
    BY <1>8, <1>10 DEF RightlyJudged
  <2>2. pos' = Len(stream') => ~WellFormed(stream')
    BY <1>2, <1>4, <1>6, <2>1, BrokenIsIllFormed
  <2>3. ASSUME pos' # Len(stream'), NEW c \in Closings(SubSeq(stream', 1, pos'))
        PROVE  ~WellFormed(c)
    <3> DEFINE r == SubSeq(stream', 1, pos')
    <3>1. /\ r \in Seq(EmesEvent \cup {Unread}) /\ Len(r) = pos + 1
          /\ \A j \in 1..pos + 1 : r[j] = stream'[j]
      BY <1>2, <1>4, <1>6
    <3> HIDE DEF r
    <3>2. Len(c) \in Nat /\ Len(c) > Len(r) /\ SameTo(r, c, Len(r))
      <4>1. c \in Closings(r)
        BY <2>3 DEF r
      <4> QED BY <3>1, <4>1, ClosingContinues
    <3>3. SameTo(stream', c, pos + 1) /\ Len(c) \in Nat /\ Len(c) > pos + 1
      BY <3>1, <3>2 DEF SameTo
    <3>4. pos + 1 = Len(stream) <=> pos + 1 = Len(c)
      <4>1. pos + 1 # Len(stream)
        BY <1>2, <1>6, <2>3
      <4>2. pos + 1 # Len(c)
        BY <1>4, <3>3
      <4> QED BY <4>1, <4>2
    <3>5. RightlyJudged(c, pos, FrameIDs)
      BY <1>1, <1>2, <3>3, <3>4, ReadJudged
    <3>6. BrokenAt(c, pos + 1) /\ pos + 1 \in 1..Len(c)
      BY <1>4, <1>10, <3>3, <3>5 DEF RightlyJudged
    <3> QED BY <3>3, <3>6, BrokenIsIllFormed
  <2>4. GateExact'
    BY <2>1, <2>2, <2>3 DEF GateExact, Rule
  <2> QED BY <1>2, <1>7, <1>10, <2>1, <2>4 DEF GateRight, Rule
<1> QED BY <1>9, <1>10

LEMMA EndRight ==
  ASSUME GateRight, End
  PROVE  GateRight'
<1>1. /\ gated /\ gated' = gated /\ verdict = "running" /\ pos = Len(stream)
      /\ verdict' = IF txOpen THEN "tx-encapsulation" ELSE "ok"
      /\ UNCHANGED <<stream, pos>>
  BY DEF End, GateEnd
<1>2. /\ StreamTyped /\ Encapsulated(stream) /\ GateKnows(stream, pos, FrameIDs)
      /\ \A i \in 1..pos : RulesAt(stream, i)
  BY <1>1 DEF GateRight
<1>3. Len(stream) \in Nat /\ (stream # << >> => Len(stream) > 0)
  BY <1>2 DEF StreamTyped
<1>4. TxDepth(stream, Len(stream)) = IF txOpen THEN 1 ELSE 0
  BY <1>1, <1>2 DEF GateKnows, Knows, Scanned
<1>5. txOpen => ~WellFormed(stream)
  BY <1>4 DEF WellFormed, Balanced
<1>6. ~txOpen => WellFormed(stream)
  BY <1>1, <1>2, <1>3, <1>4, UnbrokenIsWellFormed
<1>7. StreamTyped'
  BY <1>1, <1>2 DEF StreamTyped
<1>8. GateExact'
  BY <1>1, <1>5, <1>6 DEF GateExact, Rule
<1> QED BY <1>1, <1>7, <1>8 DEF GateRight

\* Gate 1 (validation/gate1.go, VerifyGate1Invariants) passes exactly the
\* well-formed streams, of any length and with frames of any depth.
THEOREM GateIsExact == Spec => []GateExact
<1>1. Init => GateRight
  BY GateRightInit
<1>2. GateRight /\ [Next]_vars => GateRight'
  <2> SUFFICES ASSUME GateRight, [Next]_vars PROVE GateRight'
    OBVIOUS
  <2>1. CASE Begin
    BY <2>1, BeginRight
  <2>2. CASE ReadNext
    BY <2>2, ReadRight
  <2>3. CASE End
    BY <2>3, EndRight
  <2>4. CASE (\E e \in Anything : ReadUngated(e)) \/ EndUngated
    <3>1. ~gated /\ gated' = gated /\ verdict' = verdict
      BY <2>4 DEF ReadUngated, EndUngated, gateVars
    <3> QED BY <3>1 DEF GateRight
  <2>5. CASE UNCHANGED vars
    <3>1. UNCHANGED <<gated, stream, pos, verdict, prevSeq, seqInitialized, txOpen,
                      gateFrames, rootFrameCount, rootFrameReverted>>
      BY <2>5 DEF vars, gateVars, gateScan
    <3>2. StreamTyped => StreamTyped'
      BY <3>1 DEF StreamTyped
    <3>3. GateExact => GateExact'
      BY <3>1 DEF GateExact
    <3>4. GateKnows(stream, pos, FrameIDs) => GateKnows(stream, pos, FrameIDs)'
      BY <3>1 DEF GateKnows
    <3>5. Encapsulated(stream) => Encapsulated(stream)'
      BY <3>1 DEF Encapsulated
    <3> QED BY <3>1, <3>2, <3>3, <3>4, <3>5 DEF GateRight
  <2> QED BY <2>1, <2>2, <2>3, <2>4, <2>5 DEF Next, Judged
<1>3. GateRight => GateExact
  BY DEF GateRight, GateExact, Rule
<1> QED BY <1>1, <1>2, <1>3, PTL DEF Spec

-----------------------------------------------------------------------------
(***************************************************************************)
(* The bridge on its own, with or without the gate in front of it.         *)
(***************************************************************************)

\* Whatever stands in an edited file is an event.
LEMMA AnythingTyped ==
  ASSUME NEW e \in Anything
  PROVE  e \in EmesEvent
<1>1. 0 \in U64 /\ NO_FRAME \in U64 /\ \A f \in WideIDs : f \in U64 /\ f \in Nat
  BY FixtureAssumption, WidthAssumption DEF U64, NO_FRAME
<1>2. CASE e = BlockStartEvent(1)
  BY <1>1, <1>2 DEF BlockStartEvent, EmesEvent
<1>3. CASE e = BlockCommitEvent
  BY <1>1, <1>3 DEF BlockCommitEvent, EmesEvent
<1>4. CASE e = TransactionEndEvent(FALSE)
  BY <1>1, <1>4 DEF TransactionEndEvent, EmesEvent
<1>5. CASE \E h \in Hashes : e = TransactionStartEvent(h, 0)
  BY <1>1, <1>5, FixtureAssumption DEF TransactionStartEvent, EmesEvent
<1>6. CASE \E f \in WideIDs, d \in WideIDs : e = FrameEnterEvent(f, NO_FRAME, d)
  BY <1>1, <1>6 DEF FrameEnterEvent, EmesEvent
<1>7. CASE \E f \in WideIDs, r \in BOOLEAN : e = FrameExitEvent(f, r)
  BY <1>1, <1>7 DEF FrameExitEvent, EmesEvent
<1>8. CASE \E f \in {NO_FRAME, 0}, a \in Address : e = SelfDestructEvent(f, a)
  <2>1. PICK f \in U64, a \in Address : e = SelfDestructEvent(f, a)
    BY <1>1, <1>8
  <2> QED BY <1>1, <2>1 DEF SelfDestructEvent, EmesEvent
<1>9. CASE \E f \in {NO_FRAME, 0}, a \in Address : e = AccountCreatedEvent(f, a)
  <2>1. PICK f \in U64, a \in Address : e = AccountCreatedEvent(f, a)
    BY <1>1, <1>9
  <2> QED BY <1>1, <2>1 DEF AccountCreatedEvent, EmesEvent
<1>10. CASE e \in AnyBoundary
  BY <1>2, <1>3, <1>4, <1>5, <1>10 DEF AnyBoundary
<1>11. CASE e \in AnyFrame
  BY <1>6, <1>7, <1>11 DEF AnyFrame
<1>12. CASE e \in AnyMutation
  BY <1>8, <1>9, <1>12 DEF AnyMutation
<1> QED BY <1>10, <1>11, <1>12 DEF Anything

\* In every step the bridge translates one event, finishes, or does nothing.
LEMMA BridgeMoves ==
  ASSUME InStep, [Next]_vars
  PROVE  \/ UNCHANGED bridgeVars
         \/ \E e \in EmesEvent : Translate(e)
         \/ TranslateFinish
<1>1. CASE Begin
  BY <1>1 DEF Begin
<1>2. CASE ReadNext
  <2>1. PICK e \in Offered(Structural \cup TaggedMutations) : Read(e)
    BY <1>2 DEF ReadNext
  <2>2. StreamTyped /\ gateFrames \in Seq(FrameIDs) /\ pos < Len(stream)
    BY <1>2, <2>1 DEF InStep, ReadNext, Read, GateRead, SameFrames
  <2>3. e \in EmesEvent
    BY <2>2, OfferedReadable DEF Readable
  <2> QED BY <2>1, <2>3 DEF Read
<1>3. CASE End
  BY <1>3 DEF End
<1>4. CASE \E e \in Anything : ReadUngated(e)
  BY <1>4, AnythingTyped DEF ReadUngated
<1>5. CASE EndUngated
  BY <1>5 DEF EndUngated
<1>6. CASE UNCHANGED vars
  BY <1>6 DEF vars
<1> QED BY <1>1, <1>2, <1>3, <1>4, <1>5, <1>6 DEF Next, Judged

LEMMA InStepInvariant == Spec => []InStep
<1>1. Init => InStep
  BY InitInStep
<1>2. InStep /\ [Next]_vars => InStep'
  <2> SUFFICES ASSUME InStep, [Next]_vars PROVE InStep'
    OBVIOUS
  <2>1. CASE Begin
    BY <2>1, BeginKeeps
  <2>2. CASE ReadNext
    BY <2>2, ReadKeeps
  <2>3. CASE End
    BY <2>3, EndKeeps
  <2>4. CASE (\E e \in Anything : ReadUngated(e)) \/ EndUngated
    <3>1. ~gated /\ gated' = gated
      BY <2>4 DEF ReadUngated, EndUngated
    <3> QED BY <3>1 DEF InStep
  <2>5. CASE UNCHANGED vars
    BY <2>5 DEF vars, gateVars, gateScan, bridgeVars, bridgeContext, InStep, StreamTyped,
                SameFrames, ContextTyped
  <2> QED BY <2>1, <2>2, <2>3, <2>4, <2>5 DEF Next, Judged
<1> QED BY <1>1, <1>2, PTL DEF Spec

\* What the bridge returns without an error comes in brackets (translate.rs,
\* TransactionStart, TransactionEnd and append_mutation), for every stream, gated
\* or not, of any length.
THEOREM OutputInBrackets == Spec => []OutputBracketed
<1>1. Init => Bracketing
  BY InitBracketing DEF Init
<1>2. InStep /\ Bracketing /\ [Next]_vars => Bracketing'
  <2> SUFFICES ASSUME InStep, Bracketing, [Next]_vars PROVE Bracketing'
    OBVIOUS
  <2>1. CASE UNCHANGED bridgeVars
    BY <2>1, BracketingKept DEF bridgeVars
  <2> QED BY <2>1, BridgeMoves, TranslateBracketing, FinishBracketing
<1>3. Bracketing => OutputBracketed
  BY DEF Bracketing, Brackets, OutputBracketed
<1> QED BY <1>1, <1>2, <1>3, InStepInvariant, PTL DEF Spec

-----------------------------------------------------------------------------
(***************************************************************************)
(* What the bridge alone refuses.                                          *)
(***************************************************************************)

\* ids are the ids of the frames on a stack of buffers.
IdsOf(ids, stack) ==
  Len(ids) = Len(stack) /\ \A j \in 1..Len(stack) : ids[j] = stack[j].frame_id

\* An event that the bridge takes balances, and its stack follows.
LEMMA ExitTaken ==
  ASSUME Bracketing, NEW ids \in Seq(Nat), IdsOf(ids, frame_stack),
         NEW e, e.type = "FrameExit", TranslateFrameExit(e), bridge_result' = "running"
  PROVE  /\ Balances(e, tx_open, ids)
         /\ tx_open' = OpenAfter(e, tx_open)
         /\ IdsOf(StackAfter(e, ids), frame_stack')
<1> DEFINE n == Len(frame_stack)
<1>1. /\ tx_open /\ frame_stack # << >> /\ Top.frame_id = e.frameID
      /\ IF e.reverted THEN Discard ELSE Merge(Top.events)
      /\ UNCHANGED tx_open
  BY DEF TranslateFrameExit, BridgeFail
<1>2. /\ n \in Nat \ {0} /\ n \in 1..n /\ Len(ids) = n /\ ids # << >>
      /\ Pop \in Seq(BufferOf(Nat, Nat)) /\ Len(Pop) = n - 1
      /\ \A j \in 1..Len(Pop) : Pop[j] = frame_stack[j]
      /\ Top.events \in Seq(CseEvent)
  <2>1. n \in Nat \ {0}
    BY <1>1, TopAndRest
  <2>2. Len(ids) = n /\ ids # << >>
    BY <2>1 DEF IdsOf
  <2> QED BY <1>1, <2>1, <2>2, TopAndRest
<1>3. Balances(e, tx_open, ids) /\ tx_open' = OpenAfter(e, tx_open)
  BY <1>1, <1>2 DEF Balances, OpenAfter, IdsOf, Top
<1>4. Len(frame_stack') = n - 1 /\ \A j \in 1..n - 1 : frame_stack'[j].frame_id = Pop[j].frame_id
  <2>1. CASE frame_stack' = Pop
    BY <2>1, <1>2
  <2>2. CASE n > 1 /\ frame_stack' = [Pop EXCEPT ![n - 1].events = @ \o Top.events]
    <3> DEFINE m == n - 1
               es == Pop[m].events \o Top.events
    <3>1. m \in 1..Len(Pop)
      BY <1>2, <2>2
    <3>2. Refilled(Pop, m, es, frame_stack')
      <4> HIDE DEF n
      <4> QED BY <2>2 DEF Refilled
    <3>3. Pop[m] \in BufferOf(Nat, Nat)
      <4> HIDE DEF m
      <4> QED BY <1>2, <3>1, ElementOfSeq
    <3> HIDE DEF m
    <3>4. es \in Seq(CseEvent)
      <4>1. Pop[m].events \in Seq(CseEvent)
        BY <3>3 DEF BufferOf
      <4> QED BY <1>2, <4>1, ConcatElements
    <3> HIDE DEF es
    <3>5. /\ Len(frame_stack') = Len(Pop)
          /\ \A j \in 1..Len(Pop) : frame_stack'[j].frame_id = Pop[j].frame_id
      <4>1. Pop \in Seq(BufferOf(Nat, Nat))
        BY <1>2
      <4> QED BY <3>1, <3>2, <3>4, <4>1, BufferRefilled
    <3> QED BY <1>2, <3>5
  <2>3. \/ frame_stack' = Pop
        \/ n > 1 /\ frame_stack' = [Pop EXCEPT ![n - 1].events = @ \o Top.events]
    BY <1>1 DEF Discard, Merge
  <2> HIDE DEF n
  <2> QED BY <2>1, <2>2, <2>3
<1>5. IdsOf(StackAfter(e, ids), frame_stack')
  <2>1. StackAfter(e, ids) = SubSeq(ids, 1, Len(ids) - 1)
    BY DEF StackAfter
  <2> DEFINE r == StackAfter(e, ids)
  <2>2. Len(r) = Len(ids) - 1 /\ \A j \in 1..Len(ids) - 1 : r[j] = ids[j]
    BY <1>2, <2>1, Popped
  <2> HIDE DEF r, n
  <2>3. ASSUME NEW j \in 1..n - 1 PROVE r[j] = frame_stack'[j].frame_id
    <3>1. j \in 1..n /\ j \in 1..Len(Pop)
      BY <1>2
    <3> QED BY <1>2, <1>4, <2>2, <3>1 DEF IdsOf, n
  <2>4. IdsOf(r, frame_stack')
    BY <1>2, <1>4, <2>2, <2>3 DEF IdsOf
  <2> QED BY <2>4 DEF r
<1> QED BY <1>3, <1>5

LEMMA EnterTaken ==
  ASSUME Bracketing, NEW ids \in Seq(Nat), IdsOf(ids, frame_stack),
         NEW e, e.type = "FrameEnter", e.frameID \in Nat, e.depth \in Nat,
         TranslateFrameEnter(e), bridge_result' = "running"
  PROVE  /\ Balances(e, tx_open, ids)
         /\ tx_open' = OpenAfter(e, tx_open)
         /\ IdsOf(StackAfter(e, ids), frame_stack')
<1> DEFINE b == [frame_id |-> e.frameID, depth |-> e.depth, events |-> << >>]
<1>1. tx_open /\ frame_stack' = Append(frame_stack, b) /\ UNCHANGED tx_open
  BY DEF TranslateFrameEnter, BridgeFail
<1>2. Balances(e, tx_open, ids) /\ tx_open' = OpenAfter(e, tx_open)
  BY <1>1 DEF Balances, OpenAfter
<1>3. b \in BufferOf(Nat, Nat) /\ b.frame_id = e.frameID
  BY DEF BufferOf
<1> HIDE DEF b
<1>4. frame_stack \in Seq(BufferOf(Nat, Nat))
  BY DEF Bracketing
<1>5. /\ Len(frame_stack') = Len(frame_stack) + 1
      /\ \A j \in 1..Len(frame_stack) : frame_stack'[j] = frame_stack[j]
      /\ frame_stack'[Len(frame_stack) + 1] = b
      /\ Len(frame_stack) \in Nat
  BY <1>1, <1>3, <1>4, Pushed
<1>6. /\ Len(Append(ids, e.frameID)) = Len(ids) + 1
      /\ \A j \in 1..Len(ids) : Append(ids, e.frameID)[j] = ids[j]
      /\ Append(ids, e.frameID)[Len(ids) + 1] = e.frameID
  BY Pushed
<1>7. StackAfter(e, ids) = Append(ids, e.frameID)
  BY DEF StackAfter
<1> DEFINE r == Append(ids, e.frameID)
<1> HIDE DEF r
<1>8. IdsOf(r, frame_stack')
  BY <1>3, <1>5, <1>6 DEF IdsOf, r
<1> QED BY <1>2, <1>7, <1>8 DEF r

\* A transaction starts and ends with no frame open.
LEMMA TransactionTaken ==
  ASSUME Bracketing, NEW ids \in Seq(Nat), IdsOf(ids, frame_stack), NEW e,
         \/ e.type = "TransactionStart" /\ TranslateTransactionStart(e)
         \/ e.type = "TransactionEnd" /\ TranslateTransactionEnd(e),
         bridge_result' = "running"
  PROVE  /\ Balances(e, tx_open, ids)
         /\ tx_open' = OpenAfter(e, tx_open)
         /\ IdsOf(StackAfter(e, ids), frame_stack')
<1>1. frame_stack = << >> /\ frame_stack' = << >>
  BY DEF Bracketing, TranslateTransactionStart, TranslateTransactionEnd, BridgeFail
<1>2. ids = << >>
  BY <1>1 DEF IdsOf
<1>3. /\ e.type = "TransactionStart" => ~tx_open /\ tx_open' = TRUE
      /\ e.type = "TransactionEnd" => tx_open /\ tx_open' = FALSE
  BY DEF TranslateTransactionStart, TranslateTransactionEnd, BridgeFail
<1>4. StackAfter(e, ids) = ids
  BY DEF StackAfter
<1> QED BY <1>1, <1>2, <1>3, <1>4 DEF Balances, OpenAfter, IdsOf

\* A mutation leaves every buffer its frame.
LEMMA MutationTaken ==
  ASSUME Bracketing, NEW ids \in Seq(Nat), IdsOf(ids, frame_stack),
         NEW frameID, NEW payload \in Payload, append_mutation(frameID, payload),
         bridge_result' = "running"
  PROVE  tx_open' = tx_open /\ IdsOf(ids, frame_stack')
<1>1. CASE UNCHANGED <<tx_open, frame_stack>>
  BY <1>1 DEF IdsOf
<1>2. CASE \E event : /\ frameID # NO_FRAME /\ frame_stack # << >>
                      /\ Top.frame_id <= U32_MAX /\ Top.depth <= U32_MAX
                      /\ event = CseEventOf(payload, Top.frame_id, Top.depth, tx_hash, tx_index)
                      /\ frame_stack' = [frame_stack EXCEPT
                                           ![Len(frame_stack)].events = Append(@, event)]
                      /\ UNCHANGED tx_open
  <2> DEFINE n == Len(frame_stack)
  <2>1. PICK event : /\ frameID # NO_FRAME /\ frame_stack # << >>
                     /\ Top.frame_id <= U32_MAX /\ Top.depth <= U32_MAX
                     /\ event = CseEventOf(payload, Top.frame_id, Top.depth, tx_hash, tx_index)
                     /\ frame_stack' = [frame_stack EXCEPT
                                          ![Len(frame_stack)].events = Append(@, event)]
                     /\ UNCHANGED tx_open
    BY <1>2
  <2>2. /\ Top \in BufferOf(Nat, Nat) /\ Top.events \in Seq(CseEvent)
        /\ n \in Nat \ {0} /\ n \in 1..n
    BY <2>1, TopAndRest
  <2>3. Top.frame_id \in 0..U32_MAX /\ Top.depth \in 0..U32_MAX
    <3>1. Top.frame_id \in Nat /\ Top.depth \in Nat
      BY <2>2 DEF BufferOf
    <3> QED BY <2>1, <3>1, WidthAssumption
  <2>4. event \in CseEvent
    <3>1. block_number \in Nat /\ tx_hash \in Nat /\ tx_index \in Nat
      BY DEF Bracketing
    <3> QED BY <2>1, <2>3, <3>1, CseEventType
  <2> DEFINE es == Append(Top.events, event)
  <2>5. es \in Seq(CseEvent)
    BY <2>2, <2>4, Pushed
  <2>6. Refilled(frame_stack, n, es, frame_stack')
    BY <2>1 DEF Refilled, Top
  <2>7. frame_stack \in Seq(BufferOf(Nat, Nat))
    BY DEF Bracketing
  <2> HIDE DEF es
  <2>8. /\ Len(frame_stack') = Len(frame_stack)
        /\ \A j \in 1..Len(frame_stack) : frame_stack'[j].frame_id = frame_stack[j].frame_id
    BY <2>2, <2>5, <2>6, <2>7, BufferRefilled, SMTT(30)
  <2> QED BY <2>1, <2>8 DEF IdsOf
<1> QED BY <1>1, <1>2 DEF append_mutation, BridgeFail

\* A mutation, a creation or a destruction appends what the payload says.
LEMMA MutationAppended ==
  ASSUME NEW e \in EmesEvent, Translate(e),
         e.type \in {"Mutation", "AccountCreated", "SelfDestruct"}
  PROVE  \E payload \in Payload : append_mutation(e.frameID, payload)
<1>1. CASE e.type = "Mutation"
  <2>1. e.key \in Key /\ e.before \in Value /\ e.after \in Value
    BY <1>1 DEF EmesEvent
  <2> QED BY <1>1, <2>1 DEF Translate, TranslateMutation, Payload
<1>2. CASE e.type \in {"AccountCreated", "SelfDestruct"}
  <2>1. e.address \in Address
    BY <1>2 DEF EmesEvent
  <2> QED BY <1>2, <2>1 DEF Translate, TranslateAccountCreated, TranslateSelfDestruct,
                            Payload
<1> QED BY <1>1, <1>2

LEMMA EventTaken ==
  ASSUME Bracketing, NEW ids \in Seq(Nat), IdsOf(ids, frame_stack),
         NEW e \in EmesEvent, Translate(e), bridge_result' = "running"
  PROVE  /\ Balances(e, tx_open, ids)
         /\ tx_open' = OpenAfter(e, tx_open)
         /\ IdsOf(StackAfter(e, ids), frame_stack')
<1>1. CASE e.type = "FrameExit"
  BY <1>1, ExitTaken DEF Translate
<1>2. CASE e.type = "FrameEnter"
  <2>1. e.frameID \in Nat /\ e.depth \in Nat
    BY <1>2, WidthAssumption DEF EmesEvent, U64
  <2> QED BY <1>2, <2>1, EnterTaken DEF Translate
<1>3. CASE e.type \in {"TransactionStart", "TransactionEnd"}
  BY <1>3, TransactionTaken DEF Translate
<1>4. ASSUME e.type \notin {"FrameExit", "FrameEnter", "TransactionStart", "TransactionEnd"},
             tx_open' = tx_open, IdsOf(ids, frame_stack')
      PROVE  /\ Balances(e, tx_open, ids)
             /\ tx_open' = OpenAfter(e, tx_open)
             /\ IdsOf(StackAfter(e, ids), frame_stack')
  BY <1>4 DEF Balances, OpenAfter, StackAfter
<1>5. CASE e.type \in {"BlockStart", "BlockCommit"}
  <2>1. UNCHANGED <<tx_open, frame_stack>>
    BY <1>5 DEF Translate, TranslateBlockStart, TranslateBlockCommit, bridgeVars
  <2> QED BY <1>4, <1>5, <2>1 DEF IdsOf
<1>6. CASE e.type \in {"Mutation", "AccountCreated", "SelfDestruct"}
  <2>1. \E payload \in Payload : append_mutation(e.frameID, payload)
    BY <1>6, MutationAppended
  <2>2. tx_open' = tx_open /\ IdsOf(ids, frame_stack')
    BY <2>1, MutationTaken
  <2> QED BY <1>4, <1>6, <2>2
<1> QED BY <1>1, <1>2, <1>3, <1>5, <1>6 DEF Translate

\* No arm of the match is the end of the loop.
LEMMA ReadingGoesOn ==
  ASSUME NEW e, Translate(e)
  PROVE  bridge_result' # "Ok"
  BY DEF Translate, TranslateBlockStart, TranslateBlockCommit, TranslateTransactionStart,
         TranslateTransactionEnd, TranslateFrameEnter, TranslateFrameExit,
         TranslateMutation, TranslateAccountCreated, TranslateSelfDestruct,
         append_mutation, bridgeVars, BridgeFail, BridgeError

\* The inductive invariant: gated, the gate has passed what the bridge returns;
\* not gated, the buffers hold the ids of the open frames.
Accounted ==
  IF gated THEN bridge_result = "Ok" => verdict = "ok"
  ELSE /\ stream \in Seq(EmesEvent) /\ pos = Len(stream)
       /\ bridge_result = "running" =>
            \E ids \in Seq(Nat) : IdsOf(ids, frame_stack) /\ Scanned(stream, pos, tx_open, ids)
       /\ bridge_result = "Ok" => Balanced(stream)

LEMMA InitAccounted == Init => Accounted
<1> SUFFICES ASSUME Init PROVE Accounted
  OBVIOUS
<1>1. bridge_result = "running" /\ frame_stack = << >> /\ tx_open = FALSE /\ pos = 0
  BY DEF Init, BridgeInit
<1>2. CASE ~gated
  <2>1. stream = << >>
    BY <1>2, Zenon DEF Init
  <2>2. << >> \in Seq(Nat) /\ IdsOf(<< >>, frame_stack)
    BY <1>1 DEF IdsOf
  <2>3. Scanned(stream, 0, FALSE, << >>)
    BY ScannedAtStart
  <2>4. stream \in Seq(EmesEvent) /\ Len(stream) = 0
    BY <2>1
  <2> QED BY <1>1, <1>2, <2>2, <2>3, <2>4 DEF Accounted
<1> QED BY <1>1, <1>2 DEF Accounted

\* One event is read from a stream that is not gated.
LEMMA ReadUngatedAccounted ==
  ASSUME Accounted, Bracketing, NEW e \in EmesEvent, ReadUngated(e)
  PROVE  Accounted'
<1>1. /\ ~gated /\ gated' = gated /\ Translate(e) /\ bridge_result = "running"
      /\ stream \in Seq(EmesEvent) /\ pos = Len(stream)
      /\ stream' = Append(stream, e) /\ pos' = pos + 1
  BY DEF ReadUngated, Translate, Accounted
<1>2. /\ stream' \in Seq(EmesEvent) /\ Len(stream') = pos' /\ pos \in Nat
      /\ stream'[pos + 1] = e /\ SameTo(stream, stream', pos)
  BY <1>1, Pushed DEF SameTo
<1>3. bridge_result' # "Ok"
  BY <1>1, ReadingGoesOn
<1>4. ASSUME bridge_result' = "running"
      PROVE  \E r \in Seq(Nat) : IdsOf(r, frame_stack') /\ Scanned(stream', pos', tx_open', r)
  <2>1. PICK ids \in Seq(Nat) : IdsOf(ids, frame_stack) /\ Scanned(stream, pos, tx_open, ids)
    BY <1>1 DEF Accounted
  <2>2. /\ Balances(e, tx_open, ids) /\ tx_open' = OpenAfter(e, tx_open)
        /\ IdsOf(StackAfter(e, ids), frame_stack')
    BY <1>1, <1>4, <2>1, EventTaken
  <2>3. Scanned(stream', pos, tx_open, ids)
    BY <1>2, <2>1, ScannedSame
  <2>4. e.type = "FrameEnter" => e.frameID \in Nat
    BY WidthAssumption DEF EmesEvent, U64
  <2>5. tx_open \in BOOLEAN
    BY DEF Bracketing
  <2>6. Scanned(stream', pos + 1, OpenAfter(e, tx_open), StackAfter(e, ids))
    BY <1>2, <2>2, <2>3, <2>4, <2>5, ScannedNext
  <2>7. StackAfter(e, ids) \in Seq(Nat)
    <3>1. CASE e.type = "FrameEnter"
      BY <2>4, <3>1, Pushed DEF StackAfter
    <3>2. CASE e.type = "FrameExit"
      <4>1. ids # << >>
        BY <2>2, <3>2 DEF Balances
      <4> QED BY <3>2, <4>1, Popped DEF StackAfter
    <3> QED BY <3>1, <3>2 DEF StackAfter
  <2> QED BY <1>1, <2>2, <2>6, <2>7
<1> QED BY <1>1, <1>2, <1>3, <1>4 DEF Accounted

LEMMA EndUngatedAccounted ==
  ASSUME Accounted, Bracketing, EndUngated
  PROVE  Accounted'
<1>1. /\ ~gated /\ gated' = gated /\ TranslateFinish /\ bridge_result = "running"
      /\ stream \in Seq(EmesEvent) /\ pos = Len(stream)
      /\ stream' = stream /\ pos' = pos
  BY DEF EndUngated, TranslateFinish, Accounted
<1>2. bridge_result' # "running" /\ (bridge_result' = "Ok" => ~tx_open)
  BY <1>1 DEF TranslateFinish, BridgeFail
<1>3. PICK ids \in Seq(Nat) : Scanned(stream, pos, tx_open, ids)
  BY <1>1 DEF Accounted
<1>4. ~tx_open => Balanced(stream)
  BY <1>1, <1>3 DEF Scanned, Balanced
<1> QED BY <1>1, <1>2, <1>4 DEF Accounted

\* The bridge (translate.rs) returns an error for every stream whose transactions
\* and frames are not balanced, gated or not, of any length and any depth.
THEOREM BridgeRefusesUnbalanced == Spec => []UnbalancedRefused
<1>1. Init => Accounted /\ Bracketing
  BY InitAccounted, InitBracketing DEF Init
<1>2. InStep /\ Bracketing /\ [Next]_vars => Bracketing'
  <2> SUFFICES ASSUME InStep, Bracketing, [Next]_vars PROVE Bracketing'
    OBVIOUS
  <2>1. CASE UNCHANGED bridgeVars
    BY <2>1, BracketingKept DEF bridgeVars
  <2> QED BY <2>1, BridgeMoves, TranslateBracketing, FinishBracketing
<1>3. Accounted /\ Bracketing /\ [Next]_vars => Accounted'
  <2> SUFFICES ASSUME Accounted, Bracketing, [Next]_vars PROVE Accounted'
    OBVIOUS
  <2>1. CASE Begin
    BY <2>1 DEF Begin, GateBegin, bridgeVars, Accounted
  <2>2. CASE ReadNext
    <3>1. PICK e : Read(e) /\ gated
      BY <2>2 DEF ReadNext
    <3>2. verdict = "running" /\ gated' = gated
      BY <3>1 DEF Read, GateRead
    <3>3. bridge_result' # "Ok"
      BY <3>1, <3>2, ReadingGoesOn DEF Read, bridgeVars, Accounted
    <3> QED BY <3>1, <3>2, <3>3 DEF Accounted
  <2>3. CASE End
    BY <2>3 DEF End, GateEnd, bridgeVars, Accounted
  <2>4. CASE \E e \in Anything : ReadUngated(e)
    BY <2>4, AnythingTyped, ReadUngatedAccounted
  <2>5. CASE EndUngated
    BY <2>5, EndUngatedAccounted
  <2>6. CASE UNCHANGED vars
    BY <2>6 DEF vars, gateVars, bridgeVars, Accounted
  <2> QED BY <2>1, <2>2, <2>3, <2>4, <2>5, <2>6 DEF Next, Judged
<1>4. Accounted /\ GateExact => UnbalancedRefused
  BY DEF Accounted, GateExact, UnbalancedRefused, WellFormed
<1> QED BY <1>1, <1>2, <1>3, <1>4, InStepInvariant, GateIsExact, PTL DEF Spec

-----------------------------------------------------------------------------
(***************************************************************************)
(* Whose events the bridge returns.                                        *)
(***************************************************************************)

\* Event i of s belongs to a transaction that was started with this hash.
Started(s, i, hash) ==
  \E h \in 1..i : /\ s[h].type = "TransactionStart" /\ s[h].hash = hash
                  /\ \A m \in h+1..i : s[m].type # "TransactionStart"

\* x bears the id and the depth of the frame that event i of s enters.
Of(s, i, x) ==
  /\ s[i].type = "FrameEnter"
  /\ s[i].frameID = x.call_frame_id /\ s[i].depth = x.call_depth
  /\ Started(s, i, x.transaction_hash)

\* Among the first p events, that of a frame that committed.
Survived(s, p, x) ==
  \E i, j \in 1..p : Of(s, i, x) /\ Closes(s, i, j) /\ ~s[j].reverted

Named(s, p, x) ==
  \/ x.call_frame_id = U32_MAX /\ x.call_depth = 0
  \/ Survived(s, p, x)

AllNamed(s, p, q) == \A i \in 1..Len(q) : Named(s, p, q[i])

\* The j-th buffer belongs to the j-th of the open frames, and holds events of it
\* and of frames inside it that committed.
HoldsFrame(s, p, j, b, hash) ==
  \E h \in 1..p :
    /\ OpenFrame(s, h, j, p)
    /\ s[h].frameID = b.frame_id /\ s[h].depth = b.depth /\ Started(s, h, hash)
    /\ \A i \in 1..Len(b.events) : Of(s, h, b.events[i]) \/ Survived(s, p, b.events[i])

AllHold(s, p, stack, hash) ==
  /\ FrameDepth(s, p) = Len(stack)
  /\ \A j \in 1..Len(stack) : HoldsFrame(s, p, j, stack[j], hash)

\* What is so far, one event on, is still so: s and t agree up to p.

LEMMA StartedStays ==
  ASSUME NEW s, NEW t, NEW p \in Nat, SameTo(s, t, p), NEW i \in 1..p, NEW hash,
         Started(s, i, hash)
  PROVE  Started(t, i, hash)
<1>1. PICK h \in 1..i : /\ s[h].type = "TransactionStart" /\ s[h].hash = hash
                        /\ \A m \in h+1..i : s[m].type # "TransactionStart"
  BY DEF Started
<1>2. \A m \in 1..i : m \in 1..p /\ s[m] = t[m]
  BY DEF SameTo
<1>3. \A m \in h+1..i : m \in 1..i
  BY <1>1
<1> QED BY <1>1, <1>2, <1>3 DEF Started

LEMMA StartedNext ==
  ASSUME NEW s, NEW t, NEW p \in Nat, SameTo(s, t, p), NEW hash,
         Started(s, p, hash), t[p + 1].type # "TransactionStart"
  PROVE  Started(t, p + 1, hash)
<1>1. PICK h \in 1..p : /\ s[h].type = "TransactionStart" /\ s[h].hash = hash
                        /\ \A m \in h+1..p : s[m].type # "TransactionStart"
  BY DEF Started
<1>2. \A m \in 1..p : s[m] = t[m]
  BY DEF SameTo
<1>3. \A m \in h+1..p+1 : m = p + 1 \/ (m \in h+1..p /\ m \in 1..p)
  BY <1>1
<1>4. h \in 1..p+1
  BY <1>1
<1> QED BY <1>1, <1>2, <1>3, <1>4 DEF Started

LEMMA OfStays ==
  ASSUME NEW s, NEW t, NEW p \in Nat, SameTo(s, t, p), NEW i \in 1..p, NEW x, Of(s, i, x)
  PROVE  Of(t, i, x)
  BY StartedStays DEF Of, SameTo

LEMMA SurvivedStays ==
  ASSUME NEW s, NEW t, NEW p \in Nat, SameTo(s, t, p), NEW x, Survived(s, p, x)
  PROVE  Survived(t, p + 1, x)
<1>1. PICK i \in 1..p, j \in 1..p : Of(s, i, x) /\ Closes(s, i, j) /\ ~s[j].reverted
  BY DEF Survived
<1>2. Of(t, i, x)
  BY <1>1, OfStays
<1>3. \A m \in 1..p : s[m] = t[m] /\ FrameDepth(s, m) = FrameDepth(t, m)
  BY DepthSame DEF SameTo
<1>4. \A m \in i..j-1 : m \in 1..p
  BY <1>1
<1>5. Closes(t, i, j)
  BY <1>1, <1>3, <1>4 DEF Closes
<1>6. i \in 1..p+1 /\ j \in 1..p+1
  BY <1>1
<1> QED BY <1>1, <1>2, <1>3, <1>5, <1>6 DEF Survived

LEMMA AllNamedStays ==
  ASSUME NEW s, NEW t, NEW p \in Nat, SameTo(s, t, p), NEW q, AllNamed(s, p, q)
  PROVE  AllNamed(t, p + 1, q)
  BY SurvivedStays DEF AllNamed, Named

\* A frame that the next event does not close stays open.
LEMMA HoldsStays ==
  ASSUME NEW s, NEW t, NEW p \in Nat, SameTo(s, t, p), NEW j, NEW b, NEW hash,
         HoldsFrame(s, p, j, b, hash), FrameDepth(t, p + 1) >= j
  PROVE  HoldsFrame(t, p + 1, j, b, hash)
<1>1. PICK h \in 1..p :
        /\ OpenFrame(s, h, j, p)
        /\ s[h].frameID = b.frame_id /\ s[h].depth = b.depth /\ Started(s, h, hash)
        /\ \A i \in 1..Len(b.events) : Of(s, h, b.events[i]) \/ Survived(s, p, b.events[i])
  BY DEF HoldsFrame
<1>2. \A m \in 1..p : s[m] = t[m] /\ FrameDepth(s, m) = FrameDepth(t, m)
  BY DepthSame DEF SameTo
<1>3. \A m \in h..p+1 : m = p + 1 \/ (m \in h..p /\ m \in 1..p)
  BY <1>1
<1>4. OpenFrame(t, h, j, p + 1)
  <2>1. h \in 1..p+1
    BY <1>1
  <2> QED BY <1>1, <1>2, <1>3, <2>1 DEF OpenFrame
<1>5. t[h].frameID = b.frame_id /\ t[h].depth = b.depth /\ Started(t, h, hash)
  BY <1>1, <1>2, StartedStays
<1>6. \A i \in 1..Len(b.events) : Of(t, h, b.events[i]) \/ Survived(t, p + 1, b.events[i])
  BY <1>1, OfStays, SurvivedStays
<1>7. h \in 1..p+1
  BY <1>1
<1> QED BY <1>4, <1>5, <1>6, <1>7 DEF HoldsFrame

\* What the buffer of a committed frame holds has survived.
LEMMA ClosedSurvives ==
  ASSUME NEW s, NEW t, NEW p \in Nat, SameTo(s, t, p), NEW b, NEW hash,
         NEW n, n = FrameDepth(s, p), HoldsFrame(s, p, n, b, hash),
         t[p + 1].type = "FrameExit", ~t[p + 1].reverted
  PROVE  \A i \in 1..Len(b.events) : Survived(t, p + 1, b.events[i])
<1>1. PICK h \in 1..p :
        /\ OpenFrame(s, h, n, p)
        /\ \A i \in 1..Len(b.events) : Of(s, h, b.events[i]) \/ Survived(s, p, b.events[i])
  BY DEF HoldsFrame
<1>2. \A m \in 0..p : FrameDepth(s, m) = FrameDepth(t, m)
  BY DepthSame
<1>3. \A m \in 1..p : s[m] = t[m]
  BY DEF SameTo
<1>4. OpenFrame(t, h, FrameDepth(t, p), p)
  <2>1. p \in 0..p /\ h \in 0..p /\ \A m \in h..p : m \in 0..p
    BY <1>1
  <2> QED BY <1>1, <1>2, <1>3, <2>1 DEF OpenFrame
<1>5. h \in 1..p+1 /\ p + 1 \in 1..p+1
  BY <1>1
<1>6. Closes(t, h, p + 1)
  BY <1>4, <1>5, ClosesInnermostFrame
<1> TAKE i \in 1..Len(b.events)
<1>7. CASE Of(s, h, b.events[i])
  <2>1. Of(t, h, b.events[i])
    BY <1>1, <1>7, OfStays
  <2> QED BY <1>5, <1>6, <2>1 DEF Survived
<1>8. CASE Survived(s, p, b.events[i])
  BY <1>8, SurvivedStays
<1> QED BY <1>1, <1>7, <1>8

\* What is true of the bridge's variables after p events.
FramesKnown(s, p, open, hash, stack, output, final) ==
  /\ open => Started(s, p, hash)
  /\ AllHold(s, p, stack, hash)
  /\ AllNamed(s, p, output)
  /\ AllNamed(s, p, final)

\* Joining what has a name.
LEMMA NamedJoined ==
  ASSUME NEW s, NEW p, NEW q \in Seq(CseEvent), NEW r \in Seq(CseEvent),
         AllNamed(s, p, q), AllNamed(s, p, r)
  PROVE  AllNamed(s, p, q \o r)
<1>1. /\ Len(q) \in Nat /\ Len(r) \in Nat /\ Len(q \o r) = Len(q) + Len(r)
      /\ \A i \in 1..Len(q) : (q \o r)[i] = q[i]
      /\ \A i \in 1..Len(r) : (q \o r)[Len(q) + i] = r[i]
  BY ConcatElements
<1> DEFINE qr == q \o r
<1> HIDE DEF qr
<1>2. ASSUME NEW i \in 1..Len(qr) PROVE Named(s, p, qr[i])
  <2>1. CASE i \in 1..Len(q)
    BY <1>1, <2>1 DEF qr, AllNamed
  <2>2. CASE i \notin 1..Len(q)
    <3>1. i - Len(q) \in 1..Len(r) /\ i = Len(q) + (i - Len(q))
      BY <1>1, <2>2 DEF qr
    <3>2. qr[i] = r[i - Len(q)]
      BY <1>1, <3>1 DEF qr
    <3> QED BY <3>1, <3>2 DEF AllNamed
  <2> QED BY <2>1, <2>2
<1> QED BY <1>2 DEF qr, AllNamed

LEMMA NamedAppended ==
  ASSUME NEW s, NEW p, NEW q \in Seq(CseEvent), NEW x \in CseEvent,
         AllNamed(s, p, q), Named(s, p, x)
  PROVE  AllNamed(s, p, Append(q, x))
<1>1. /\ Len(Append(q, x)) = Len(q) + 1 /\ Len(q) \in Nat
      /\ \A j \in 1..Len(q) : Append(q, x)[j] = q[j]
      /\ Append(q, x)[Len(q) + 1] = x
  BY Pushed
<1> DEFINE qx == Append(q, x)
<1> HIDE DEF qx
<1>2. ASSUME NEW i \in 1..Len(qx) PROVE Named(s, p, qx[i])
  <2>1. i \in 1..Len(q) \/ i = Len(q) + 1
    BY <1>1 DEF qx
  <2> QED BY <1>1, <2>1 DEF qx, AllNamed
<1> QED BY <1>2 DEF qx, AllNamed

\* An event that is no frame's leaves the buffers as they are.
LEMMA AllHoldStays ==
  ASSUME NEW s, NEW t, NEW p \in Nat, SameTo(s, t, p), NEW stack, NEW hash,
         AllHold(s, p, stack, hash), t[p + 1].type \notin {"FrameEnter", "FrameExit"}
  PROVE  AllHold(t, p + 1, stack, hash)
<1>1. FrameDepth(t, p) = FrameDepth(s, p)
  <2>1. p \in 0..p
    OBVIOUS
  <2> QED BY <2>1, DepthSame
<1>2. FrameDepth(t, p + 1) = FrameDepth(t, p) /\ FrameDepth(t, p) \in Int
  BY FrameDepthNext
<1>3. Len(stack) = FrameDepth(t, p + 1)
  BY <1>1, <1>2 DEF AllHold
<1>4. ASSUME NEW j \in 1..Len(stack) PROVE HoldsFrame(t, p + 1, j, stack[j], hash)
  <2>1. FrameDepth(t, p + 1) >= j
    BY <1>2, <1>3
  <2> QED BY <2>1, HoldsStays DEF AllHold
<1> QED BY <1>3, <1>4 DEF AllHold

LEMMA StartNamed ==
  ASSUME Bracketing, NEW s, NEW t, NEW p \in Nat, SameTo(s, t, p),
         FramesKnown(s, p, tx_open, tx_hash, frame_stack, tx_output, final_output),
         NEW e \in EmesEvent, t[p + 1] = e, e.type = "TransactionStart",
         TranslateTransactionStart(e), bridge_result' = "running"
  PROVE  FramesKnown(t, p + 1, tx_open', tx_hash', frame_stack', tx_output', final_output')
<1> DEFINE b == boundary_event("BeginTransaction", e.hash, e.txIndex)
<1>1. /\ ~tx_open /\ tx_open' = TRUE /\ tx_hash' = e.hash /\ tx_output' = <<b>>
      /\ frame_stack' = << >> /\ final_output' = final_output
  BY DEF TranslateTransactionStart, BridgeFail
<1>2. Started(t, p + 1, e.hash)
  BY DEF Started
<1>3. frame_stack = << >>
  BY <1>1 DEF Bracketing
<1>4. AllHold(t, p + 1, << >>, e.hash)
  <2>1. AllHold(t, p + 1, frame_stack, tx_hash)
    BY AllHoldStays DEF FramesKnown
  <2> QED BY <1>3, <2>1 DEF AllHold
<1>5. AllNamed(t, p + 1, <<b>>)
  <2>1. b.call_frame_id = U32_MAX /\ b.call_depth = 0
    BY DEF boundary_event, CseEventOf
  <2> HIDE DEF b
  <2> QED BY <2>1 DEF AllNamed, Named
<1>6. AllNamed(t, p + 1, final_output)
  BY AllNamedStays DEF FramesKnown
<1> HIDE DEF b
<1> QED BY <1>1, <1>2, <1>4, <1>5, <1>6 DEF FramesKnown

LEMMA EndNamed ==
  ASSUME Bracketing, NEW s, NEW t, NEW p \in Nat, SameTo(s, t, p),
         FramesKnown(s, p, tx_open, tx_hash, frame_stack, tx_output, final_output),
         NEW e \in EmesEvent, t[p + 1] = e, e.type = "TransactionEnd",
         TranslateTransactionEnd(e), bridge_result' = "running"
  PROVE  FramesKnown(t, p + 1, tx_open', tx_hash', frame_stack', tx_output', final_output')
<1> DEFINE b == boundary_event("EndTransaction", tx_hash, tx_index)
<1>1. /\ tx_open' = FALSE /\ tx_hash' = tx_hash /\ tx_output' = << >>
      /\ frame_stack' = frame_stack /\ final_output' = final_output \o Append(tx_output, b)
  BY DEF TranslateTransactionEnd, BridgeFail, bridgeContext
<1>2. AllHold(t, p + 1, frame_stack, tx_hash)
  BY AllHoldStays DEF FramesKnown
<1>3. AllNamed(t, p + 1, tx_output) /\ AllNamed(t, p + 1, final_output)
  BY AllNamedStays DEF FramesKnown
<1>4. Named(t, p + 1, b)
  BY DEF boundary_event, CseEventOf, Named
<1>5. b \in CseEvent /\ tx_output \in Seq(CseEvent) /\ final_output \in Seq(CseEvent)
  BY BoundaryType DEF Bracketing
<1> HIDE DEF b
<1>6. Append(tx_output, b) \in Seq(CseEvent) /\ AllNamed(t, p + 1, Append(tx_output, b))
  BY <1>3, <1>4, <1>5, Pushed, NamedAppended
<1>7. AllNamed(t, p + 1, final_output')
  BY <1>1, <1>3, <1>5, <1>6, NamedJoined
<1>8. AllNamed(t, p + 1, << >>)
  BY DEF AllNamed
<1> QED BY <1>1, <1>2, <1>7, <1>8 DEF FramesKnown

LEMMA EnterNamed ==
  ASSUME Bracketing, NEW s, NEW t, NEW p \in Nat, SameTo(s, t, p),
         FramesKnown(s, p, tx_open, tx_hash, frame_stack, tx_output, final_output),
         NEW e \in EmesEvent, t[p + 1] = e, e.type = "FrameEnter",
         TranslateFrameEnter(e), bridge_result' = "running"
  PROVE  FramesKnown(t, p + 1, tx_open', tx_hash', frame_stack', tx_output', final_output')
<1> DEFINE b == [frame_id |-> e.frameID, depth |-> e.depth, events |-> << >>]
           n == Len(frame_stack)
<1>1. /\ tx_open /\ frame_stack' = Append(frame_stack, b) /\ tx_open' = tx_open
      /\ tx_hash' = tx_hash /\ tx_output' = tx_output /\ final_output' = final_output
  BY DEF TranslateFrameEnter, BridgeFail, bridgeContext
<1>2. Started(t, p + 1, tx_hash)
  BY <1>1, StartedNext DEF FramesKnown
<1>3. AllNamed(t, p + 1, tx_output) /\ AllNamed(t, p + 1, final_output)
  BY AllNamedStays DEF FramesKnown
<1>4. /\ b \in BufferOf(Nat, Nat) /\ b.frame_id = e.frameID /\ b.depth = e.depth
      /\ Len(b.events) = 0
  <2>1. e.frameID \in Nat /\ e.depth \in Nat
    BY WidthAssumption DEF EmesEvent, U64
  <2> QED BY <2>1 DEF BufferOf
<1> HIDE DEF b
<1>5. frame_stack \in Seq(BufferOf(Nat, Nat))
  BY DEF Bracketing
<1>6. /\ Len(frame_stack') = n + 1 /\ n \in Nat
      /\ \A j \in 1..n : frame_stack'[j] = frame_stack[j]
      /\ frame_stack'[n + 1] = b
  BY <1>1, <1>4, <1>5, Pushed
<1>7. FrameDepth(t, p + 1) = n + 1
  <2>1. p \in 0..p
    OBVIOUS
  <2>2. FrameDepth(t, p) = n
    BY <2>1, DepthSame DEF FramesKnown, AllHold
  <2> QED BY <2>2, FrameDepthNext
<1> HIDE DEF n
<1>8. ASSUME NEW j \in 1..n PROVE HoldsFrame(t, p + 1, j, frame_stack'[j], tx_hash)
  <2>1. HoldsFrame(s, p, j, frame_stack[j], tx_hash)
    BY DEF FramesKnown, AllHold, n
  <2>2. FrameDepth(t, p + 1) >= j
    BY <1>6, <1>7
  <2> QED BY <1>6, <2>1, <2>2, HoldsStays
<1>9. HoldsFrame(t, p + 1, n + 1, b, tx_hash)
  <2>1. OpenFrame(t, p + 1, n + 1, p + 1)
    <3>1. p + 1 \in 1..p+1 /\ \A m \in p+1..p+1 : m = p + 1
      OBVIOUS
    <3>2. n + 1 >= n + 1
      BY <1>6
    <3> QED BY <1>7, <3>1, <3>2 DEF OpenFrame
  <2>2. \A i \in 1..Len(b.events) : FALSE
    BY <1>4
  <2>3. p + 1 \in 1..p+1
    OBVIOUS
  <2> QED BY <1>2, <1>4, <2>1, <2>2, <2>3 DEF HoldsFrame
<1>10. AllHold(t, p + 1, frame_stack', tx_hash)
  <2>1. \A j \in 1..n+1 : j \in 1..n \/ j = n + 1
    BY <1>6
  <2> QED BY <1>6, <1>7, <1>8, <1>9, <2>1 DEF AllHold
<1> QED BY <1>1, <1>2, <1>3, <1>10 DEF FramesKnown

LEMMA ExitNamed ==
  ASSUME Bracketing, NEW s, NEW t, NEW p \in Nat, SameTo(s, t, p),
         FramesKnown(s, p, tx_open, tx_hash, frame_stack, tx_output, final_output),
         NEW e \in EmesEvent, t[p + 1] = e, e.type = "FrameExit",
         TranslateFrameExit(e), bridge_result' = "running"
  PROVE  FramesKnown(t, p + 1, tx_open', tx_hash', frame_stack', tx_output', final_output')
<1> DEFINE n == Len(frame_stack)
<1>1. /\ tx_open /\ frame_stack # << >> /\ IF e.reverted THEN Discard ELSE Merge(Top.events)
      /\ tx_open' = tx_open /\ tx_hash' = tx_hash /\ final_output' = final_output
  BY DEF TranslateFrameExit, BridgeFail, bridgeContext
<1>2. /\ n \in Nat \ {0} /\ n \in 1..n
      /\ Pop \in Seq(BufferOf(Nat, Nat)) /\ Len(Pop) = n - 1
      /\ \A j \in 1..Len(Pop) : Pop[j] = frame_stack[j]
      /\ Top.events \in Seq(CseEvent) /\ tx_output \in Seq(CseEvent)
  BY <1>1, TopAndRest DEF Bracketing
<1>3. Started(t, p + 1, tx_hash)
  BY <1>1, StartedNext DEF FramesKnown
<1>4. AllNamed(t, p + 1, tx_output) /\ AllNamed(t, p + 1, final_output)
  BY AllNamedStays DEF FramesKnown
<1>5. FrameDepth(s, p) = n /\ FrameDepth(t, p + 1) = n - 1
  <2>1. p \in 0..p
    OBVIOUS
  <2>2. FrameDepth(t, p) = n /\ FrameDepth(s, p) = n
    BY <2>1, DepthSame DEF FramesKnown, AllHold
  <2> QED BY <2>2, FrameDepthNext
<1>6. ASSUME NEW j \in 1..n - 1 PROVE HoldsFrame(t, p + 1, j, Pop[j], tx_hash)
  <2>1. j \in 1..n /\ Pop[j] = frame_stack[j] /\ FrameDepth(t, p + 1) >= j
    BY <1>2, <1>5
  <2>2. HoldsFrame(s, p, j, frame_stack[j], tx_hash)
    BY <2>1 DEF FramesKnown, AllHold
  <2> QED BY <2>1, <2>2, HoldsStays
<1>7. ~e.reverted => \A i \in 1..Len(Top.events) : Survived(t, p + 1, Top.events[i])
  <2>1. HoldsFrame(s, p, n, Top, tx_hash)
    BY <1>2 DEF FramesKnown, AllHold, Top
  <2> QED BY <1>5, <2>1, ClosedSurvives
<1>8. CASE frame_stack' = Pop /\ tx_output' = tx_output
  BY <1>1, <1>2, <1>3, <1>4, <1>5, <1>6, <1>8 DEF FramesKnown, AllHold
<1>9. CASE ~e.reverted /\ n = 1 /\ frame_stack' = Pop /\ tx_output' = tx_output \o Top.events
  <2>1. AllNamed(t, p + 1, Top.events)
    BY <1>7, <1>9 DEF AllNamed, Named
  <2>2. AllNamed(t, p + 1, tx_output')
    BY <1>2, <1>4, <1>9, <2>1, NamedJoined
  <2> QED BY <1>1, <1>2, <1>3, <1>4, <1>5, <1>6, <1>9, <2>2 DEF FramesKnown, AllHold
<1>10. CASE /\ ~e.reverted /\ n > 1 /\ tx_output' = tx_output
            /\ frame_stack' = [Pop EXCEPT ![n - 1].events = @ \o Top.events]
  <2> DEFINE m == n - 1
             old == Pop[m].events
             new == Top.events
             es == old \o new
  <2>1. m \in 1..Len(Pop)
    BY <1>2, <1>10
  <2>2. Refilled(Pop, m, es, frame_stack')
    <3> HIDE DEF n
    <3> QED BY <1>10 DEF Refilled
  <2>3. old \in Seq(CseEvent)
    <3>1. Pop[m] \in BufferOf(Nat, Nat)
      <4> HIDE DEF m
      <4> QED BY <1>2, <2>1, ElementOfSeq
    <3> QED BY <3>1 DEF BufferOf
  <2>4. /\ es \in Seq(CseEvent) /\ Len(es) = Len(old) + Len(new)
        /\ Len(old) \in Nat /\ Len(new) \in Nat
        /\ \A i \in 1..Len(old) : es[i] = old[i]
        /\ \A i \in 1..Len(new) : es[Len(old) + i] = new[i]
    <3> HIDE DEF old, new
    <3> QED BY <1>2, <2>3, ConcatElements DEF new
  <2> HIDE DEF es
  <2>5. /\ Len(frame_stack') = Len(Pop)
        /\ \A j \in 1..Len(Pop) : /\ frame_stack'[j].frame_id = Pop[j].frame_id
                                  /\ frame_stack'[j].depth = Pop[j].depth
                                  /\ frame_stack'[j].events = IF j = m THEN es ELSE Pop[j].events
    <3>1. Pop \in Seq(BufferOf(Nat, Nat)) /\ es \in Seq(CseEvent)
      BY <1>2, <2>4
    <3> HIDE DEF m, n, old, new
    <3> QED BY <2>1, <2>2, <3>1, BufferRefilled
  <2>6. ASSUME NEW j \in 1..n - 1 PROVE HoldsFrame(t, p + 1, j, frame_stack'[j], tx_hash)
    <3>1. j \in 1..Len(Pop)
      BY <1>2
    <3>2. PICK h \in 1..p+1 :
            /\ OpenFrame(t, h, j, p + 1)
            /\ t[h].frameID = Pop[j].frame_id /\ t[h].depth = Pop[j].depth
            /\ Started(t, h, tx_hash)
            /\ \A i \in 1..Len(Pop[j].events) :
                 Of(t, h, Pop[j].events[i]) \/ Survived(t, p + 1, Pop[j].events[i])
      BY <1>6 DEF HoldsFrame
    <3>3. \A i \in 1..Len(frame_stack'[j].events) :
            \/ Of(t, h, frame_stack'[j].events[i])
            \/ Survived(t, p + 1, frame_stack'[j].events[i])
      <4>1. CASE j # m
        BY <2>5, <3>1, <3>2, <4>1
      <4>2. CASE j = m
        <5>1. frame_stack'[j].events = es
          BY <2>5, <3>1, <4>2
        <5>2. ASSUME NEW i \in 1..Len(es)
              PROVE  Of(t, h, es[i]) \/ Survived(t, p + 1, es[i])
          <6>1. CASE i \in 1..Len(old)
            <7>1. es[i] = Pop[j].events[i] /\ i \in 1..Len(Pop[j].events)
              BY <2>4, <4>2, <6>1
            <7> QED BY <3>2, <7>1
          <6>2. CASE i \notin 1..Len(old)
            <7>1. i - Len(old) \in 1..Len(new) /\ i = Len(old) + (i - Len(old))
              <8> HIDE DEF old, new
              <8> QED BY <2>4, <6>2
            <7>2. es[i] = new[i - Len(old)]
              <8> HIDE DEF old, new
              <8> QED BY <2>4, <7>1
            <7> QED BY <1>7, <1>10, <7>1, <7>2
          <6> QED BY <6>1, <6>2
        <5> QED BY <5>1, <5>2
      <4> QED BY <4>1, <4>2
    <3> QED BY <2>5, <3>1, <3>2, <3>3 DEF HoldsFrame
  <2>7. AllHold(t, p + 1, frame_stack', tx_hash)
    <3> HIDE DEF n, m
    <3> QED BY <1>2, <1>5, <2>5, <2>6 DEF AllHold
  <2> QED BY <1>1, <1>3, <1>4, <1>10, <2>7 DEF FramesKnown
<1>11. \/ frame_stack' = Pop /\ tx_output' = tx_output
       \/ ~e.reverted /\ n = 1 /\ frame_stack' = Pop /\ tx_output' = tx_output \o Top.events
       \/ /\ ~e.reverted /\ n > 1 /\ tx_output' = tx_output
          /\ frame_stack' = [Pop EXCEPT ![n - 1].events = @ \o Top.events]
  BY <1>1 DEF Discard, Merge
<1> HIDE DEF n
<1> QED BY <1>8, <1>9, <1>10, <1>11

LEMMA MutationNamed ==
  ASSUME Bracketing, NEW s, NEW t, NEW p \in Nat, SameTo(s, t, p),
         FramesKnown(s, p, tx_open, tx_hash, frame_stack, tx_output, final_output),
         t[p + 1].type \notin {"FrameEnter", "FrameExit", "TransactionStart"},
         NEW frameID, NEW payload \in Payload,
         append_mutation(frameID, payload), bridge_result' = "running"
  PROVE  FramesKnown(t, p + 1, tx_open', tx_hash', frame_stack', tx_output', final_output')
<1>1. tx_open' = tx_open /\ tx_hash' = tx_hash /\ final_output' = final_output
  BY DEF append_mutation, BridgeFail, bridgeContext
<1>2. tx_open => Started(t, p + 1, tx_hash)
  BY StartedNext DEF FramesKnown
<1>3. AllNamed(t, p + 1, tx_output) /\ AllNamed(t, p + 1, final_output)
  BY AllNamedStays DEF FramesKnown
<1>4. AllHold(t, p + 1, frame_stack, tx_hash)
  BY AllHoldStays DEF FramesKnown
<1>5. /\ block_number \in Nat /\ tx_hash \in Nat /\ tx_index \in Nat
      /\ tx_output \in Seq(CseEvent) /\ frame_stack \in Seq(BufferOf(Nat, Nat))
  BY DEF Bracketing
<1>6. CASE \E x : /\ x = CseEventOf(payload, U32_MAX, 0, tx_hash, tx_index)
                  /\ tx_output' = Append(tx_output, x) /\ frame_stack' = frame_stack
  <2>1. PICK x : /\ x = CseEventOf(payload, U32_MAX, 0, tx_hash, tx_index)
                 /\ tx_output' = Append(tx_output, x) /\ frame_stack' = frame_stack
    BY <1>6
  <2>2. U32_MAX \in 0..U32_MAX /\ 0 \in 0..U32_MAX
    BY WidthAssumption
  <2>3. x \in CseEvent
    BY <1>5, <2>1, <2>2, CseEventType
  <2>4. Named(t, p + 1, x)
    BY <2>1 DEF CseEventOf, Named
  <2>5. AllNamed(t, p + 1, tx_output')
    BY <1>3, <1>5, <2>1, <2>3, <2>4, NamedAppended
  <2> QED BY <1>1, <1>2, <1>3, <1>4, <2>1, <2>5 DEF FramesKnown
<1>7. CASE \E x : /\ frame_stack # << >> /\ Top.frame_id <= U32_MAX /\ Top.depth <= U32_MAX
                  /\ x = CseEventOf(payload, Top.frame_id, Top.depth, tx_hash, tx_index)
                  /\ frame_stack' = [frame_stack EXCEPT
                                       ![Len(frame_stack)].events = Append(@, x)]
                  /\ tx_output' = tx_output
  <2> DEFINE n == Len(frame_stack)
  <2>1. PICK x : /\ frame_stack # << >> /\ Top.frame_id <= U32_MAX /\ Top.depth <= U32_MAX
                 /\ x = CseEventOf(payload, Top.frame_id, Top.depth, tx_hash, tx_index)
                 /\ frame_stack' = [frame_stack EXCEPT
                                      ![Len(frame_stack)].events = Append(@, x)]
                 /\ tx_output' = tx_output
    BY <1>7
  <2>2. /\ Top \in BufferOf(Nat, Nat) /\ Top.events \in Seq(CseEvent)
        /\ n \in Nat \ {0} /\ n \in 1..n
    BY <2>1, TopAndRest
  <2>3. Top.frame_id \in 0..U32_MAX /\ Top.depth \in 0..U32_MAX
    <3>1. Top.frame_id \in Nat /\ Top.depth \in Nat
      BY <2>2 DEF BufferOf
    <3> QED BY <2>1, <3>1, WidthAssumption
  <2>4. x \in CseEvent
    BY <1>5, <2>1, <2>3, CseEventType
  <2>5. /\ x.call_frame_id = Top.frame_id /\ x.call_depth = Top.depth
        /\ x.transaction_hash = tx_hash
    BY <2>1 DEF CseEventOf
  <2> DEFINE old == Top.events
             es == Append(old, x)
  <2>6. /\ es \in Seq(CseEvent) /\ Len(es) = Len(old) + 1 /\ Len(old) \in Nat
        /\ \A i \in 1..Len(old) : es[i] = old[i]
        /\ es[Len(old) + 1] = x
    <3> HIDE DEF old
    <3> QED BY <2>2, <2>4, Pushed DEF old
  <2>7. Refilled(frame_stack, n, es, frame_stack')
    BY <2>1 DEF Refilled, Top
  <2> HIDE DEF es
  <2>8. /\ Len(frame_stack') = n
        /\ \A j \in 1..n : /\ frame_stack'[j].frame_id = frame_stack[j].frame_id
                           /\ frame_stack'[j].depth = frame_stack[j].depth
                           /\ frame_stack'[j].events = IF j = n THEN es ELSE frame_stack[j].events
    BY <1>5, <2>2, <2>6, <2>7, BufferRefilled, SMTT(30)
  <2>9. ASSUME NEW j \in 1..n PROVE HoldsFrame(t, p + 1, j, frame_stack'[j], tx_hash)
    <3>1. PICK h \in 1..p+1 :
            /\ OpenFrame(t, h, j, p + 1)
            /\ t[h].frameID = frame_stack[j].frame_id /\ t[h].depth = frame_stack[j].depth
            /\ Started(t, h, tx_hash)
            /\ \A i \in 1..Len(frame_stack[j].events) :
                 \/ Of(t, h, frame_stack[j].events[i])
                 \/ Survived(t, p + 1, frame_stack[j].events[i])
      BY <1>4 DEF AllHold, HoldsFrame
    <3>2. \A i \in 1..Len(frame_stack'[j].events) :
            \/ Of(t, h, frame_stack'[j].events[i])
            \/ Survived(t, p + 1, frame_stack'[j].events[i])
      <4>1. CASE j # n
        BY <2>8, <3>1, <4>1
      <4>2. CASE j = n
        <5>1. frame_stack'[j].events = es /\ frame_stack[j] = Top
          BY <2>8, <4>2 DEF Top
        <5>2. Of(t, h, x)
          BY <2>5, <3>1, <5>1 DEF Of, OpenFrame
        <5>3. ASSUME NEW i \in 1..Len(es)
              PROVE  Of(t, h, es[i]) \/ Survived(t, p + 1, es[i])
          <6>1. CASE i \in 1..Len(old)
            BY <2>6, <3>1, <5>1, <6>1
          <6>2. CASE i \notin 1..Len(old)
            <7>1. i = Len(old) + 1
              <8> HIDE DEF old
              <8> QED BY <2>6, <6>2
            <7> QED BY <2>6, <5>2, <7>1
          <6> QED BY <6>1, <6>2
        <5> QED BY <5>1, <5>3
      <4> QED BY <4>1, <4>2
    <3> QED BY <2>8, <3>1, <3>2 DEF HoldsFrame
  <2>10. AllHold(t, p + 1, frame_stack', tx_hash)
    BY <1>4, <2>8, <2>9 DEF AllHold
  <2> QED BY <1>1, <1>2, <1>3, <2>1, <2>10 DEF FramesKnown
<1> QED BY <1>6, <1>7 DEF append_mutation, BridgeFail

LEMMA EventNamed ==
  ASSUME Bracketing, NEW s, NEW t, NEW p \in Nat, SameTo(s, t, p),
         FramesKnown(s, p, tx_open, tx_hash, frame_stack, tx_output, final_output),
         NEW e \in EmesEvent, t[p + 1] = e, Translate(e), bridge_result' = "running"
  PROVE  FramesKnown(t, p + 1, tx_open', tx_hash', frame_stack', tx_output', final_output')
<1>1. CASE e.type = "TransactionStart"
  BY <1>1, StartNamed DEF Translate
<1>2. CASE e.type = "TransactionEnd"
  BY <1>2, EndNamed DEF Translate
<1>3. CASE e.type = "FrameEnter"
  BY <1>3, EnterNamed DEF Translate
<1>4. CASE e.type = "FrameExit"
  BY <1>4, ExitNamed DEF Translate
<1>5. CASE e.type \in {"BlockStart", "BlockCommit"}
  <2>1. UNCHANGED <<tx_open, tx_hash, frame_stack, tx_output, final_output>>
    BY <1>5 DEF Translate, TranslateBlockStart, TranslateBlockCommit, bridgeVars,
                bridgeContext
  <2>2. tx_open => Started(t, p + 1, tx_hash)
    BY <1>5, StartedNext DEF FramesKnown
  <2>3. AllHold(t, p + 1, frame_stack, tx_hash)
    BY <1>5, AllHoldStays DEF FramesKnown
  <2>4. AllNamed(t, p + 1, tx_output) /\ AllNamed(t, p + 1, final_output)
    BY AllNamedStays DEF FramesKnown
  <2> QED BY <2>1, <2>2, <2>3, <2>4 DEF FramesKnown
<1>6. CASE e.type \in {"Mutation", "AccountCreated", "SelfDestruct"}
  <2>1. PICK payload \in Payload : append_mutation(e.frameID, payload)
    BY <1>6, MutationAppended
  <2> QED BY <1>6, <2>1, MutationNamed
<1> QED BY <1>1, <1>2, <1>3, <1>4, <1>5, <1>6 DEF Translate

\* Numbering the output changes no name, and what survived in the whole stream
\* was executed in it.
LEMMA FinishNamed ==
  ASSUME stream' = stream, Len(stream) \in Nat, Bracketing,
         AllNamed(stream, Len(stream), final_output),
         TranslateFinish, bridge_result' = "Ok"
  PROVE  FramesNamed'
<1>1. final_output' = [i \in 1..Len(final_output) |->
                         [final_output[i] EXCEPT !.sequence_number = i - 1]]
  BY DEF TranslateFinish, BridgeFail, BridgeError
<1> SUFFICES ASSUME NEW k \in DOMAIN final_output'
             PROVE  \/ /\ final_output'[k].call_frame_id = U32_MAX
                       /\ final_output'[k].call_depth = 0
                    \/ ExecutedIn(stream, final_output'[k])
  BY DEF FramesNamed, ExecutedIn, Closes
<1>2. /\ k \in 1..Len(final_output)
      /\ final_output'[k] = [final_output[k] EXCEPT !.sequence_number = k - 1]
  BY <1>1
<1> DEFINE x == final_output[k]
           y == final_output'[k]
<1>3. x \in CseEvent
  <2>1. final_output \in Seq(CseEvent)
    BY DEF Bracketing
  <2> QED BY <1>2, <2>1, ElementOfSeq
<1>4. /\ y.call_frame_id = x.call_frame_id /\ y.call_depth = x.call_depth
      /\ y.transaction_hash = x.transaction_hash
  BY <1>2, <1>3 DEF CseEvent
<1>5. Named(stream, Len(stream), x)
  BY <1>2 DEF AllNamed
<1> HIDE DEF x, y
<1>6. CASE Survived(stream, Len(stream), x)
  <2>1. PICK i, j \in 1..Len(stream) :
          Of(stream, i, x) /\ Closes(stream, i, j) /\ ~stream[j].reverted
    BY <1>6 DEF Survived
  <2>2. PICK h \in 1..i : /\ stream[h].type = "TransactionStart"
                          /\ stream[h].hash = x.transaction_hash
                          /\ \A m \in h+1..i : stream[m].type # "TransactionStart"
    BY <2>1 DEF Of, Started
  <2>3. h < i /\ h \in 1..Len(stream)
    BY <2>1, <2>2 DEF Of
  <2>4. ExecutedIn(stream, y)
    BY <1>4, <2>1, <2>2, <2>3 DEF Of, ExecutedIn
  <2> QED BY <2>4 DEF y
<1> QED BY <1>4, <1>5, <1>6 DEF Named, y

\* The bridge reads on only while the gate has not refused the stream.
Reading == bridge_result = "running" /\ (gated => verdict \in {"pending", "running"})

\* The inductive invariant.
FramesRight ==
  /\ pos \in Nat
  /\ ~gated => stream \in Seq(EmesEvent) /\ pos = Len(stream)
  /\ Reading => FramesKnown(stream, pos, tx_open, tx_hash, frame_stack, tx_output, final_output)
  /\ FramesNamed

LEMMA InitFramesRight == Init => FramesRight
<1> SUFFICES ASSUME Init PROVE FramesRight
  OBVIOUS
<1>1. /\ bridge_result = "running" /\ frame_stack = << >> /\ tx_open = FALSE /\ pos = 0
      /\ tx_output = << >> /\ final_output = << >>
  BY DEF Init, BridgeInit
<1>2. ~gated => stream = << >>
  BY Zenon DEF Init
<1>3. FramesKnown(stream, 0, FALSE, tx_hash, << >>, << >>, << >>)
  BY DepthAtStart DEF FramesKnown, AllHold, AllNamed
<1>4. ~gated => stream \in Seq(EmesEvent) /\ Len(stream) = 0
  BY <1>2
<1> QED BY <1>1, <1>3, <1>4 DEF FramesRight, FramesNamed

\* What the bridge knows of a stream that grew by the event it read.
LEMMA ReadFrames ==
  ASSUME FramesRight, Bracketing, Reading, NEW e \in EmesEvent,
         SameTo(stream, stream', pos), stream'[pos + 1] = e, pos' = pos + 1,
         Translate(e),
         ~gated' => stream' \in Seq(EmesEvent) /\ pos' = Len(stream')
  PROVE  FramesRight'
<1>1. bridge_result' # "Ok"
  BY ReadingGoesOn
<1>2. bridge_result' = "running" =>
        FramesKnown(stream', pos', tx_open', tx_hash', frame_stack', tx_output', final_output')
  BY EventNamed DEF FramesRight
<1> QED BY <1>1, <1>2 DEF FramesRight, FramesNamed, Reading

LEMMA ReadNextFrames ==
  ASSUME FramesRight, Bracketing, InStep, ReadNext
  PROVE  FramesRight'
<1>1. PICK e \in Offered(Structural \cup TaggedMutations) : Read(e)
  BY DEF ReadNext
<1>2. /\ gated /\ pos < Len(stream) /\ gated' = gated /\ pos' = pos + 1
      /\ stream' = [stream EXCEPT ![pos + 1] = e] /\ verdict = "running"
  BY <1>1 DEF Read, ReadNext, GateRead
<1>3. StreamTyped /\ SameFrames /\ bridge_result = "running" /\ Reading
  BY <1>2 DEF InStep, Reading
<1>4. Readable(e)
  BY <1>2, <1>3, OfferedReadable DEF SameFrames
<1>5. stream'[pos + 1] = e /\ SameTo(stream, stream', pos)
  <2>1. /\ stream \in Seq(EmesEvent \cup {Unread}) /\ pos + 1 \in 1..Len(stream)
        /\ e \in EmesEvent \cup {Unread} /\ pos \in Nat
    BY <1>2, <1>3, <1>4 DEF StreamTyped, Readable
  <2>2. /\ Len(stream') = Len(stream)
        /\ \A j \in 1..Len(stream) : stream'[j] = IF j = pos + 1 THEN e ELSE stream[j]
    BY <1>2, <2>1, ExceptSeq
  <2> QED BY <2>1, <2>2 DEF SameTo
<1>6. CASE verdict' = "running"
  <2>1. Translate(e)
    BY <1>1, <1>3, <1>6 DEF Read
  <2> QED BY <1>2, <1>3, <1>4, <1>5, <2>1, ReadFrames DEF Readable
<1>7. CASE verdict' # "running"
  <2>1. verdict' \notin {"pending", "running"}
    BY <1>1, <1>7 DEF Read, GateRead, Reject, Accept, Rule, GateBlockStart, GateBlockCommit,
       GateTransactionStart, GateTransactionEnd, GateFrameEnter, GateFrameExit, GateMutation
  <2>2. bridge_result' = "running" /\ pos' \in Nat
    BY <1>1, <1>2, <1>3, <1>7 DEF Read, bridgeVars, FramesRight
  <2> QED BY <1>2, <2>1, <2>2 DEF FramesRight, FramesNamed, Reading
<1> QED BY <1>6, <1>7

LEMMA ReadUngatedFrames ==
  ASSUME FramesRight, Bracketing, NEW e \in EmesEvent, ReadUngated(e)
  PROVE  FramesRight'
<1>1. /\ ~gated /\ gated' = gated /\ Translate(e) /\ Reading
      /\ stream \in Seq(EmesEvent) /\ pos = Len(stream)
      /\ stream' = Append(stream, e) /\ pos' = pos + 1
  BY DEF ReadUngated, Translate, FramesRight, Reading
<1>2. /\ stream' \in Seq(EmesEvent) /\ Len(stream') = pos' /\ pos \in Nat
      /\ stream'[pos + 1] = e /\ SameTo(stream, stream', pos)
  BY <1>1, Pushed DEF SameTo
<1> QED BY <1>1, <1>2, ReadFrames

\* At the end of the stream the bridge has read all of it.
LEMMA EndFrames ==
  ASSUME FramesRight, Bracketing, InStep, End \/ EndUngated
  PROVE  FramesRight'
<1>1. UNCHANGED <<gated, stream, pos>> /\ pos = Len(stream) /\ Reading
  BY DEF End, EndUngated, GateEnd, TranslateFinish, FramesRight, Reading, InStep
<1>2. AllNamed(stream, Len(stream), final_output) /\ Len(stream) \in Nat
  BY <1>1 DEF FramesRight, FramesKnown
<1>3. CASE TranslateFinish
  <2>1. bridge_result' # "running"
    BY <1>3 DEF TranslateFinish, BridgeFail
  <2>2. FramesNamed'
    <3>1. CASE bridge_result' = "Ok"
      BY <1>1, <1>2, <1>3, <3>1, FinishNamed
    <3>2. CASE bridge_result' # "Ok"
      BY <3>2 DEF FramesNamed
    <3> QED BY <3>1, <3>2
  <2> QED BY <1>1, <2>1, <2>2 DEF FramesRight, Reading
<1>4. CASE UNCHANGED bridgeVars /\ End /\ verdict' # "ok"
  <2>1. bridge_result' = "running" /\ gated /\ verdict' = "tx-encapsulation"
    BY <1>1, <1>4 DEF bridgeVars, End, GateEnd, Reading
  <2> QED BY <1>1, <2>1 DEF FramesRight, FramesNamed, Reading
<1> QED BY <1>1, <1>3, <1>4 DEF End, EndUngated, Reading

\* Everything that the bridge returns (translate.rs, append_mutation) bears the
\* context of no frame or that of a frame of its own transaction that committed,
\* id and depth unnarrowed, for every stream, gated or not, and every width.
THEOREM FramesAreNamed == Spec => []FramesNamed
<1>1. Init => FramesRight /\ Bracketing
  BY InitFramesRight, InitBracketing DEF Init
<1>2. InStep /\ Bracketing /\ [Next]_vars => Bracketing'
  <2> SUFFICES ASSUME InStep, Bracketing, [Next]_vars PROVE Bracketing'
    OBVIOUS
  <2>1. CASE UNCHANGED bridgeVars
    BY <2>1, BracketingKept DEF bridgeVars
  <2> QED BY <2>1, BridgeMoves, TranslateBracketing, FinishBracketing
<1>3. FramesRight /\ Bracketing /\ InStep /\ [Next]_vars => FramesRight'
  <2> SUFFICES ASSUME FramesRight, Bracketing, InStep, [Next]_vars PROVE FramesRight'
    OBVIOUS
  <2>1. CASE ReadNext
    BY <2>1, ReadNextFrames
  <2>2. CASE \E e \in Anything : ReadUngated(e)
    BY <2>2, AnythingTyped, ReadUngatedFrames
  <2>3. CASE End \/ EndUngated
    BY <2>3, EndFrames
  <2>4. CASE Begin \/ UNCHANGED vars
    <3>1. /\ UNCHANGED <<gated, stream, pos, tx_open, tx_hash, frame_stack, tx_output,
                         final_output, bridge_result>>
          /\ Reading' => Reading
      BY <2>4 DEF Begin, vars, gateVars, bridgeVars, bridgeContext, GateBegin, Reading
    <3>2. FramesNamed'
      BY <3>1 DEF FramesRight, FramesNamed, ExecutedIn, Closes
    <3> QED BY <3>1, <3>2 DEF FramesRight
  <2> QED BY <2>1, <2>2, <2>3, <2>4 DEF Next, Judged
<1>4. FramesRight => FramesNamed
  BY DEF FramesRight
<1> QED BY <1>1, <1>2, <1>3, <1>4, InStepInvariant, PTL DEF Spec

=============================================================================
