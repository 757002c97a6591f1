--------------------------- MODULE EvmBridgeProofs ---------------------------
(***************************************************************************)
(* The bridge is faithful for every stream an execution can produce, every *)
(* number of frames, transactions and mutations, and every set of keys and *)
(* values.                                                                 *)
(***************************************************************************)
EXTENDS EvmBridge, StreamFacts

-----------------------------------------------------------------------------
(***************************************************************************)
(* What each EVM step makes the bridge do when the stacks are aligned: the *)
(* arm of the match it takes, with no failing branch left.                 *)
(***************************************************************************)

USE DEF BlockStartEvent, BlockCommitEvent, TransactionStartEvent,
        TransactionEndEvent, FrameEnterEvent, FrameExitEvent, MutationEvent,
        SelfDestructEvent

\* The one arm of TransactionStart that an execution can take: no transaction
\* is open in the bridge when the EVM starts one.
LEMMA StartTxStep ==
  ASSUME BufferInvariant, TxStart
  PROVE  /\ tx_open' = TRUE
         /\ tx_index' = 0
         /\ tx_hash' = txs + 1
         /\ tx_output' = <<boundary_event("BeginTransaction", txs + 1, 0)>>
         /\ frame_stack' = << >>
         /\ UNCHANGED <<final_output, block_number, bridge_result>>
  BY DEF BufferInvariant, Aligned, TxStart, EvmTxStart, Translate, TranslateTransactionStart

\* The one arm of TransactionEnd that an execution can take: the bridge is in
\* the transaction and has closed all its frames.
LEMMA EndTxStep ==
  ASSUME BufferInvariant, NEW reverted \in BOOLEAN, TxEnd(reverted)
  PROVE  /\ final_output' = final_output \o
              Append(tx_output, boundary_event("EndTransaction", tx_hash, tx_index))
         /\ tx_output' = << >>
         /\ tx_open' = FALSE
         /\ UNCHANGED <<frame_stack, bridgeContext, bridge_result>>
<1>1. tx_open /\ snapshots = << >>
  BY DEF BufferInvariant, Aligned, TxEnd, EvmTxEnd
<1>2. frame_stack = << >>
  BY <1>1 DEF BufferInvariant, TypeOK, EvmTypeOK, BridgeTypeOK, Aligned
<1> QED BY <1>1, <1>2 DEF TxEnd, EvmTxEnd, Translate, TranslateTransactionEnd

\* The one arm of FrameEnter that an execution can take.
LEMMA EnterStep ==
  ASSUME BufferInvariant, FrameEnter
  PROVE  /\ frame_stack' =
              Append(frame_stack,
                [frame_id |-> nextFrame, depth |-> Len(snapshots), events |-> << >>])
         /\ UNCHANGED <<final_output, tx_open, tx_output, bridgeContext, bridge_result>>
  BY DEF BufferInvariant, Aligned, FrameEnter, EvmFrameEnter, Translate, TranslateFrameEnter

\* The one arm of FrameExit that an execution can take: the exit names the frame
\* on top of the bridge's stack.
LEMMA ExitStep ==
  ASSUME BufferInvariant, NEW reverted \in BOOLEAN, FrameExit(reverted)
  PROVE  /\ frame_stack # << >>
         /\ IF reverted THEN Discard ELSE Merge(Top.events)
         /\ UNCHANGED <<final_output, tx_open, bridgeContext, bridge_result>>
<1>1. Len(frame_stack) = Len(snapshots) /\ snapshots # << >>
  BY DEF BufferInvariant, Aligned, FrameExit, EvmFrameExit
<1>2. frame_stack # << >> /\ Top.frame_id = CurrentFrame
  BY <1>1 DEF BufferInvariant, TypeOK, EvmTypeOK, BridgeTypeOK, Aligned, Top, CurrentFrame
<1>3. tx_open
  BY DEF BufferInvariant, Aligned, FrameExit, EvmFrameExit
<1> QED BY <1>2, <1>3 DEF FrameExit, EvmFrameExit, Translate, TranslateFrameExit

\* Frame ids and depths fit in 32 bits, so a mutation is always appended: to
\* the innermost buffer, or to tx_output when no frame is open.
LEMMA MutationStep ==
  ASSUME BufferInvariant, NEW payload, append_mutation(CurrentFrame, payload)
  PROVE  /\ UNCHANGED <<final_output, tx_open, bridgeContext, bridge_result>>
         /\ \/ /\ snapshots = << >>
               /\ frame_stack = << >>
               /\ tx_output' = Append(tx_output,
                    CseEventOf(payload, U32_MAX, 0, tx_hash, tx_index))
               /\ UNCHANGED frame_stack
            \/ /\ snapshots # << >>
               /\ frame_stack # << >>
               /\ Top.frame_id \in 0..U32_MAX /\ Top.depth \in 0..U32_MAX
               /\ frame_stack' = [frame_stack EXCEPT ![Len(frame_stack)].events =
                    Append(@, CseEventOf(payload, Top.frame_id, Top.depth,
                                         tx_hash, tx_index))]
               /\ UNCHANGED tx_output
<1>1. CASE snapshots = << >>
  <2>1. frame_stack = << >>
    BY <1>1 DEF BufferInvariant, TypeOK, EvmTypeOK, BridgeTypeOK, Aligned
  <2> QED BY <1>1, <2>1 DEF CurrentFrame, append_mutation
<1>2. CASE snapshots # << >>
  <2>1. frame_stack # << >> /\ Len(frame_stack) = Len(snapshots)
        /\ Len(snapshots) \in 1..nextFrame /\ nextFrame \in 0..MaxFrames
        /\ snapshots[Len(snapshots)] \in Snapshot
    BY <1>2 DEF BufferInvariant, TypeOK, EvmTypeOK, BridgeTypeOK, Aligned
  <2>2. Top.frame_id = CurrentFrame /\ CurrentFrame \in 0..U32_MAX
    BY <1>2, <2>1 DEF BufferInvariant, Aligned, CurrentFrame, Top, Snapshot
  <2>3. Top.depth \in 0..U32_MAX
    BY <2>1, BoundAssumption, WidthAssumption DEF BufferInvariant, Aligned, Top
  <2>4. CurrentFrame # NO_FRAME /\ ~(Top.frame_id > U32_MAX) /\ ~(Top.depth > U32_MAX)
    BY <2>2, <2>3, WidthAssumption DEF NO_FRAME
  <2> QED BY <1>2, <2>1, <2>2, <2>3, <2>4 DEF append_mutation
<1> QED BY <1>1, <1>2

-----------------------------------------------------------------------------
(***************************************************************************)
(* Each step preserves the invariant.                                      *)
(***************************************************************************)

\* At the start nothing is open and nothing is kept.
LEMMA InitBuffers == Init => BufferInvariant
<1> SUFFICES ASSUME Init PROVE BufferInvariant
  OBVIOUS
<1> USE DEF Init, EvmInit, BridgeInit
<1>1. TypeOK
  <2>1. /\ << >> \in Seq(CseEvent) /\ << >> \in Seq(FrameBuffer)
        /\ << >> \in Seq(Snapshot)
    OBVIOUS
  <2>2. 0 \in Nat /\ 0 \in 0..MaxFrames /\ 0 \in 0..MaxTx /\ 0 \in 0..MaxMutations
    BY BoundAssumption
  <2>3. BridgeTypeOK
    BY <2>1, <2>2 DEF BridgeTypeOK
  <2> QED BY <2>1, <2>2, <2>3 DEF TypeOK, EvmTypeOK
<1>2. NeverFails
  BY DEF NeverFails, BridgeError
<1>3. Aligned
  BY DEF Aligned
<1>4. Settled
  BY ReplayEmpty DEF Settled, Replays
<1>5. Chained
  BY DEF Chained
<1> QED BY <1>1, <1>2, <1>3, <1>4, <1>5 DEF BufferInvariant

\* Steps at which no transaction is open and the state does not move.
LEMMA IdleStep ==
  ASSUME BufferInvariant, TypeOK',
         phase # "tx", phase' # "tx",
         UNCHANGED <<world, snapshots, nextFrame, blockBase, frame_stack, tx_open,
                     final_output, bridge_result>>,
         bridge_result # "Ok"
  PROVE  BufferInvariant'
<1> USE DEF BufferInvariant
<1>1. NeverFails'
  BY DEF NeverFails
<1>2. Aligned'
  BY DEF Aligned
<1>3. Settled'
  BY DEF Settled, Replays
<1>4. Chained'
  BY DEF Chained
<1> QED BY <1>1, <1>2, <1>3, <1>4

\* The start of a block only sets the block number.
LEMMA BlockStartPreserves ==
  ASSUME BufferInvariant, BlockStart
  PROVE  BufferInvariant'
<1>1. /\ block_number' = 1
      /\ bridge_result = "running"
      /\ UNCHANGED <<final_output, tx_open, tx_output, frame_stack, tx_index, tx_hash,
                     bridge_result>>
  BY DEF BlockStart, EvmBlockStart, Translate, TranslateBlockStart
<1>2. TypeOK'
  BY <1>1 DEF BufferInvariant, BlockStart, EvmBlockStart, TypeOK, EvmTypeOK, BridgeTypeOK
<1> QED BY <1>1, <1>2, IdleStep DEF BlockStart, EvmBlockStart

\* The bridge drops the end of a block.
LEMMA BlockEndPreserves ==
  ASSUME BufferInvariant, BlockEnd
  PROVE  BufferInvariant'
<1>1. bridge_result = "running" /\ UNCHANGED bridgeVars
  BY DEF BlockEnd, EvmBlockEnd, Translate, TranslateBlockCommit
<1>2. TypeOK'
  BY <1>1 DEF BufferInvariant, BlockEnd, EvmBlockEnd, TypeOK, EvmTypeOK, BridgeTypeOK,
              bridgeVars, bridgeContext
<1> QED BY <1>1, <1>2, IdleStep DEF BlockEnd, EvmBlockEnd, bridgeVars

\* Numbering the events at the end of translate leaves their payloads alone.
LEMMA FinishPreserves ==
  ASSUME BufferInvariant, Finish
  PROVE  BufferInvariant'
<1>1. /\ final_output' = [i \in 1..Len(final_output) |->
                            [final_output[i] EXCEPT !.sequence_number = i - 1]]
      /\ bridge_result' = "Ok"
      /\ UNCHANGED <<tx_open, tx_output, frame_stack, bridgeContext>>
      /\ phase = "end"
      /\ UNCHANGED evmVars
  BY DEF BufferInvariant, Aligned, Finish, TranslateFinish
<1>2. final_output \in Seq(CseEvent) /\ Len(final_output) \in Nat
  BY DEF BufferInvariant, TypeOK, EvmTypeOK, BridgeTypeOK
<1>3. \A i \in 1..Len(final_output) :
        /\ [final_output[i] EXCEPT !.sequence_number = i - 1] \in CseEvent
        /\ [final_output[i] EXCEPT !.sequence_number = i - 1].payload
             = final_output[i].payload
  <2> TAKE i \in 1..Len(final_output)
  <2>1. final_output[i] \in CseEvent /\ i - 1 \in Nat
    BY <1>2
  <2> HIDE DEF CseEvent
  <2> QED BY <2>1 DEF CseEvent
<1>4. final_output' \in Seq(CseEvent) /\ Len(final_output') = Len(final_output)
  BY <1>1, <1>2, <1>3
<1>5. \A i \in 1..Len(final_output) : final_output'[i].payload = final_output[i].payload
  BY <1>1, <1>3
<1>6. TypeOK'
  BY <1>1, <1>4 DEF BufferInvariant, TypeOK, EvmTypeOK, BridgeTypeOK, bridgeContext, evmVars
<1>7. NeverFails'
  BY <1>1 DEF NeverFails, BridgeError
<1>8. Aligned'
  BY <1>1 DEF BufferInvariant, Aligned, evmVars
<1>9. Settled'
  <2>1. Replays(blockBase, final_output, world)
    BY <1>1 DEF BufferInvariant, Settled
  <2>2. Replays(blockBase, final_output', world)
    BY <2>1, <1>2, <1>4, <1>5, ReplayPayloads DEF Replays
  <2> QED BY <1>1, <2>2 DEF Settled, Replays, evmVars
<1>10. Chained'
  BY <1>1 DEF Chained, evmVars
<1> QED BY <1>6, <1>7, <1>8, <1>9, <1>10 DEF BufferInvariant

\* A transaction starts with its boundary alone, at the state of now.
LEMMA TxStartPreserves ==
  ASSUME BufferInvariant, TxStart
  PROVE  BufferInvariant'
<1> DEFINE b == boundary_event("BeginTransaction", txs + 1, 0)
<1>1. /\ tx_open' = TRUE /\ tx_index' = 0 /\ tx_hash' = txs + 1
      /\ tx_output' = <<b>> /\ frame_stack' = << >>
      /\ UNCHANGED <<final_output, block_number, bridge_result>>
  BY StartTxStep
<1>2. /\ phase = "block" /\ phase' = "tx" /\ txs < MaxTx /\ txs' = txs + 1
      /\ txBase' = world /\ nextFrame' = 0 /\ snapshots' = << >>
      /\ UNCHANGED <<world, mutations, blockBase>>
      /\ bridge_result = "running"
  BY DEF TxStart, EvmTxStart, Translate
<1>3. b \in CseEvent /\ b.payload.type # "StateChanged"
  <2>1. txs + 1 \in Nat /\ 0 \in Nat /\ block_number \in Nat
    BY DEF BufferInvariant, TypeOK, EvmTypeOK, BridgeTypeOK
  <2> QED BY <2>1, BoundaryType
<1> HIDE DEF b
<1>4. TypeOK'
  BY <1>1, <1>2, <1>3, BoundAssumption DEF BufferInvariant, TypeOK, EvmTypeOK, BridgeTypeOK
<1>5. NeverFails'
  BY <1>1 DEF BufferInvariant, NeverFails
<1>6. Aligned'
  BY <1>1, <1>2 DEF Aligned
<1>7. Settled'
  BY <1>1, <1>2 DEF BufferInvariant, Settled, Replays
<1>8. Chained'
  <2>1. StateAfter(0)' = world
    BY <1>2 DEF StateAfter
  <2>2. Replays(world, <<b>>, world)
    BY <1>3, ReplayOther DEF Replays
  <2> QED BY <1>1, <1>2, <2>1, <2>2 DEF Chained, Replays
<1> QED BY <1>4, <1>5, <1>6, <1>7, <1>8 DEF BufferInvariant

\* The end of a transaction joins its events to those of the block.
LEMMA TxEndPreserves ==
  ASSUME BufferInvariant, NEW reverted \in BOOLEAN, TxEnd(reverted)
  PROVE  BufferInvariant'
<1> DEFINE b == boundary_event("EndTransaction", tx_hash, tx_index)
<1>1. /\ final_output' = final_output \o Append(tx_output, b)
      /\ tx_output' = << >> /\ tx_open' = FALSE
      /\ UNCHANGED <<frame_stack, bridgeContext, bridge_result>>
  BY EndTxStep
<1>2. /\ phase = "tx" /\ phase' = "block" /\ snapshots = << >>
      /\ UNCHANGED <<world, snapshots, nextFrame, txs, mutations, blockBase, txBase>>
      /\ bridge_result = "running"
  BY DEF TxEnd, EvmTxEnd, Translate
<1>3. b \in CseEvent /\ b.payload.type # "StateChanged"
  <2>1. tx_hash \in Nat /\ tx_index \in Nat /\ block_number \in Nat
    BY DEF BufferInvariant, TypeOK, EvmTypeOK, BridgeTypeOK
  <2> QED BY <2>1, BoundaryType
<1> HIDE DEF b
<1>4. tx_output \in Seq(CseEvent) /\ final_output \in Seq(CseEvent)
  BY DEF BufferInvariant, TypeOK, EvmTypeOK, BridgeTypeOK
<1>5. /\ Append(tx_output, b) \in Seq(CseEvent)
      /\ final_output \o Append(tx_output, b) \in Seq(CseEvent)
  BY <1>3, <1>4
<1>6. Replays(blockBase, final_output, txBase)
  BY <1>2 DEF BufferInvariant, Settled
<1>7. Replays(txBase, tx_output, world)
  BY <1>2 DEF BufferInvariant, Chained, StateAfter
<1>8. Replays(txBase, Append(tx_output, b), world)
  BY <1>3, <1>4, <1>7, AppendOther DEF Replays
<1>9. Replays(blockBase, final_output \o Append(tx_output, b), world)
  BY <1>4, <1>5, <1>6, <1>8, YieldsConcat, ContinuesConcat DEF Replays
<1>10. TypeOK'
  <2>1. final_output' \in Seq(CseEvent) /\ tx_output' \in Seq(CseEvent)
    BY <1>1, <1>5
  <2>2. BridgeTypeOK'
    BY <1>1, <2>1 DEF BufferInvariant, TypeOK, EvmTypeOK, BridgeTypeOK, bridgeContext
  <2> QED BY <1>2, <2>2 DEF BufferInvariant, TypeOK, EvmTypeOK
<1>11. NeverFails'
  BY <1>1 DEF BufferInvariant, NeverFails
<1>12. Aligned'
  BY <1>1, <1>2 DEF BufferInvariant, Aligned
<1>13. Settled'
  BY <1>1, <1>2, <1>9 DEF Settled, Replays
<1>14. Chained'
  BY <1>2 DEF Chained
<1> QED BY <1>10, <1>11, <1>12, <1>13, <1>14 DEF BufferInvariant

\* Entering a frame starts an empty buffer at the state of now.
LEMMA FrameEnterPreserves ==
  ASSUME BufferInvariant, FrameEnter
  PROVE  BufferInvariant'
<1>0. PICK n : n = Len(snapshots)
  OBVIOUS
<1> DEFINE f == [frame_id |-> nextFrame, depth |-> n, events |-> << >>]
           c == [id |-> nextFrame, state |-> world]
<1>1. /\ frame_stack' = Append(frame_stack, f)
      /\ UNCHANGED <<final_output, tx_open, tx_output, bridgeContext, bridge_result>>
  BY <1>0, EnterStep
<1>2. /\ phase = "tx" /\ nextFrame < MaxFrames
      /\ snapshots' = Append(snapshots, c)
      /\ nextFrame' = nextFrame + 1
      /\ UNCHANGED <<world, phase, txs, mutations, blockBase, txBase>>
      /\ bridge_result = "running"
  BY DEF FrameEnter, EvmFrameEnter, Translate
<1>3. /\ frame_stack \in Seq(FrameBuffer) /\ snapshots \in Seq(Snapshot)
      /\ Len(frame_stack) = n /\ n \in Nat /\ n <= nextFrame
      /\ nextFrame \in 0..MaxFrames /\ world \in World
  BY <1>0 DEF BufferInvariant, TypeOK, EvmTypeOK, BridgeTypeOK, Aligned
<1>4. nextFrame \in 0..U32_MAX /\ n \in 0..U32_MAX
  BY <1>2, <1>3, BoundAssumption, WidthAssumption
<1>5. f \in FrameBuffer /\ c \in Snapshot
  BY <1>3, <1>4, WidthAssumption DEF FrameBuffer, Snapshot
<1>6. /\ f.frame_id = nextFrame /\ f.depth = n /\ f.events = << >>
      /\ c.id = nextFrame /\ c.state = world
  OBVIOUS
<1> HIDE DEF f, c
<1>7. /\ frame_stack' \in Seq(FrameBuffer) /\ snapshots' \in Seq(Snapshot)
      /\ Len(frame_stack') = n + 1 /\ Len(snapshots') = n + 1
      /\ frame_stack'[n + 1] = f /\ snapshots'[n + 1] = c
      /\ \A j \in 1..n : frame_stack'[j] = frame_stack[j] /\ snapshots'[j] = snapshots[j]
  BY <1>0, <1>1, <1>2, <1>3, <1>5, AppendProperties
<1>8. TypeOK'
  <2>1. BridgeTypeOK'
    BY <1>1, <1>7 DEF BufferInvariant, TypeOK, EvmTypeOK, BridgeTypeOK, bridgeContext
  <2>2. nextFrame' \in 0..MaxFrames
    BY <1>2, <1>3, BoundAssumption
  <2> QED BY <1>2, <1>7, <2>1, <2>2 DEF BufferInvariant, TypeOK, EvmTypeOK
<1>9. NeverFails'
  BY <1>1 DEF BufferInvariant, NeverFails
<1>10. Aligned'
  <2>1. \A j \in 1..n : frame_stack[j].frame_id = snapshots[j].id
                        /\ frame_stack[j].depth = j - 1
    BY <1>0 DEF BufferInvariant, Aligned
  <2>2. \A j \in 1..n + 1 : frame_stack'[j].frame_id = snapshots'[j].id
                            /\ frame_stack'[j].depth = j - 1
    <3> TAKE j \in 1..n + 1
    <3>1. CASE j = n + 1
      BY <3>1, <1>3, <1>6, <1>7
    <3>2. CASE j # n + 1
      <4>1. j \in 1..n
        BY <3>2, <1>3
      <4> QED BY <4>1, <2>1, <1>7
    <3> QED BY <3>1, <3>2
  <2>3. tx_open' <=> phase' = "tx"
    BY <1>1, <1>2 DEF BufferInvariant, Aligned
  <2> QED BY <1>1, <1>2, <1>3, <1>7, <2>2, <2>3 DEF Aligned
<1>11. Settled'
  BY <1>1, <1>2 DEF BufferInvariant, Settled, Replays
<1>12. Chained'
  <2>1. \A j \in 0..n : StateAfter(j)' = StateAfter(j)
    <3> TAKE j \in 0..n
    <3>1. CASE j < n
      <4>1. j + 1 \in 1..n
        BY <3>1, <1>3
      <4> QED BY <1>0, <3>1, <4>1, <1>3, <1>7 DEF StateAfter
    <3>2. CASE j = n
      BY <1>0, <3>2, <1>3, <1>6, <1>7 DEF StateAfter
    <3> QED BY <3>1, <3>2, <1>3
  <2>2. StateAfter(n + 1)' = world
    BY <1>2, <1>3, <1>7 DEF StateAfter
  <2>3. Replays(txBase, tx_output, StateAfter(0))
    BY <1>2 DEF BufferInvariant, Chained
  <2>4. Replays(txBase', tx_output', StateAfter(0)')
    BY <1>1, <1>2, <1>3, <2>1, <2>3
  <2>5. \A j \in 1..n : Replays(snapshots[j].state, frame_stack[j].events, StateAfter(j))
    BY <1>0, <1>2 DEF BufferInvariant, Chained
  <2>6. \A j \in 1..n + 1 :
          Replays(snapshots'[j].state, frame_stack'[j].events, StateAfter(j)')
    <3> TAKE j \in 1..n + 1
    <3>1. CASE j = n + 1
      <4>1. Replays(world, << >>, world)
        BY ReplayEmpty DEF Replays
      <4> QED BY <3>1, <4>1, <1>6, <1>7, <2>2
    <3>2. CASE j # n + 1
      <4>1. j \in 1..n /\ j \in 0..n
        BY <3>2, <1>3
      <4> QED BY <4>1, <1>7, <2>1, <2>5
    <3> QED BY <3>1, <3>2
  <2> QED BY <1>7, <2>4, <2>6 DEF Chained, Replays
<1> QED BY <1>8, <1>9, <1>10, <1>11, <1>12 DEF BufferInvariant

\* A mutation extends the innermost buffer and moves the state alike.
LEMMA MutationPreserves ==
  ASSUME BufferInvariant, NEW payload \in Payload,
         append_mutation(CurrentFrame, payload),
         bridge_result = "running", phase = "tx",
         UNCHANGED <<snapshots, nextFrame, phase, txs, blockBase, txBase>>,
         mutations' \in 0..MaxMutations, world' \in World,
         \A s, q, e : /\ q \in Seq(CseEvent) /\ e \in CseEvent
                      /\ e.payload = payload /\ Replays(s, q, world)
                      => Replays(s, Append(q, e), world')
  PROVE  BufferInvariant'
<1>0. PICK n : n = Len(snapshots)
  OBVIOUS
<1>1. /\ frame_stack \in Seq(FrameBuffer) /\ snapshots \in Seq(Snapshot)
      /\ tx_output \in Seq(CseEvent)
      /\ Len(frame_stack) = n /\ n \in Nat
      /\ tx_hash \in Nat /\ tx_index \in Nat /\ block_number \in Nat
  BY <1>0 DEF BufferInvariant, TypeOK, EvmTypeOK, BridgeTypeOK, Aligned
<1>2. UNCHANGED <<final_output, tx_open, bridgeContext, bridge_result>>
  BY MutationStep
<1>3. NeverFails'
  BY <1>2 DEF BufferInvariant, NeverFails
<1>4. Settled'
  BY <1>2 DEF BufferInvariant, Settled, Replays
<1>5. \A j \in 0..n - 1 : StateAfter(j)' = StateAfter(j)
  BY <1>0, <1>1 DEF StateAfter
<1>6. StateAfter(n) = world /\ StateAfter(n)' = world'
  BY <1>0, <1>1 DEF StateAfter
<1>7. CASE snapshots = << >>
  <2> DEFINE e == CseEventOf(payload, U32_MAX, 0, tx_hash, tx_index)
  <2>1. n = 0 /\ frame_stack = << >> /\ UNCHANGED frame_stack
        /\ tx_output' = Append(tx_output, e)
    BY <1>0, <1>7, MutationStep
  <2>2. e \in CseEvent /\ e.payload = payload
    <3>1. U32_MAX \in 0..U32_MAX /\ 0 \in 0..U32_MAX
      BY WidthAssumption
    <3> QED BY <3>1, <1>1, CseEventType
  <2> HIDE DEF e
  <2>3. tx_output' \in Seq(CseEvent)
    BY <1>1, <2>1, <2>2
  <2>4. TypeOK'
    <3>1. BridgeTypeOK'
      BY <1>2, <2>1, <2>3 DEF BufferInvariant, TypeOK, EvmTypeOK, BridgeTypeOK, bridgeContext
    <3> QED BY <3>1 DEF BufferInvariant, TypeOK, EvmTypeOK
  <2>5. Aligned'
    BY <1>2, <2>1 DEF BufferInvariant, Aligned
  <2>6. Chained'
    <3>1. Replays(txBase, tx_output, world)
      BY <1>6, <2>1 DEF BufferInvariant, Chained
    <3>2. Replays(txBase, tx_output', world')
      BY <3>1, <1>1, <2>1, <2>2
    <3> QED BY <3>2, <1>6, <1>7, <2>1 DEF Chained, Replays
  <2> QED BY <1>3, <1>4, <2>4, <2>5, <2>6 DEF BufferInvariant
<1>8. CASE snapshots # << >>
  <2> DEFINE e == CseEventOf(payload, Top.frame_id, Top.depth, tx_hash, tx_index)
             f == [Top EXCEPT !.events = Append(@, e)]
  <2>1. /\ Top.frame_id \in 0..U32_MAX /\ Top.depth \in 0..U32_MAX
        /\ frame_stack' = [frame_stack EXCEPT ![Len(frame_stack)].events = Append(@, e)]
        /\ UNCHANGED tx_output
    BY <1>8, MutationStep
  <2>2. e \in CseEvent /\ e.payload = payload
    BY <2>1, <1>1, CseEventType
  <2> HIDE DEF e
  <2>3. n \in 1..n /\ Top = frame_stack[n] /\ Top \in FrameBuffer
    BY <1>0, <1>1, <1>8 DEF Top
  <2>3a. Top = [frame_id |-> Top.frame_id, depth |-> Top.depth, events |-> Top.events]
         /\ Top.events \in Seq(CseEvent) /\ Append(Top.events, e) \in Seq(CseEvent)
    BY <2>2, <2>3 DEF FrameBuffer
  <2>4. /\ f \in FrameBuffer /\ f.events = Append(frame_stack[n].events, e)
        /\ f.frame_id = frame_stack[n].frame_id /\ f.depth = frame_stack[n].depth
        /\ frame_stack[n].events \in Seq(CseEvent)
    BY <2>3, <2>3a DEF FrameBuffer
  <2>5. frame_stack' = [frame_stack EXCEPT ![n] = f]
    BY <2>1, <2>3, <1>1
  <2> HIDE DEF f
  <2>6. /\ frame_stack' \in Seq(FrameBuffer) /\ Len(frame_stack') = n
        /\ \A j \in 1..n : frame_stack'[j] = IF j = n THEN f ELSE frame_stack[j]
    BY <1>1, <2>3, <2>4, <2>5, ExceptSeq
  <2>7. TypeOK'
    <3>1. BridgeTypeOK'
      BY <1>2, <2>1, <2>6 DEF BufferInvariant, TypeOK, EvmTypeOK, BridgeTypeOK, bridgeContext
    <3> QED BY <3>1 DEF BufferInvariant, TypeOK, EvmTypeOK
  <2>8. Aligned'
    <3>1. \A j \in 1..n : frame_stack'[j].frame_id = snapshots[j].id
                          /\ frame_stack'[j].depth = j - 1
      BY <1>0, <2>3, <2>4, <2>6 DEF BufferInvariant, Aligned
    <3> QED BY <1>0, <3>1, <1>2, <2>6 DEF BufferInvariant, Aligned
  <2>9. Chained'
    <3>1. Replays(txBase, tx_output, StateAfter(0))
      BY DEF BufferInvariant, Chained
    <3>2. StateAfter(0)' = StateAfter(0)
      BY <1>1, <1>5, <2>3
    <3>3. \A j \in 1..n : Replays(snapshots[j].state, frame_stack[j].events, StateAfter(j))
      BY <1>0 DEF BufferInvariant, Chained
    <3>4. \A j \in 1..n :
            Replays(snapshots[j].state, frame_stack'[j].events, StateAfter(j)')
      <4> TAKE j \in 1..n
      <4>1. CASE j = n
        <5>1. Replays(snapshots[n].state, frame_stack[n].events, world)
          BY <3>3, <2>3, <1>6
        <5>2. Replays(snapshots[n].state, f.events, world')
          BY <5>1, <2>2, <2>4
        <5> QED BY <5>2, <4>1, <2>3, <2>6, <1>6
      <4>2. CASE j # n
        <5>1. j \in 0..n - 1
          BY <4>2, <1>1
        <5> QED BY <5>1, <4>2, <3>3, <2>6, <1>5
      <4> QED BY <4>1, <4>2
    <3> QED BY <1>0, <3>1, <3>2, <3>4, <2>1, <2>6 DEF Chained, Replays
  <2> QED BY <1>3, <1>4, <2>7, <2>8, <2>9 DEF BufferInvariant
<1> QED BY <1>7, <1>8

\* A write of the EVM, in a frame or outside, is one mutation event.
LEMMA WritePreserves ==
  ASSUME BufferInvariant, NEW k \in Key, NEW v \in Value, Write(k, v)
  PROVE  BufferInvariant'
<1> DEFINE payload == [type |-> "StateChanged", key |-> k,
                       before |-> world[k], after |-> v]
<1>1. world \in World /\ world[k] \in Value /\ mutations \in 0..MaxMutations
  BY DEF BufferInvariant, TypeOK, EvmTypeOK, World
<1>2. payload \in Payload
  BY <1>1 DEF Payload
<1>3. /\ append_mutation(CurrentFrame, payload)
      /\ bridge_result = "running" /\ phase = "tx"
      /\ UNCHANGED <<snapshots, nextFrame, phase, txs, blockBase, txBase>>
      /\ mutations < MaxMutations /\ mutations' = mutations + 1
      /\ world' = [world EXCEPT ![k] = v]
  BY DEF Write, EvmWrite, Translate, TranslateMutation
<1>4. mutations' \in 0..MaxMutations
  BY <1>1, <1>3, BoundAssumption
<1>5. world' \in World
  BY <1>1, <1>3 DEF World
<1>6. ASSUME NEW s, NEW q \in Seq(CseEvent), NEW e \in CseEvent,
             e.payload = payload, Replays(s, q, world)
      PROVE  Replays(s, Append(q, e), world')
  <2>1. /\ e.payload.type = "StateChanged" /\ e.payload.key = k
        /\ e.payload.before = world[k] /\ e.payload.after = v
    BY <1>6
  <2>2. Yields(s, q, world) /\ Continues(s, q)
    BY <1>6 DEF Replays
  <2>3. Yields(s, Append(q, e), [world EXCEPT ![k] = v]) /\ Continues(s, Append(q, e))
    BY <1>1, <2>1, <2>2, AppendWrite
  <2> QED BY <1>3, <2>3 DEF Replays
<1> HIDE DEF payload
<1> QED BY <1>2, <1>3, <1>4, <1>5, <1>6, MutationPreserves

\* A self-destruction event writes no cell.
LEMMA SelfDestructPreserves ==
  ASSUME BufferInvariant, NEW a \in Address, SelfDestruct(a)
  PROVE  BufferInvariant'
<1> DEFINE payload == [type |-> "ContractDestroyed", address |-> a]
<1>1. world \in World /\ mutations \in 0..MaxMutations
  BY DEF BufferInvariant, TypeOK, EvmTypeOK
<1>2. payload \in Payload
  BY DEF Payload
<1>3. /\ append_mutation(CurrentFrame, payload)
      /\ bridge_result = "running" /\ phase = "tx"
      /\ UNCHANGED <<world, snapshots, nextFrame, phase, txs, blockBase, txBase>>
      /\ mutations < MaxMutations /\ mutations' = mutations + 1
  BY DEF SelfDestruct, EvmSelfDestruct, Translate, TranslateSelfDestruct
<1>4. mutations' \in 0..MaxMutations
  BY <1>1, <1>3, BoundAssumption
<1>5. ASSUME NEW s, NEW q \in Seq(CseEvent), NEW e \in CseEvent,
             e.payload = payload, Replays(s, q, world)
      PROVE  Replays(s, Append(q, e), world')
  <2>1. e.payload.type # "StateChanged"
    BY <1>5
  <2>2. Yields(s, Append(q, e), world) /\ Continues(s, Append(q, e))
    BY <2>1, <1>5, AppendOther DEF Replays
  <2> QED BY <1>3, <2>2 DEF Replays
<1> HIDE DEF payload
<1> QED BY <1>1, <1>2, <1>3, <1>4, <1>5, MutationPreserves

\* Leaving a frame: a revert drops the innermost piece of history, a commit
\* joins it to the piece before.
LEMMA FrameExitPreserves ==
  ASSUME BufferInvariant, NEW reverted \in BOOLEAN, FrameExit(reverted)
  PROVE  BufferInvariant'
<1>0. PICK n : n = Len(snapshots)
  OBVIOUS
<1>1. /\ frame_stack # << >>
      /\ IF reverted THEN Discard ELSE Merge(Top.events)
      /\ UNCHANGED <<final_output, tx_open, bridgeContext, bridge_result>>
  BY ExitStep
<1>2. /\ phase = "tx" /\ snapshots # << >>
      /\ world' = IF reverted THEN snapshots[n].state ELSE world
      /\ snapshots' = SubSeq(snapshots, 1, n - 1)
      /\ UNCHANGED <<nextFrame, phase, txs, mutations, blockBase, txBase>>
      /\ bridge_result = "running"
  BY <1>0 DEF FrameExit, EvmFrameExit, Translate
<1>3. /\ frame_stack \in Seq(FrameBuffer) /\ snapshots \in Seq(Snapshot)
      /\ tx_output \in Seq(CseEvent) /\ world \in World
      /\ Len(frame_stack) = n
  BY <1>0 DEF BufferInvariant, TypeOK, EvmTypeOK, BridgeTypeOK, Aligned
<1>4. /\ snapshots' \in Seq(Snapshot) /\ Len(snapshots') = n - 1
      /\ \A j \in 1..n - 1 : snapshots'[j] = snapshots[j]
      /\ snapshots[n] \in Snapshot /\ n \in Nat \ {0}
  BY <1>0, <1>2, <1>3, Popped
<1>5. /\ Pop \in Seq(FrameBuffer) /\ Len(Pop) = n - 1
      /\ \A j \in 1..n - 1 : Pop[j] = frame_stack[j]
      /\ Top = frame_stack[n] /\ Top \in FrameBuffer /\ Top.events \in Seq(CseEvent)
  <2>1. /\ Pop \in Seq(FrameBuffer) /\ Len(Pop) = n - 1
        /\ \A j \in 1..n - 1 : Pop[j] = frame_stack[j]
        /\ frame_stack[n] \in FrameBuffer
    BY <1>1, <1>3, Popped DEF Pop
  <2>2. Top = frame_stack[n]
    BY <1>3 DEF Top
  <2> QED BY <2>1, <2>2 DEF FrameBuffer
<1>6. world' \in World
  BY <1>2, <1>3, <1>4 DEF Snapshot
<1>7. NeverFails'
  BY <1>1 DEF BufferInvariant, NeverFails
<1>8. Settled'
  BY <1>1, <1>2 DEF BufferInvariant, Settled, Replays
<1>9. /\ Replays(txBase, tx_output, StateAfter(0))
      /\ \A j \in 1..n : Replays(snapshots[j].state, frame_stack[j].events, StateAfter(j))
      /\ \A j \in 1..n : frame_stack[j].frame_id = snapshots[j].id
                         /\ frame_stack[j].depth = j - 1
      /\ n <= nextFrame
  BY <1>0, <1>2 DEF BufferInvariant, Chained, Aligned
<1>10. \A j \in 0..n - 2 : StateAfter(j)' = StateAfter(j)
  BY <1>0, <1>4 DEF StateAfter
<1>11. StateAfter(n - 1) = snapshots[n].state /\ StateAfter(n) = world
  BY <1>0, <1>4 DEF StateAfter
<1>12. StateAfter(n - 1)' = world'
  BY <1>4 DEF StateAfter
<1>13. ASSUME tx_output' \in Seq(CseEvent), frame_stack' \in Seq(FrameBuffer),
              Len(frame_stack') = n - 1,
              \A j \in 1..n - 1 : frame_stack'[j].frame_id = frame_stack[j].frame_id
                                  /\ frame_stack'[j].depth = frame_stack[j].depth
       PROVE  TypeOK' /\ Aligned'
  <2>1. BridgeTypeOK'
    BY <1>1, <1>13 DEF BufferInvariant, TypeOK, EvmTypeOK, BridgeTypeOK, bridgeContext
  <2>2. TypeOK'
    BY <1>2, <1>4, <1>6, <2>1 DEF BufferInvariant, TypeOK, EvmTypeOK
  <2>3. \A j \in 1..n - 1 : frame_stack'[j].frame_id = snapshots'[j].id
                            /\ frame_stack'[j].depth = j - 1
    <3> TAKE j \in 1..n - 1
    <3>1. j \in 1..n
      BY <1>4
    <3> QED BY <3>1, <1>4, <1>9, <1>13
  <2>4. nextFrame \in Nat
    BY DEF BufferInvariant, TypeOK, EvmTypeOK
  <2>5. Aligned'
    BY <1>1, <1>2, <1>4, <1>9, <1>13, <2>3, <2>4 DEF BufferInvariant, Aligned
  <2> QED BY <2>2, <2>5
<1>14. CASE reverted
  <2>1. frame_stack' = Pop /\ tx_output' = tx_output /\ world' = snapshots[n].state
    BY <1>1, <1>2, <1>14 DEF Discard
  <2>2. TypeOK' /\ Aligned'
    BY <1>3, <1>5, <1>13, <2>1
  <2>3. \A j \in 0..n - 1 : StateAfter(j)' = StateAfter(j)
    BY <1>4, <1>10, <1>11, <1>12, <2>1
  <2>4. Replays(txBase', tx_output', StateAfter(0)')
    <3>1. txBase' = txBase /\ tx_output' = tx_output /\ 0 \in 0..n - 1
      BY <1>2, <1>4, <2>1
    <3> QED BY <1>9, <2>3, <3>1
  <2>5. ASSUME NEW j \in 1..n - 1
        PROVE  Replays(snapshots'[j].state, frame_stack'[j].events, StateAfter(j)')
    <3>1. j \in 1..n /\ j \in 0..n - 1
      BY <1>4
    <3>2. snapshots'[j] = snapshots[j] /\ frame_stack'[j] = frame_stack[j]
      BY <1>4, <1>5, <2>1
    <3> QED BY <1>9, <2>3, <3>1, <3>2
  <2>6. Chained'
    BY <1>4, <2>4, <2>5 DEF Chained, Replays
  <2> QED BY <1>7, <1>8, <2>2, <2>6 DEF BufferInvariant
<1>15. CASE ~reverted /\ n = 1
  <2>1. frame_stack' = Pop /\ tx_output' = tx_output \o Top.events /\ world' = world
    BY <1>1, <1>2, <1>3, <1>15 DEF Merge
  <2>2. TypeOK' /\ Aligned'
    BY <1>3, <1>5, <1>13, <2>1
  <2>3. Replays(txBase, tx_output, snapshots[1].state)
    BY <1>9, <1>11, <1>15
  <2>4. Replays(snapshots[1].state, Top.events, world)
    BY <1>5, <1>9, <1>11, <1>15
  <2>5. Replays(txBase, tx_output \o Top.events, world)
    BY <1>3, <1>5, <2>3, <2>4, YieldsConcat, ContinuesConcat DEF Replays
  <2>6. StateAfter(0)' = world
    BY <1>12, <1>15, <2>1
  <2>7. Chained'
    BY <1>2, <1>4, <1>15, <2>1, <2>5, <2>6 DEF Chained, Replays
  <2> QED BY <1>7, <1>8, <2>2, <2>7 DEF BufferInvariant
<1>16. CASE ~reverted /\ n > 1
  <2> DEFINE m == n - 1
             f == [Pop[m] EXCEPT !.events = @ \o Top.events]
  <2>1. /\ frame_stack' = [Pop EXCEPT ![m].events = @ \o Top.events]
        /\ tx_output' = tx_output /\ world' = world
    BY <1>1, <1>2, <1>3, <1>16 DEF Merge
  <2>2. m \in 1..m /\ m \in 1..n /\ Pop[m] = frame_stack[m] /\ Pop[m] \in FrameBuffer
    BY <1>4, <1>5, <1>16
  <2>3. /\ Pop[m] = [frame_id |-> Pop[m].frame_id, depth |-> Pop[m].depth,
                     events |-> Pop[m].events]
        /\ Pop[m].events \in Seq(CseEvent)
        /\ Pop[m].events \o Top.events \in Seq(CseEvent)
    BY <1>5, <2>2 DEF FrameBuffer
  <2>4. /\ f \in FrameBuffer /\ f.events = frame_stack[m].events \o Top.events
        /\ f.frame_id = frame_stack[m].frame_id /\ f.depth = frame_stack[m].depth
        /\ frame_stack[m].events \in Seq(CseEvent)
    BY <2>2, <2>3 DEF FrameBuffer
  <2>5. frame_stack' = [Pop EXCEPT ![m] = f]
    BY <2>1, <2>2, <1>5
  <2> HIDE DEF f, m
  <2>6. /\ frame_stack' \in Seq(FrameBuffer) /\ Len(frame_stack') = m
        /\ \A j \in 1..m : frame_stack'[j] = IF j = m THEN f ELSE frame_stack[j]
    BY <1>5, <2>2, <2>4, <2>5, ExceptSeq DEF m
  <2>7. TypeOK' /\ Aligned'
    BY <1>3, <1>13, <2>1, <2>4, <2>6 DEF m
  <2>8. Replays(snapshots[m].state, frame_stack[m].events \o Top.events, world)
    <3>1. Replays(snapshots[m].state, frame_stack[m].events, snapshots[n].state)
      BY <1>9, <1>11, <2>2 DEF m
    <3>2. Replays(snapshots[n].state, Top.events, world)
      BY <1>4, <1>5, <1>9, <1>11
    <3> QED BY <1>5, <2>4, <3>1, <3>2, YieldsConcat, ContinuesConcat DEF Replays
  <2>9. \A j \in 1..m :
          Replays(snapshots'[j].state, frame_stack'[j].events, StateAfter(j)')
    <3> TAKE j \in 1..m
    <3>1. snapshots'[j] = snapshots[j]
      BY <1>4 DEF m
    <3>2. CASE j = m
      <4>1. StateAfter(j)' = world
        BY <1>12, <2>1, <3>2 DEF m
      <4>2. frame_stack'[j].events = frame_stack[m].events \o Top.events
        BY <2>4, <2>6, <3>2
      <4> QED BY <2>8, <3>1, <3>2, <4>1, <4>2
    <3>3. CASE j # m
      <4>1. j \in 0..n - 2 /\ j \in 1..n
        BY <1>4, <3>3 DEF m
      <4> QED BY <1>9, <1>10, <2>6, <3>1, <3>3, <4>1
    <3> QED BY <3>2, <3>3
  <2>10. StateAfter(0)' = StateAfter(0)
    BY <1>4, <1>10, <1>16
  <2>11. Chained'
    BY <1>2, <1>4, <1>9, <2>1, <2>9, <2>10 DEF Chained, Replays, m
  <2> QED BY <1>7, <1>8, <2>7, <2>11 DEF BufferInvariant
<1> QED BY <1>4, <1>14, <1>15, <1>16

-----------------------------------------------------------------------------

\* The buffers of the bridge always stand for the pieces of history between the
\* open frames of the EVM (translate.rs, the whole loop).
THEOREM BuffersCorrect == Spec => []BufferInvariant
<1>1. Init => BufferInvariant
  BY InitBuffers
<1>2. BufferInvariant /\ [Next]_vars => BufferInvariant'
  <2> SUFFICES ASSUME BufferInvariant, [Next]_vars
               PROVE  BufferInvariant'
    OBVIOUS
  <2>1. CASE BlockStart
    BY <2>1, BlockStartPreserves
  <2>2. CASE TxStart
    BY <2>2, TxStartPreserves
  <2>3. CASE FrameEnter
    BY <2>3, FrameEnterPreserves
  <2>4. CASE \E reverted \in BOOLEAN : FrameExit(reverted)
    BY <2>4, FrameExitPreserves
  <2>5. CASE \E k \in Key, v \in Value : Write(k, v)
    BY <2>5, WritePreserves
  <2>6. CASE \E a \in Address : SelfDestruct(a)
    BY <2>6, SelfDestructPreserves
  <2>7. CASE \E reverted \in BOOLEAN : TxEnd(reverted)
    BY <2>7, TxEndPreserves
  <2>8. CASE BlockEnd
    BY <2>8, BlockEndPreserves
  <2>9. CASE Finish
    BY <2>9, FinishPreserves
  <2>10. CASE UNCHANGED vars
    <3> USE <2>10 DEF vars, bridgeVars, bridgeContext, evmVars
    <3>1. TypeOK'
      BY DEF BufferInvariant, TypeOK, EvmTypeOK, BridgeTypeOK
    <3>2. NeverFails' /\ Aligned' /\ Settled'
      BY DEF BufferInvariant, NeverFails, Aligned, Settled, Replays
    <3>3. \A j : StateAfter(j)' = StateAfter(j)
      BY DEF StateAfter
    <3>4. Chained'
      BY <3>3 DEF BufferInvariant, Chained, Replays
    <3> QED BY <3>1, <3>2, <3>4 DEF BufferInvariant
  <2> QED BY <2>1, <2>2, <2>3, <2>4, <2>5, <2>6, <2>7, <2>8, <2>9, <2>10
          DEF Next, Returned
<1> QED BY <1>1, <1>2, PTL DEF Spec

\* Type correctness of translate and of the execution it reads.
THEOREM TypeCorrect == Spec => []TypeOK
<1>1. BufferInvariant => TypeOK
  BY DEF BufferInvariant
<1> QED BY <1>1, BuffersCorrect, PTL

\* Replaying the bridge's output gives the state of the EVM.
THEOREM BridgeFaithful == Spec => []Faithful
<1>1. BufferInvariant => Faithful
  BY DEF BufferInvariant, Settled, Replays, Faithful
<1> QED BY <1>1, BuffersCorrect, PTL

\* No timeline of the bridge's output has a gap.
THEOREM BridgeUnbroken == Spec => []Unbroken
<1>1. BufferInvariant => Unbroken
  BY DEF BufferInvariant, Settled, Replays, Unbroken
<1> QED BY <1>1, BuffersCorrect, PTL

\* translate never returns an error on the stream of an execution.
THEOREM BridgeTotal == Spec => []NeverFails
<1>1. BufferInvariant => NeverFails
  BY DEF BufferInvariant
<1> QED BY <1>1, BuffersCorrect, PTL

-----------------------------------------------------------------------------
(***************************************************************************)
(* The bridge under an execution implements the journal: with the buffers  *)
(* as the inductive invariant has them, every step of the bridge is a step *)
(* of the journal or changes nothing the journal can see.                  *)
(***************************************************************************)

\* An unnumbered stream: events in the same places with the same payloads.
LEMMA UnnumberedElements ==
  ASSUME NEW q \in Seq(CseEvent)
  PROVE  /\ Unnumbered(q) \in Seq(CseEvent)
         /\ Len(q) \in Nat /\ Len(Unnumbered(q)) = Len(q)
         /\ \A i \in 1..Len(q) : Unnumbered(q)[i] = Zeroed(q[i])
         /\ \A i \in 1..Len(q) : Unnumbered(q)[i].payload = q[i].payload
<1>1. \A e \in CseEvent : Zeroed(e) \in CseEvent /\ Zeroed(e).payload = e.payload
  BY DEF CseEvent, Zeroed
<1>2. \A i \in 1..Len(q) : q[i] \in CseEvent
  OBVIOUS
<1>3. Len(q) \in Nat
  OBVIOUS
<1> HIDE DEF CseEvent
<1>4. Unnumbered(q) = [i \in 1..Len(q) |-> Zeroed(q[i])]
  BY DEF Unnumbered
<1>5. Unnumbered(q) \in Seq(CseEvent) /\ Len(Unnumbered(q)) = Len(q)
  BY <1>1, <1>2, <1>3, <1>4
<1>6. \A i \in 1..Len(q) : Unnumbered(q)[i] = Zeroed(q[i])
  BY <1>4
<1> QED BY <1>1, <1>2, <1>3, <1>5, <1>6

\* The part of a longer sequence behind a prefix of it.
LEMMA Suffix ==
  ASSUME NEW S, NEW p \in Seq(S), NEW q \in Seq(S), NEW r \in Seq(S),
         Len(r) = Len(p) + Len(q),
         \A i \in 1..Len(p) : r[i] = p[i],
         \A i \in 1..Len(q) : r[Len(p) + i] = q[i]
  PROVE  /\ Len(r) >= Len(p)
         /\ SubSeq(r, 1, Len(p)) = p
         /\ \A m, n : m = Len(p) + 1 /\ n = Len(r) => SubSeq(r, m, n) = q
<1>1. Len(p) \in Nat /\ Len(q) \in Nat /\ Len(r) \in Nat
  OBVIOUS
<1>2. SubSeq(r, 1, Len(p)) = p
  <2>1. \A i \in 1..Len(p) : r[i] \in S
    BY <1>1
  <2>2. /\ SubSeq(r, 1, Len(p)) \in Seq(S)
        /\ Len(SubSeq(r, 1, Len(p))) = Len(p)
        /\ \A i \in 1..Len(p) : SubSeq(r, 1, Len(p))[i] = p[i]
    BY <1>1, <2>1, SubSeqProperties
  <2> QED BY <2>2
<1>3. ASSUME NEW m, NEW n, m = Len(p) + 1, n = Len(r)
      PROVE  SubSeq(r, m, n) = q
  <2>1. m \in Int /\ n \in Int /\ m >= 1 /\ n - m + 1 = Len(q)
        /\ \A i \in m..n : r[i] \in S
    BY <1>1, <1>3
  <2> DEFINE u == SubSeq(r, m, n)
  <2>2. /\ u \in Seq(S)
        /\ Len(u) = IF m <= n THEN n - m + 1 ELSE 0
        /\ \A i \in 1..n - m + 1 : u[i] = r[m + i - 1]
    BY <2>1, SubSeqProperties
  <2> HIDE DEF u
  <2>3. Len(u) = Len(q)
    BY <1>1, <2>1, <2>2
  <2>4. \A i \in 1..Len(q) : u[i] = q[i]
    <3> TAKE i \in 1..Len(q)
    <3>1. m + i - 1 = Len(p) + i
      BY <1>1, <1>3
    <3> QED BY <2>1, <2>2, <3>1
  <2>5. u = q
    <3>1. u = [i \in 1..Len(u) |-> u[i]] /\ q = [i \in 1..Len(q) |-> q[i]]
      BY <2>2
    <3> QED BY <2>3, <2>4, <3>1
  <2> QED BY <2>5 DEF u
<1> QED BY <1>1, <1>2, <1>3

-----------------------------------------------------------------------------
(***************************************************************************)
(* The steps.                                                              *)
(***************************************************************************)

SavepointsOf(q) == [j \in 1..Len(q) |-> q[j].state]

\* The bridge starts with an empty log, in the state of the execution.
LEMMA InitJournal == Init => Journal!Init
<1> SUFFICES ASSUME Init PROVE Journal!Init
  OBVIOUS
<1>1. /\ Unnumbered(final_output) = << >>
      /\ SavepointsOf(snapshots) = << >>
      /\ world \in World /\ phase = "start" /\ tx_open = FALSE
  BY DEF Init, BridgeInit, EvmInit, Unnumbered, SavepointsOf
<1>2. world \in Journal!World
  BY <1>1 DEF World, Key, Journal!World, Journal!Key
<1> QED BY <1>1, <1>2 DEF Journal!Init, SavepointsOf

\* A step that leaves log, states and marks alone is a stutter.
LEMMA JournalStutters ==
  ASSUME UNCHANGED <<Unnumbered(final_output), world, snapshots, tx_open>>,
         phase' = phase \/ (phase # "tx" /\ phase' # "tx"), UNCHANGED txBase
  PROVE  UNCHANGED Journal!vars
  BY DEF Journal!vars

\* A transaction of the execution opens one of the journal.
LEMMA TxStartBegins ==
  ASSUME BufferInvariant, TxStart
  PROVE  Journal!Begin
<1>1. tx_open' = TRUE /\ UNCHANGED final_output
  BY StartTxStep
<1>2. /\ phase = "block" /\ phase' = "tx" /\ txBase' = world /\ snapshots' = << >>
      /\ UNCHANGED world
  BY DEF TxStart, EvmTxStart
<1>3. ~tx_open /\ snapshots = << >>
  BY <1>2 DEF BufferInvariant, Aligned
<1> QED BY <1>1, <1>2, <1>3 DEF Journal!Begin, Unnumbered

\* A write goes to the view alone: no event reaches the log.
LEMMA WritePuts ==
  ASSUME BufferInvariant, NEW k \in Key, NEW v \in Value, Write(k, v)
  PROVE  Journal!Put(k, v)
<1>1. UNCHANGED <<final_output, tx_open>>
  <2> DEFINE payload == [type |-> "StateChanged", key |-> k, before |-> world[k], after |-> v]
  <2>1. append_mutation(CurrentFrame, payload)
    BY DEF Write, Translate, TranslateMutation, MutationEvent
  <2> HIDE DEF payload
  <2> QED BY <2>1, MutationStep
<1>2. /\ phase = "tx" /\ world' = [world EXCEPT ![k] = v]
      /\ UNCHANGED <<snapshots, phase, txBase>>
  BY DEF Write, EvmWrite
<1>3. tx_open
  BY <1>2 DEF BufferInvariant, Aligned
<1> QED BY <1>1, <1>2, <1>3 DEF Journal!Put, Unnumbered

\* A frame marks the state it was entered in.
LEMMA FrameEnterMarks ==
  ASSUME BufferInvariant, FrameEnter
  PROVE  Journal!Mark
<1>1. UNCHANGED <<final_output, tx_open>>
  BY EnterStep
<1>2. /\ phase = "tx" /\ UNCHANGED <<world, phase, txBase>>
      /\ snapshots' = Append(snapshots, [id |-> nextFrame, state |-> world])
  BY DEF FrameEnter, EvmFrameEnter
<1>3. tx_open /\ snapshots \in Seq(Snapshot)
  BY <1>2 DEF BufferInvariant, Aligned, TypeOK, EvmTypeOK
<1>4. SavepointsOf(snapshots') = Append(SavepointsOf(snapshots), world)
  BY <1>2, <1>3 DEF SavepointsOf
<1> QED BY <1>1, <1>2, <1>3, <1>4 DEF Journal!Mark, Unnumbered, SavepointsOf

\* The exit of a frame releases its mark, or rolls back to it.
LEMMA FrameExitLeaves ==
  ASSUME BufferInvariant, NEW reverted \in BOOLEAN, FrameExit(reverted)
  PROVE  Journal!Release \/ Journal!Rollback
<1>1. UNCHANGED <<final_output, tx_open>>
  BY ExitStep
<1>2. /\ phase = "tx" /\ snapshots # << >>
      /\ world' = IF reverted THEN snapshots[Len(snapshots)].state ELSE world
      /\ snapshots' = SubSeq(snapshots, 1, Len(snapshots) - 1)
      /\ UNCHANGED <<phase, txBase>>
  BY DEF FrameExit, EvmFrameExit
<1>3. snapshots \in Seq(Snapshot) /\ Len(snapshots) \in Nat \ {0}
  BY <1>2 DEF BufferInvariant, TypeOK, EvmTypeOK
<1> DEFINE marks == SavepointsOf(snapshots)
<1>4. /\ \A j \in 1..Len(snapshots) : snapshots[j].state \in World
      /\ marks \in Seq(World) /\ Len(marks) = Len(snapshots) /\ marks # << >>
      /\ \A j \in 1..Len(snapshots) : marks[j] = snapshots[j].state
  <2>1. \A j \in 1..Len(snapshots) : snapshots[j].state \in World
    <3>1. \A j \in 1..Len(snapshots) : snapshots[j] \in Snapshot
      BY <1>3
    <3> QED BY <3>1 DEF Snapshot
  <2>2. marks = [j \in 1..Len(snapshots) |-> snapshots[j].state]
    BY DEF SavepointsOf
  <2> HIDE DEF marks
  <2>3. \A j \in 1..Len(snapshots) : marks[j] = snapshots[j].state
    BY <2>2
  <2>4. marks \in [1..Len(snapshots) -> World]
    BY <2>1, <2>2
  <2>5. marks \in Seq(World) /\ Len(marks) = Len(snapshots)
    BY <1>3, <2>4
  <2> QED BY <1>3, <2>1, <2>3, <2>5
<1>5. /\ Len(snapshots') = Len(snapshots) - 1
      /\ \A j \in 1..Len(snapshots) - 1 : snapshots'[j] = snapshots[j]
  BY <1>2, <1>3, Popped
<1>6. SavepointsOf(snapshots') = SubSeq(marks, 1, Len(marks) - 1)
  <2> HIDE DEF marks
  <2>1. /\ SubSeq(marks, 1, Len(marks) - 1) \in Seq(World)
        /\ Len(SubSeq(marks, 1, Len(marks) - 1)) = Len(marks) - 1
        /\ \A j \in 1..Len(marks) - 1 : SubSeq(marks, 1, Len(marks) - 1)[j] = marks[j]
    BY <1>4, Popped
  <2>2. SavepointsOf(snapshots') = [j \in 1..Len(snapshots) - 1 |-> snapshots'[j].state]
    BY <1>5 DEF SavepointsOf
  <2>3. \A j \in 1..Len(snapshots) - 1 : snapshots'[j].state = marks[j]
    BY <1>3, <1>4, <1>5
  <2> QED BY <1>3, <1>4, <2>1, <2>2, <2>3
<1>7. marks[Len(marks)] = snapshots[Len(snapshots)].state
  BY <1>3, <1>4
<1>8. CASE reverted
  BY <1>1, <1>2, <1>4, <1>6, <1>7, <1>8 DEF Journal!Rollback, Unnumbered, SavepointsOf
<1>9. CASE ~reverted
  BY <1>1, <1>2, <1>4, <1>6, <1>9 DEF Journal!Release, Unnumbered, SavepointsOf
<1> QED BY <1>8, <1>9

\* The end of a transaction appends its events, which lead from the state
\* before it to the state of now.
LEMMA TxEndCommits ==
  ASSUME BufferInvariant, NEW reverted \in BOOLEAN, TxEnd(reverted)
  PROVE  Journal!Commit
<1> DEFINE b == boundary_event("EndTransaction", tx_hash, tx_index)
           piece == Append(tx_output, b)
           old == Unnumbered(final_output)
           new == Unnumbered(final_output')
           added == SubSeq(new, Len(old) + 1, Len(new))
<1>1. final_output' = final_output \o piece /\ tx_open' = FALSE
  BY EndTxStep
<1>2. /\ phase = "tx" /\ phase' = "block" /\ snapshots = << >>
      /\ UNCHANGED <<world, snapshots, txBase>>
  BY DEF TxEnd, EvmTxEnd
<1>3. /\ tx_open /\ final_output \in Seq(CseEvent) /\ tx_output \in Seq(CseEvent)
      /\ Replays(txBase, tx_output, world)
  BY <1>2 DEF BufferInvariant, Aligned, TypeOK, BridgeTypeOK, Chained, StateAfter
<1>4. b \in CseEvent /\ b.payload.type # "StateChanged"
  <2>1. tx_hash \in Nat /\ tx_index \in Nat /\ block_number \in Nat
    BY DEF BufferInvariant, TypeOK, BridgeTypeOK
  <2> QED BY <2>1, BoundaryType
<1> HIDE DEF b
<1>5. piece \in Seq(CseEvent) /\ Yields(txBase, piece, world) /\ Continues(txBase, piece)
  BY <1>3, <1>4, AppendOther DEF Replays
<1> HIDE DEF piece
<1>6. /\ final_output' \in Seq(CseEvent)
      /\ Len(final_output') = Len(final_output) + Len(piece)
      /\ \A i \in 1..Len(final_output) : final_output'[i] = final_output[i]
      /\ \A i \in 1..Len(piece) : final_output'[Len(final_output) + i] = piece[i]
  BY <1>1, <1>3, <1>5, ConcatElements
<1>7. /\ old \in Seq(CseEvent) /\ new \in Seq(CseEvent) /\ Unnumbered(piece) \in Seq(CseEvent)
      /\ Len(old) = Len(final_output) /\ Len(Unnumbered(piece)) = Len(piece)
      /\ Len(new) = Len(final_output') /\ Len(piece) \in Nat /\ Len(final_output) \in Nat
      /\ \A i \in 1..Len(piece) : Unnumbered(piece)[i].payload = piece[i].payload
  BY <1>3, <1>5, <1>6, UnnumberedElements
<1>8. \A i \in 1..Len(old) : new[i] = old[i]
  <2> TAKE i \in 1..Len(old)
  <2>1. i \in 1..Len(final_output) /\ i \in 1..Len(final_output')
    BY <1>6, <1>7
  <2>2. new[i] = Zeroed(final_output'[i]) /\ old[i] = Zeroed(final_output[i])
    <3> HIDE DEF old, new
    <3>1. /\ \A j \in 1..Len(final_output') : new[j] = Zeroed(final_output'[j])
          /\ \A j \in 1..Len(final_output) : old[j] = Zeroed(final_output[j])
      BY <1>3, <1>6, UnnumberedElements DEF old, new
    <3> QED BY <2>1, <3>1
  <2> QED BY <2>1, <2>2, <1>6
<1>9. \A i \in 1..Len(Unnumbered(piece)) : new[Len(old) + i] = Unnumbered(piece)[i]
  <2> TAKE i \in 1..Len(Unnumbered(piece))
  <2>1. i \in 1..Len(piece) /\ Len(final_output) + i \in 1..Len(final_output')
    BY <1>6, <1>7
  <2>2. new[Len(final_output) + i] = Zeroed(final_output'[Len(final_output) + i])
    BY <2>1, <1>6, UnnumberedElements
  <2>3. Unnumbered(piece)[i] = Zeroed(piece[i])
    BY <2>1, <1>5, UnnumberedElements
  <2>4. Len(old) + i = Len(final_output) + i
    BY <1>7
  <2> HIDE DEF old, new
  <2> QED BY <2>1, <2>2, <2>3, <2>4, <1>6
<1>10. /\ Len(new) >= Len(old) /\ SubSeq(new, 1, Len(old)) = old
       /\ added = Unnumbered(piece)
  <2>1. Len(new) = Len(old) + Len(Unnumbered(piece))
    BY <1>6, <1>7
  <2> DEFINE more == Unnumbered(piece)
  <2>2. old \in Seq(CseEvent) /\ more \in Seq(CseEvent) /\ new \in Seq(CseEvent)
    BY <1>7
  <2>3. /\ Len(new) = Len(old) + Len(more)
        /\ \A i \in 1..Len(old) : new[i] = old[i]
        /\ \A i \in 1..Len(more) : new[Len(old) + i] = more[i]
    BY <2>1, <1>8, <1>9
  <2> DEFINE m == Len(old) + 1
             n == Len(new)
  <2>4. m = Len(old) + 1 /\ n = Len(new)
    OBVIOUS
  <2> HIDE DEF old, new, more, m, n
  <2>5. Len(new) >= Len(old)
    BY <2>2, <2>3, Suffix
  <2>6. SubSeq(new, 1, Len(old)) = old
    BY <2>2, <2>3, Suffix
  <2>7. SubSeq(new, m, n) = more
    BY <2>2, <2>3, <2>4, Suffix
  <2> QED BY <2>5, <2>6, <2>7 DEF more, m, n
<1>11. Yields(txBase, added, world) /\ Continues(txBase, added)
  BY <1>5, <1>7, <1>10, ReplayPayloads
<1>12. Journal!Yields(txBase, added, world) /\ Journal!Continues(txBase, added)
  BY <1>11 DEF Yields, Continues, Writes, Journal!Yields, Journal!Continues, Journal!Writes,
               Key, Journal!Key
<1>13. SavepointsOf(snapshots) = << >>
  BY <1>2 DEF SavepointsOf
<1> QED BY <1>1, <1>2, <1>3, <1>10, <1>12, <1>13 DEF Journal!Commit, SavepointsOf

\* Numbering the log at the end changes nothing but the numbers.
LEMMA FinishStutters ==
  ASSUME BufferInvariant, Finish
  PROVE  UNCHANGED Journal!vars
<1>1. /\ final_output' = [i \in 1..Len(final_output) |->
                            [final_output[i] EXCEPT !.sequence_number = i - 1]]
      /\ UNCHANGED <<tx_open, evmVars>>
  BY DEF BufferInvariant, Aligned, Finish, TranslateFinish
<1>2. final_output \in Seq(CseEvent) /\ Len(final_output) \in Nat
  BY DEF BufferInvariant, TypeOK, BridgeTypeOK
<1>3. Len(final_output') = Len(final_output)
  BY <1>1, <1>2
<1>4. \A i \in 1..Len(final_output) : Zeroed(final_output'[i]) = Zeroed(final_output[i])
  <2> TAKE i \in 1..Len(final_output)
  <2>1. final_output[i] \in CseEvent
    BY <1>2
  <2>2. final_output'[i] = [final_output[i] EXCEPT !.sequence_number = i - 1]
    BY <1>1
  <2> QED BY <2>1, <2>2 DEF CseEvent, Zeroed
<1>5. UNCHANGED Unnumbered(final_output)
  BY <1>3, <1>4 DEF Unnumbered
<1> QED BY <1>1, <1>5, JournalStutters DEF evmVars

-----------------------------------------------------------------------------

\* The bridge hands on whole transactions, each leading from the state before
\* it to the state after it, and takes nothing back (translate.rs,
\* final_output).
THEOREM BridgeIsAtomic == Spec => Atomic
<1>1. Init => Journal!Init
  BY InitJournal
<1>2. BufferInvariant /\ [Next]_vars => [Journal!Next]_(Journal!vars)
  <2> SUFFICES ASSUME BufferInvariant, [Next]_vars
               PROVE  Journal!Next \/ UNCHANGED Journal!vars
    OBVIOUS
  <2>1. CASE BlockStart
    BY <2>1, JournalStutters
       DEF BlockStart, EvmBlockStart, Translate, TranslateBlockStart, BlockStartEvent, Unnumbered
  <2>2. CASE TxStart
    BY <2>2, TxStartBegins DEF Journal!Next
  <2>3. CASE FrameEnter
    BY <2>3, FrameEnterMarks DEF Journal!Next
  <2>4. CASE \E reverted \in BOOLEAN : FrameExit(reverted)
    BY <2>4, FrameExitLeaves DEF Journal!Next
  <2>5. CASE \E k \in Key, v \in Value : Write(k, v)
    <3>1. PICK k \in Key, v \in Value : Write(k, v)
      BY <2>5
    <3>2. Journal!Put(k, v) /\ k \in Journal!Key
      BY <3>1, WritePuts DEF Key, Journal!Key
    <3> QED BY <3>2 DEF Journal!Next
  <2>6. CASE \E a \in Address : SelfDestruct(a)
    <3>1. PICK a \in Address : SelfDestruct(a)
      BY <2>6
    <3>2. UNCHANGED <<final_output, tx_open>>
      <4> DEFINE payload == [type |-> "ContractDestroyed", address |-> a]
      <4>1. append_mutation(CurrentFrame, payload)
        BY <3>1 DEF SelfDestruct, Translate, TranslateSelfDestruct, SelfDestructEvent
      <4> HIDE DEF payload
      <4> QED BY <4>1, MutationStep
    <3>3. UNCHANGED <<world, snapshots, phase, txBase>>
      BY <3>1 DEF SelfDestruct, EvmSelfDestruct
    <3> QED BY <3>2, <3>3, JournalStutters DEF Unnumbered
  <2>7. CASE \E reverted \in BOOLEAN : TxEnd(reverted)
    BY <2>7, TxEndCommits DEF Journal!Next
  <2>8. CASE BlockEnd
    BY <2>8, JournalStutters
       DEF BlockEnd, EvmBlockEnd, Translate, TranslateBlockCommit, BlockCommitEvent, bridgeVars,
           Unnumbered
  <2>9. CASE Finish
    BY <2>9, FinishStutters
  <2>10. CASE UNCHANGED vars
    BY <2>10, JournalStutters DEF vars, bridgeVars, evmVars, Unnumbered
  <2> QED BY <2>1, <2>2, <2>3, <2>4, <2>5, <2>6, <2>7, <2>8, <2>9, <2>10
          DEF Next, Returned
<1> QED BY <1>1, <1>2, BuffersCorrect, PTL DEF Spec, Atomic, Journal!Spec

=============================================================================
