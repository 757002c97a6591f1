------------------------------- MODULE Bridge -------------------------------
(***************************************************************************)
(* runtime/bridge/src/translate.rs: the loop of `translate`, one action    *)
(* per arm of its match.  The loop reads the stream from left to right     *)
(* and never looks ahead, so each action takes the event it reads as a     *)
(* parameter; the module that composes the bridge says where events come   *)
(* from.  A failing arm is an early return: it sets bridge_result and      *)
(* leaves the rest as it was.                                              *)
(***************************************************************************)
EXTENDS Replay

VARIABLES
  final_output,   \* events of the transactions translated so far
  tx_open,        \* inside a transaction
  tx_output,      \* events of the open transaction that survive already
  frame_stack,    \* one buffer per open call frame, innermost last
  block_number,   \* provisional context stamped on every event
  tx_index,
  tx_hash,
  bridge_result   \* "running", "Ok", or the BridgeError returned

bridgeContext == <<block_number, tx_index, tx_hash>>
bridgeVars ==
  <<final_output, tx_open, tx_output, frame_stack, bridgeContext, bridge_result>>

BridgeError ==
  {"UnbalancedFrames", "TransactionStartWhileOpen", "EventOutsideTransaction",
   "FrameIdOverflow"}

FrameBuffer == [frame_id : 0..U64_MAX, depth : 0..U64_MAX, events : Seq(CseEvent)]

BridgeTypeOK ==
  /\ final_output \in Seq(CseEvent)
  /\ tx_open \in BOOLEAN
  /\ tx_output \in Seq(CseEvent)
  /\ frame_stack \in Seq(FrameBuffer)
  /\ block_number \in Nat
  /\ tx_index \in Nat
  /\ tx_hash \in Nat
  /\ bridge_result \in {"running", "Ok"} \cup BridgeError

BridgeInit ==
  /\ final_output = << >>
  /\ tx_open = FALSE
  /\ tx_output = << >>
  /\ frame_stack = << >>
  /\ block_number = 0
  /\ tx_index = 0
  /\ tx_hash = 0
  /\ bridge_result = "running"

Top == frame_stack[Len(frame_stack)]

Pop == SubSeq(frame_stack, 1, Len(frame_stack) - 1)

BridgeFail(error) ==
  /\ bridge_result' = error
  /\ UNCHANGED <<final_output, tx_open, tx_output, frame_stack, bridgeContext>>

\* A CSE event in the current context; the sequence number is assigned at the
\* end.  The cast `tx_index as u32` keeps the low 32 bits.
CseEventOf(payload, frame, depth, hash, index) ==
  [payload |-> payload, sequence_number |-> 0, block_number |-> block_number,
   transaction_hash |-> hash, transaction_index |-> index % (U32_MAX + 1),
   call_frame_id |-> frame, call_depth |-> depth]

boundary_event(type, hash, index) ==
  CseEventOf([type |-> type], U32_MAX, 0, hash, index)

-----------------------------------------------------------------------------

TranslateBlockStart(e) ==
  /\ block_number' = e.number
  /\ UNCHANGED <<final_output, tx_open, tx_output, frame_stack, tx_index, tx_hash,
                 bridge_result>>

\* Dropped: nothing downstream takes block-level data.
TranslateBlockCommit(e) == UNCHANGED bridgeVars

\* Mutant of TranslateTransactionStart: tx_output is not cleared.
TransactionStartUncleared(e) ==
  /\ ~tx_open
  /\ tx_open' = TRUE
  /\ tx_index' = e.txIndex
  /\ tx_hash' = e.hash
  /\ tx_output' = Append(tx_output, boundary_event("BeginTransaction", e.hash, e.txIndex))
  /\ frame_stack' = << >>
  /\ UNCHANGED <<final_output, block_number, bridge_result>>

TranslateTransactionStart(e) ==
  \/ /\ tx_open
     /\ BridgeFail("TransactionStartWhileOpen")
  \/ /\ ~tx_open
     /\ tx_open' = TRUE
     /\ tx_index' = e.txIndex
     /\ tx_hash' = e.hash
     /\ tx_output' = <<boundary_event("BeginTransaction", e.hash, e.txIndex)>>
     /\ frame_stack' = << >>
     /\ UNCHANGED <<final_output, block_number, bridge_result>>

\* Mutant of TranslateTransactionEnd: a reverted transaction loses its events,
\* the frameless ones included.
TransactionEndDropsReverted(e) ==
  /\ tx_open
  /\ final_output' =
       final_output \o Append(IF e.reverted THEN <<Head(tx_output)>> ELSE tx_output,
                              boundary_event("EndTransaction", tx_hash, tx_index))
  /\ tx_output' = << >>
  /\ tx_open' = FALSE
  /\ UNCHANGED <<frame_stack, bridgeContext, bridge_result>>

\* Mutant of TranslateTransactionEnd: the output is assigned, not extended.
TransactionEndReplaces(e) ==
  /\ tx_open
  /\ final_output' = Append(tx_output, boundary_event("EndTransaction", tx_hash, tx_index))
  /\ tx_output' = << >>
  /\ tx_open' = FALSE
  /\ UNCHANGED <<frame_stack, bridgeContext, bridge_result>>

\* Mutant of TranslateTransactionEnd: open frames are not looked for.
TransactionEndUnchecked(e) ==
  \/ /\ ~tx_open
     /\ BridgeFail("EventOutsideTransaction")
  \/ /\ tx_open
     /\ final_output' =
          final_output \o Append(tx_output,
                                 boundary_event("EndTransaction", tx_hash, tx_index))
     /\ tx_output' = << >>
     /\ tx_open' = FALSE
     /\ UNCHANGED <<frame_stack, bridgeContext, bridge_result>>

\* e.reverted is deliberately not looked at.
TranslateTransactionEnd(e) ==
  \/ /\ ~tx_open
     /\ BridgeFail("EventOutsideTransaction")
  \/ /\ tx_open
     /\ frame_stack # << >>
     /\ BridgeFail("UnbalancedFrames")
  \/ /\ tx_open
     /\ frame_stack = << >>
     /\ final_output' =
          final_output \o Append(tx_output,
                                 boundary_event("EndTransaction", tx_hash, tx_index))
     /\ tx_output' = << >>
     /\ tx_open' = FALSE
     /\ UNCHANGED <<frame_stack, bridgeContext, bridge_result>>

TranslateFrameEnter(e) ==
  \/ /\ ~tx_open
     /\ BridgeFail("EventOutsideTransaction")
  \/ /\ tx_open
     /\ frame_stack' =
          Append(frame_stack,
                 [frame_id |-> e.frameID, depth |-> e.depth, events |-> << >>])
     /\ UNCHANGED <<final_output, tx_open, tx_output, bridgeContext, bridge_result>>

\* Mutant of Merge: the child's events go in front of the parent's.
MergeBefore(buffer) ==
  LET n == Len(frame_stack) IN
  \/ /\ n > 1
     /\ frame_stack' = [Pop EXCEPT ![n - 1].events = buffer \o @]
     /\ UNCHANGED tx_output
  \/ /\ n = 1
     /\ frame_stack' = Pop
     /\ tx_output' = tx_output \o buffer

\* Mutant of Merge: the root frame's events are not handed on.
MergeWithoutRoot(buffer) ==
  LET n == Len(frame_stack) IN
  \/ /\ n > 1
     /\ frame_stack' = [Pop EXCEPT ![n - 1].events = @ \o buffer]
     /\ UNCHANGED tx_output
  \/ /\ n = 1
     /\ frame_stack' = Pop
     /\ UNCHANGED tx_output

\* The buffer of a committed frame goes to its parent, or to tx_output when
\* the frame is the root.
Merge(buffer) ==
  LET n == Len(frame_stack) IN
  \/ /\ n > 1
     /\ frame_stack' = [Pop EXCEPT ![n - 1].events = @ \o buffer]
     /\ UNCHANGED tx_output
  \/ /\ n = 1
     /\ frame_stack' = Pop
     /\ tx_output' = tx_output \o buffer

\* Mutant of Discard: the reverted frame's buffer is merged after all.
DiscardLeaks == Merge(Top.events)

\* Mutant of Discard: the reverted frame stays on the stack.
DiscardWithoutPop == UNCHANGED <<frame_stack, tx_output>>

\* The buffer of a reverted frame is dropped, at any depth.
Discard ==
  /\ frame_stack' = Pop
  /\ UNCHANGED tx_output

TranslateFrameExit(e) ==
  \/ /\ ~tx_open
     /\ BridgeFail("EventOutsideTransaction")
  \/ /\ tx_open
     /\ \/ frame_stack = << >>
        \/ frame_stack # << >> /\ Top.frame_id # e.frameID
     /\ BridgeFail("UnbalancedFrames")
  \/ /\ tx_open
     /\ frame_stack # << >>
     /\ Top.frame_id = e.frameID
     /\ IF e.reverted THEN Discard ELSE Merge(Top.events)
     /\ UNCHANGED <<final_output, tx_open, bridgeContext, bridge_result>>

\* Mutant of append_mutation: ids and depths are cut off at 32 bits.
AppendNarrowed(frameID, payload) ==
  \/ /\ frameID = NO_FRAME
     /\ tx_output' = Append(tx_output, CseEventOf(payload, U32_MAX, 0, tx_hash, tx_index))
     /\ UNCHANGED <<final_output, tx_open, frame_stack, bridgeContext, bridge_result>>
  \/ /\ frameID # NO_FRAME
     /\ frame_stack # << >>
     /\ LET low(n) == n % (U32_MAX + 1)
            event == CseEventOf(payload, low(Top.frame_id), low(Top.depth), tx_hash, tx_index)
        IN  frame_stack' = [frame_stack EXCEPT
                              ![Len(frame_stack)].events = Append(@, event)]
     /\ UNCHANGED <<final_output, tx_open, tx_output, bridgeContext, bridge_result>>

\* append_mutation: neither tx_open nor the identity of the frame is checked;
\* a frameless event goes to tx_output and any other to the innermost buffer.
append_mutation(frameID, payload) ==
  \/ /\ frameID = NO_FRAME
     /\ tx_output' = Append(tx_output, CseEventOf(payload, U32_MAX, 0, tx_hash, tx_index))
     /\ UNCHANGED <<final_output, tx_open, frame_stack, bridgeContext, bridge_result>>
  \/ /\ frameID # NO_FRAME
     /\ frame_stack = << >>
     /\ BridgeFail("UnbalancedFrames")
  \/ /\ frameID # NO_FRAME
     /\ frame_stack # << >>
     /\ Top.frame_id > U32_MAX \/ Top.depth > U32_MAX
     /\ BridgeFail("FrameIdOverflow")
  \/ /\ frameID # NO_FRAME
     /\ frame_stack # << >>
     /\ Top.frame_id <= U32_MAX /\ Top.depth <= U32_MAX
     /\ LET event == CseEventOf(payload, Top.frame_id, Top.depth, tx_hash, tx_index)
        IN  frame_stack' = [frame_stack EXCEPT
                              ![Len(frame_stack)].events = Append(@, event)]
     /\ UNCHANGED <<final_output, tx_open, tx_output, bridgeContext, bridge_result>>

TranslateMutation(e) ==
  append_mutation(e.frameID,
    [type |-> "StateChanged", key |-> e.key, before |-> e.before, after |-> e.after])

TranslateAccountCreated(e) ==
  append_mutation(e.frameID, [type |-> "ContractCreated", address |-> e.address])

TranslateSelfDestruct(e) ==
  append_mutation(e.frameID, [type |-> "ContractDestroyed", address |-> e.address])

\* One iteration of the loop.
Translate(e) ==
  /\ bridge_result = "running"
  /\ \/ e.type = "BlockStart" /\ TranslateBlockStart(e)
     \/ e.type = "BlockCommit" /\ TranslateBlockCommit(e)
     \/ e.type = "TransactionStart" /\ TranslateTransactionStart(e)
     \/ e.type = "TransactionEnd" /\ TranslateTransactionEnd(e)
     \/ e.type = "FrameEnter" /\ TranslateFrameEnter(e)
     \/ e.type = "FrameExit" /\ TranslateFrameExit(e)
     \/ e.type = "Mutation" /\ TranslateMutation(e)
     \/ e.type = "AccountCreated" /\ TranslateAccountCreated(e)
     \/ e.type = "SelfDestruct" /\ TranslateSelfDestruct(e)

\* Mutant of TranslateFinish: the events are not numbered.
FinishUnnumbered ==
  /\ bridge_result = "running"
  /\ bridge_result' = "Ok"
  /\ UNCHANGED <<final_output, tx_open, tx_output, frame_stack, bridgeContext>>

\* After the loop: an open transaction is an error, otherwise the surviving
\* events are numbered densely in output order.
TranslateFinish ==
  /\ bridge_result = "running"
  /\ \/ /\ tx_open
        /\ BridgeFail("EventOutsideTransaction")
     \/ /\ ~tx_open
        /\ final_output' = [i \in 1..Len(final_output) |->
                              [final_output[i] EXCEPT !.sequence_number = i - 1]]
        /\ bridge_result' = "Ok"
        /\ UNCHANGED <<tx_open, tx_output, frame_stack, bridgeContext>>

=============================================================================
