------------------------------ MODULE EvmBridge ------------------------------
(***************************************************************************)
(* The bridge reading a stream that a real execution produced.  An EVM     *)
(* step emits one event, which the bridge reads in the same step:          *)
(* `translate` reads left to right without lookahead, so choosing each     *)
(* event when it is read is the same as choosing the whole stream first.   *)
(* The events carry what the tracer puts in them (Tracer): frame ids count *)
(* from 0 in each transaction and TxIndex is always 0.                     *)
(***************************************************************************)
EXTENDS Bridge, Evm

vars == <<bridgeVars, evmVars>>

TypeOK == BridgeTypeOK /\ EvmTypeOK

Init == BridgeInit /\ EvmInit

-----------------------------------------------------------------------------

BlockStart == EvmBlockStart /\ Translate(BlockStartEvent(1))

TxStart == EvmTxStart /\ Translate(TransactionStartEvent(txs + 1, 0))

FrameEnter ==
  /\ EvmFrameEnter
  /\ Translate(FrameEnterEvent(nextFrame, CurrentFrame, Len(snapshots)))

FrameExit(reverted) ==
  /\ EvmFrameExit(reverted)
  /\ Translate(FrameExitEvent(CurrentFrame, reverted))

Write(k, v) ==
  /\ EvmWrite(k, v)
  /\ Translate(MutationEvent(CurrentFrame, k, world[k], v))

SelfDestruct(a) ==
  /\ EvmSelfDestruct
  /\ Translate(SelfDestructEvent(CurrentFrame, a))

TxEnd(reverted) ==
  /\ EvmTxEnd
  /\ Translate(TransactionEndEvent(reverted))

BlockEnd == EvmBlockEnd /\ Translate(BlockCommitEvent)

Finish ==
  /\ phase = "end"
  /\ TranslateFinish
  /\ UNCHANGED evmVars

\* translate has returned.
Returned ==
  /\ bridge_result # "running"
  /\ UNCHANGED vars

Next ==
  \/ BlockStart
  \/ TxStart
  \/ FrameEnter
  \/ \E reverted \in BOOLEAN : FrameExit(reverted)
  \/ \E k \in Key, v \in Value : Write(k, v)
  \/ \E a \in Address : SelfDestruct(a)
  \/ \E reverted \in BOOLEAN : TxEnd(reverted)
  \/ BlockEnd
  \/ Finish
  \/ Returned

Spec == Init /\ [][Next]_vars

\* A withdrawal or a block reward: go-ethereum credits an account between
\* transactions, and OnBalanceChange emits it like any other change.
Withdraw(a, v) ==
  LET k == [kind |-> "Balance", address |-> a, slot |-> NoSlot] IN
  /\ phase = "block"
  /\ world[k] # v
  /\ mutations < MaxMutations
  /\ mutations' = mutations + 1
  /\ world' = [world EXCEPT ![k] = v]
  /\ Translate(MutationEvent(NO_FRAME, k, world[k], v))
  /\ UNCHANGED <<snapshots, nextFrame, phase, txs, blockBase, txBase>>

SpecWithdrawals == Init /\ [][Next \/ \E a \in Address, v \in Value : Withdraw(a, v)]_vars

-----------------------------------------------------------------------------
(***************************************************************************)
(* Properties                                                              *)
(***************************************************************************)

\* Between transactions, replaying what the bridge has kept on the state at
\* the start of the block gives exactly the state the EVM is in: no write of a
\* reverted frame survives and none of a committed one is lost, whatever the
\* nesting of commits and reverts (translate.rs, FrameExit and append_mutation).
Faithful == phase # "tx" => Yields(blockBase, final_output, world)

\* What the bridge keeps chains cell by cell: each surviving write starts from
\* the value the previous surviving write left, so that no timeline the builder
\* makes of it is a DiscontinuousLineage (timeline.rs, reduce).
Unbroken == Continues(blockBase, final_output)

\* The defensive checks of `translate` never fire on a stream an execution
\* produced.
NeverFails == bridge_result \notin BridgeError

\* What the documentation of translate says of frameless mutations: they are
\* forwarded unconditionally and always survive, so that the translation of a
\* whole block replays to the state the block ended in.
FramelessSurvive == bridge_result = "Ok" => Yields(blockBase, final_output, world)

-----------------------------------------------------------------------------
(***************************************************************************)
(* Refinement: the bridge as a journal.  The log is what translate has     *)
(* moved to final_output, before it is numbered, and a transaction is open *)
(* when the bridge says so; the states are the execution's.                *)
(***************************************************************************)

Zeroed(event) == [event EXCEPT !.sequence_number = 0]

Unnumbered(q) == [i \in 1..Len(q) |-> Zeroed(q[i])]

Journal == INSTANCE AtomicJournal WITH
  log        <- Unnumbered(final_output),
  store      <- IF phase = "tx" THEN txBase ELSE world,
  view       <- world,
  savepoints <- [j \in 1..Len(snapshots) |-> snapshots[j].state],
  open       <- tx_open

\* translate implements the journal: its output grows at the end of a
\* transaction and at no other step, by events that lead without a gap from the
\* state before the transaction to the state after it, and nothing that was
\* handed on is ever taken back (translate.rs, final_output).
Atomic == Journal!Spec

-----------------------------------------------------------------------------
(***************************************************************************)
(* The inductive invariant.  Faithful speaks of the state between          *)
(* transactions; to be preserved it needs to know what every open buffer   *)
(* stands for.  The buffers cut the history of the open transaction at the *)
(* entries of its open frames: tx_output leads from txBase to the state at *)
(* the entry of the root frame, the buffer of a frame from the state at    *)
(* its entry to the state at the entry of the next one, and the innermost  *)
(* buffer to the state of now.  A reverted exit drops the last piece and   *)
(* the EVM restores the state at which that piece began.                   *)
(***************************************************************************)

Replays(s, q, t) == Yields(s, q, t) /\ Continues(s, q)

\* The state that buffer j leads to; buffer 0 is tx_output.
StateAfter(j) == IF j < Len(snapshots) THEN snapshots[j + 1].state ELSE world

\* The bridge's stack mirrors the EVM's.
Aligned ==
  /\ Len(frame_stack) = Len(snapshots)
  /\ \A j \in 1..Len(snapshots) :
       /\ frame_stack[j].frame_id = snapshots[j].id
       /\ frame_stack[j].depth = j - 1
  /\ tx_open <=> phase = "tx"
  /\ phase # "tx" => snapshots = << >>
  /\ Len(snapshots) <= nextFrame
  /\ bridge_result = "Ok" => phase = "end"

Settled == Replays(blockBase, final_output, IF phase = "tx" THEN txBase ELSE world)

Chained ==
  phase = "tx" =>
    /\ Replays(txBase, tx_output, StateAfter(0))
    /\ \A j \in 1..Len(snapshots) :
         Replays(snapshots[j].state, frame_stack[j].events, StateAfter(j))

BufferInvariant == TypeOK /\ NeverFails /\ Aligned /\ Settled /\ Chained

=============================================================================
