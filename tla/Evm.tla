-------------------------------- MODULE Evm ---------------------------------
(***************************************************************************)
(* The execution that the pipeline observes.  go-ethereum is not in the    *)
(* repository; it is modelled from what the code relies on: the EVM takes  *)
(* a snapshot of the state when a call frame opens and restores it when    *)
(* the frame reverts (which fires no hook), a transaction has at most one  *)
(* root frame, gas and nonce bookkeeping writes outside any frame and      *)
(* storage is written only inside one                                      *)
(* (docs/emes/004-bridge-buffering-spec.md, section 3).  A frameless write *)
(* is never undone here: the one case where it is, EIP-7702 authorizations *)
(* rolled back without a hook when a later one runs out of gas, is outside *)
(* the model (the same document, EIP-7702 / Amsterdam Scope Boundary).     *)
(* The module that composes it says what each step emits.                  *)
(***************************************************************************)
EXTENDS Emes

CONSTANTS
  MaxFrames,   \* call frames per transaction
  MaxTx,       \* transactions per block
  MaxMutations \* mutations per block

ASSUME BoundAssumption ==
  /\ MaxFrames \in Nat
  /\ MaxFrames <= U32_MAX + 1
  /\ MaxTx \in Nat
  /\ MaxMutations \in Nat

VARIABLES
  world,      \* the state, as the EVM sees it now
  snapshots,  \* per open frame: its ordinal in the transaction, the state at entry
  nextFrame,  \* frames opened so far in this transaction
  phase,      \* "start", "block", "tx" or "end" of the block
  txs,        \* transactions started so far in this block
  mutations,  \* mutations so far in this block
  blockBase,  \* history: the state at the start of the block
  txBase      \* history: the state at the start of the open transaction

evmVars == <<world, snapshots, nextFrame, phase, txs, mutations, blockBase, txBase>>

Snapshot == [id : 0..U32_MAX, state : World]

EvmTypeOK ==
  /\ world \in World
  /\ snapshots \in Seq(Snapshot)
  /\ nextFrame \in 0..MaxFrames
  /\ phase \in {"start", "block", "tx", "end"}
  /\ txs \in 0..MaxTx
  /\ mutations \in 0..MaxMutations
  /\ blockBase \in World
  /\ txBase \in World

EvmInit ==
  /\ world \in World
  /\ snapshots = << >>
  /\ nextFrame = 0
  /\ phase = "start"
  /\ txs = 0
  /\ mutations = 0
  /\ blockBase = world
  /\ txBase = world

CurrentFrame == IF snapshots = << >> THEN NO_FRAME ELSE snapshots[Len(snapshots)].id

-----------------------------------------------------------------------------

EvmBlockStart ==
  /\ phase = "start"
  /\ phase' = "block"
  /\ UNCHANGED <<world, snapshots, nextFrame, txs, mutations, blockBase, txBase>>

EvmTxStart ==
  /\ phase = "block"
  /\ txs < MaxTx
  /\ phase' = "tx"
  /\ txs' = txs + 1
  /\ txBase' = world
  /\ nextFrame' = 0
  /\ snapshots' = << >>
  /\ UNCHANGED <<world, mutations, blockBase>>

EvmFrameEnter ==
  /\ phase = "tx"
  /\ nextFrame < MaxFrames
  /\ snapshots = << >> => nextFrame = 0
  /\ snapshots' = Append(snapshots, [id |-> nextFrame, state |-> world])
  /\ nextFrame' = nextFrame + 1
  /\ UNCHANGED <<world, phase, txs, mutations, blockBase, txBase>>

EvmFrameExit(reverted) ==
  /\ phase = "tx"
  /\ snapshots # << >>
  /\ world' = IF reverted THEN snapshots[Len(snapshots)].state ELSE world
  /\ snapshots' = SubSeq(snapshots, 1, Len(snapshots) - 1)
  /\ UNCHANGED <<nextFrame, phase, txs, mutations, blockBase, txBase>>

EvmWrite(k, v) ==
  /\ phase = "tx"
  /\ k.kind = "Storage" => snapshots # << >>
  /\ world[k] # v
  /\ mutations < MaxMutations
  /\ mutations' = mutations + 1
  /\ world' = [world EXCEPT ![k] = v]
  /\ UNCHANGED <<snapshots, nextFrame, phase, txs, blockBase, txBase>>

\* What else a frame may report; it counts as a mutation.
EvmSelfDestruct ==
  /\ phase = "tx"
  /\ snapshots # << >>
  /\ mutations < MaxMutations
  /\ mutations' = mutations + 1
  /\ UNCHANGED <<world, snapshots, nextFrame, phase, txs, blockBase, txBase>>

EvmTxEnd ==
  /\ phase = "tx"
  /\ snapshots = << >>
  /\ phase' = "block"
  /\ UNCHANGED <<world, snapshots, nextFrame, txs, mutations, blockBase, txBase>>

EvmBlockEnd ==
  /\ phase = "block"
  /\ phase' = "end"
  /\ UNCHANGED <<world, snapshots, nextFrame, txs, mutations, blockBase, txBase>>

=============================================================================
