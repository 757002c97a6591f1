-------------------------------- MODULE Emes --------------------------------
(***************************************************************************)
(* The vocabulary of the pipeline: the EMES-V1 events that the tracer      *)
(* emits and Gate 1 and the bridge read (emes/types.go,                    *)
(* runtime/bridge/src/wire.rs), and the canonical keys that both sides     *)
(* address state by (runtime/builder/src/ir/timeline.rs).                  *)
(*                                                                         *)
(* The four mutation events of the source (Balance, Nonce, Code, Storage)  *)
(* differ only in the kind of state cell they name, so they are one event  *)
(* type, "Mutation", whose key carries the kind.                           *)
(***************************************************************************)
EXTENDS Naturals, Sequences

CONSTANTS
  Address,   \* account addresses
  Slot,      \* storage slots
  Value,     \* contents of a state cell: balance, nonce, code hash or word
  NoSlot,    \* slot of a key that is not a storage key
  U64_MAX,   \* the largest uint64, which is also the "no frame" sentinel
  U32_MAX    \* the largest u32, the width of frame ids in the CSE context

ASSUME WidthAssumption ==
  /\ U64_MAX \in Nat
  /\ U32_MAX \in Nat
  /\ U32_MAX < U64_MAX

\* tracer.noParentFrame, wire::NO_FRAME and Gate 1's ^uint64(0).
NO_FRAME == U64_MAX

Key ==
  [kind : {"Balance", "Nonce", "Code"}, address : Address, slot : {NoSlot}]
    \cup [kind : {"Storage"}, address : Address, slot : Slot]

\* The contents of every cell: what the EVM calls the state.
World == [Key -> Value]

-----------------------------------------------------------------------------
(***************************************************************************)
(* One constructor per event type.  A fresh event carries sequence 0, the  *)
(* zero value of the Go struct, until emit stamps it.                      *)
(***************************************************************************)

BlockStartEvent(number) ==
  [type |-> "BlockStart", sequence |-> 0, number |-> number]

BlockCommitEvent == [type |-> "BlockCommit", sequence |-> 0]

TransactionStartEvent(hash, txIndex) ==
  [type |-> "TransactionStart", sequence |-> 0, hash |-> hash, txIndex |-> txIndex]

TransactionEndEvent(reverted) ==
  [type |-> "TransactionEnd", sequence |-> 0, reverted |-> reverted]

FrameEnterEvent(frameID, parentFrameID, depth) ==
  [type |-> "FrameEnter", sequence |-> 0,
   frameID |-> frameID, parentFrameID |-> parentFrameID, depth |-> depth]

FrameExitEvent(frameID, reverted) ==
  [type |-> "FrameExit", sequence |-> 0, frameID |-> frameID, reverted |-> reverted]

MutationEvent(frameID, key, before, after) ==
  [type |-> "Mutation", sequence |-> 0,
   frameID |-> frameID, key |-> key, before |-> before, after |-> after]

AccountCreatedEvent(frameID, address) ==
  [type |-> "AccountCreated", sequence |-> 0, frameID |-> frameID, address |-> address]

SelfDestructEvent(frameID, address) ==
  [type |-> "SelfDestruct", sequence |-> 0, frameID |-> frameID, address |-> address]

SetSequence(event, sequence) == [event EXCEPT !.sequence = sequence]

U64 == 0..U64_MAX

EmesEvent ==
  [type : {"BlockStart"}, sequence : U64, number : Nat]
    \cup [type : {"BlockCommit"}, sequence : U64]
    \cup [type : {"TransactionStart"}, sequence : U64, hash : Nat, txIndex : Nat]
    \cup [type : {"TransactionEnd"}, sequence : U64, reverted : BOOLEAN]
    \cup [type : {"FrameEnter"}, sequence : U64, frameID : U64, parentFrameID : U64,
          depth : Nat]
    \cup [type : {"FrameExit"}, sequence : U64, frameID : U64, reverted : BOOLEAN]
    \cup [type : {"Mutation"}, sequence : U64, frameID : U64, key : Key, before : Value,
          after : Value]
    \cup [type : {"AccountCreated", "SelfDestruct"}, sequence : U64, frameID : U64,
          address : Address]

=============================================================================
