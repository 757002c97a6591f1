-------------------------------- MODULE Host --------------------------------
(***************************************************************************)
(* The node that runs the tracer: go-ethereum executes blocks (Evm) and    *)
(* calls the tracer's hooks (Tracer) synchronously as it goes.  External,  *)
(* modelled from what the repository relies on:                            *)
(*  - the receipt of a transaction is failed exactly when its root frame   *)
(*    reverted (EMES-V1 invariant T1); a transaction that never opened a   *)
(*    frame ends either way;                                               *)
(*  - SELFDESTRUCT has no hook: it clears the code of the executing        *)
(*    account with one reason code and credits the beneficiary with        *)
(*    another (docs/emes_profile.md, section 5.2).  Since EIP-6780 the     *)
(*    first may be missing, and nothing in the repository fixes their      *)
(*    order, so here each comes whenever it likes inside a frame.          *)
(***************************************************************************)
EXTENDS Evm, Tracer, FiniteSets

CONSTANTS
  Cleared,   \* the value of an account's code cell when it has none
  MaxBlocks  \* blocks the node processes

ASSUME HostAssumption ==
  /\ Cleared \in Value
  /\ MaxBlocks \in Nat \ {0}

VARIABLES
  blocks,        \* blocks started
  rootReverted,  \* how the root frame of the open transaction ended
  txLog,         \* history: the states around each finished transaction
  clears,        \* history: sequence numbers of code changes by SELFDESTRUCT
  credits        \* history: sequence numbers of balance changes by SELFDESTRUCT

hostVars == <<evmVars, tracerVars, blocks, rootReverted, txLog, clears, credits>>

HostInit ==
  /\ EvmInit
  /\ TracerInit
  /\ blocks = 0
  /\ rootReverted = FALSE
  /\ txLog = << >>
  /\ clears = {}
  /\ credits = {}

-----------------------------------------------------------------------------

StartBlock ==
  /\ EvmBlockStart
  /\ OnBlockStart(blocks + 1)
  /\ blocks' = blocks + 1
  /\ txLog' = << >>
  /\ clears' = {}
  /\ credits' = {}
  /\ UNCHANGED rootReverted

StartTx ==
  /\ EvmTxStart
  /\ OnTxStart(txs + 1)
  /\ rootReverted' = FALSE
  /\ UNCHANGED <<blocks, txLog, clears, credits>>

EnterFrame ==
  /\ EvmFrameEnter
  /\ OnEnter(Len(snapshots))
  /\ UNCHANGED <<blocks, rootReverted, txLog, clears, credits>>

ExitFrame(reverted) ==
  /\ EvmFrameExit(reverted)
  /\ OnExit(reverted)
  /\ rootReverted' = IF Len(snapshots) = 1 THEN reverted ELSE rootReverted
  /\ UNCHANGED <<blocks, txLog, clears, credits>>

\* A state change with an ordinary reason.
ChangeState(k, v) ==
  /\ EvmWrite(k, v)
  /\ \/ k.kind = "Balance" /\ OnBalanceChange(k.address, world[k], v, FALSE)
     \/ k.kind = "Nonce" /\ OnNonceChangeV2(k.address, world[k], v)
     \/ k.kind = "Code" /\ OnCodeChangeV2(k.address, world[k], v, FALSE)
     \/ k.kind = "Storage" /\ OnStorageChange(k.address, k.slot, world[k], v)
  /\ UNCHANGED <<blocks, rootReverted, txLog, clears, credits>>

\* SELFDESTRUCT clears the code of the account a.
ClearCode(a) ==
  LET k == [kind |-> "Code", address |-> a, slot |-> NoSlot] IN
  /\ snapshots # << >>
  /\ EvmWrite(k, Cleared)
  /\ OnCodeChangeV2(a, world[k], Cleared, TRUE)
  /\ clears' = clears \cup {globalSequence}
  /\ UNCHANGED <<blocks, rootReverted, txLog, credits>>

\* SELFDESTRUCT credits the beneficiary a.
CreditBeneficiary(a, v) ==
  LET k == [kind |-> "Balance", address |-> a, slot |-> NoSlot] IN
  /\ snapshots # << >>
  /\ EvmWrite(k, v)
  /\ OnBalanceChange(a, world[k], v, TRUE)
  /\ credits' = credits \cup {globalSequence}
  /\ UNCHANGED <<blocks, rootReverted, txLog, clears>>

EndTx(failed) ==
  /\ EvmTxEnd
  /\ nextFrame > 0 => failed = rootReverted
  /\ OnTxEnd(failed)
  /\ txLog' = Append(txLog, [before |-> txBase, after |-> world])
  /\ UNCHANGED <<blocks, rootReverted, clears, credits>>

EndBlock ==
  /\ EvmBlockEnd
  /\ OnBlockEnd
  /\ UNCHANGED <<blocks, rootReverted, txLog, clears, credits>>

\* The node turns to the next block; the tracer sees nothing of it yet.
NextBlock ==
  /\ phase = "end"
  /\ blocks < MaxBlocks
  /\ phase' = "start"
  /\ txs' = 0
  /\ mutations' = 0
  /\ blockBase' = world
  /\ UNCHANGED <<world, snapshots, nextFrame, txBase, tracerVars, blocks, rootReverted,
                 txLog, clears, credits>>

\* A panic of the tracer takes the node down; so does running out of blocks.
Stopped ==
  /\ panicked \/ (phase = "end" /\ blocks = MaxBlocks)
  /\ UNCHANGED hostVars

HostStep ==
  \/ StartBlock
  \/ StartTx
  \/ EnterFrame
  \/ \E reverted \in BOOLEAN : ExitFrame(reverted)
  \/ \E k \in Key, v \in Value : ChangeState(k, v)
  \/ \E a \in Address : ClearCode(a)
  \/ \E a \in Address, v \in Value : CreditBeneficiary(a, v)
  \/ \E failed \in BOOLEAN : EndTx(failed)
  \/ EndBlock
  \/ NextBlock

HostSpec == HostInit /\ [][HostStep \/ Stopped]_hostVars

-----------------------------------------------------------------------------
(***************************************************************************)
(* Properties                                                              *)
(***************************************************************************)

HostTypeOK ==
  /\ EvmTypeOK
  /\ globalSequence \in U64
  /\ nextFrameID \in U64
  /\ frameStack \in Seq(0..U32_MAX)
  /\ events \in Seq(EmesEvent)
  /\ \A f \in DOMAIN pendingSelfDestruct : f \in U64 /\ pendingSelfDestruct[f] \in Address
  /\ panicked \in BOOLEAN
  /\ blocks \in Nat
  /\ clears \cup credits \subseteq U64

\* The numbers of one stream increase strictly, also when the counter is at
\* its limit: emit panics rather than let a wrapped number into the stream.
SequencesIncrease ==
  \A i, j \in DOMAIN events : i < j => events[i].sequence < events[j].sequence

\* What the EMES-V1 profile says of the counter: it starts at 0 in every block.
CountsFromZero == events # << >> => events[1].sequence = 0

\* Events q and p of the stream s stand in one frame of one transaction.
SameFrame(s, q, p) ==
  /\ s[q].frameID = s[p].frameID
  /\ \A m \in q..p : s[m].type # "TransactionStart"

\* The code changes that the balance change p may announce: those by a
\* SELFDESTRUCT (with a number in cleared) in its frame that no SelfDestruct
\* event has followed.
Announceable(s, cleared, p) ==
  {q \in 1..p-1 : /\ s[q].sequence \in cleared
                  /\ SameFrame(s, q, p)
                  /\ ~\E m \in q..p : /\ s[m].type = "SelfDestruct"
                                      /\ s[m].frameID = s[p].frameID}

\* Event p of s is no SelfDestruct event without a credit, and no credit (a
\* number in credited) whose announcement is missing, unfounded or wrong.
PairedAt(s, cleared, credited, p) ==
  LET announced == p < Len(s) /\ s[p+1].type = "SelfDestruct"
      offered   == Announceable(s, cleared, p)
  IN  /\ s[p].type = "SelfDestruct" => p > 1 /\ s[p-1].sequence \in credited
      /\ s[p].sequence \in credited =>
           /\ announced <=> offered # {}
           /\ announced =>
                LET last == CHOOSE q \in offered : \A r \in offered : r <= q
                IN  s[p+1].address = s[last].key.address

\* The tracer announces a self-destruction exactly when, in one frame of one
\* transaction, code was cleared and then a beneficiary credited: never with
\* the account of another frame or an earlier transaction although frame ids
\* start at 0 again, never twice, and always with the account whose code went
\* (OnBalanceChange, OnCodeChangeV2 and OnTxEnd share pendingSelfDestruct).
DestructsPaired ==
  ~panicked => \A p \in DOMAIN events : PairedAt(events, clears, credits, p)

\* The tracer's stack is the EVM's whatever the outcomes of the frames, so that
\* every event is tagged with the frame that is really executing.
StackMirrored ==
  ~panicked => frameStack = [j \in DOMAIN snapshots |-> snapshots[j].id]

-----------------------------------------------------------------------------
(***************************************************************************)
(* The inductive invariant.  To stay aligned the stacks need the two       *)
(* counters that ids come from to be equal, which 32-bit ids keep from     *)
(* wrapping; to increase, numbers must be below the counter that the next  *)
(* one comes from.                                                         *)
(***************************************************************************)

StacksAligned ==
  /\ nextFrameID = nextFrame
  /\ Len(frameStack) = Len(snapshots)
  /\ \A j \in 1..Len(snapshots) : frameStack[j] = snapshots[j].id

NumbersUsed ==
  ~panicked => \A i \in DOMAIN events : events[i].sequence < globalSequence

\* The tracer keeps step with the execution in its stack and its counters, from
\* hook to hook and also in the hook that panics (kaysentinel_tracer.go, emit
\* and every hook).
HostInvariant ==
  /\ HostTypeOK
  /\ StacksAligned
  /\ SequencesIncrease
  /\ NumbersUsed

=============================================================================
