--------------------------- MODULE PipelineProofs ---------------------------
(***************************************************************************)
(* The representation that a block is reduced to is the net effect of its  *)
(* transactions, and accounts for every event that survived, whatever the  *)
(* node executes: for every number of transactions, frames and writes, and *)
(* every set of accounts, slots and values.                                *)
(*                                                                         *)
(* The argument follows the block through the stages.  The stream that the *)
(* tracer leaves explains the execution: there is a sequence of views of   *)
(* the state, one between any two events, of which each event is a step    *)
(* and the last is the state of now.  What the bridge has kept after any   *)
(* number of events replays to the view at that place; so the stretch that *)
(* it delivers for a transaction replays to what the transaction did.  The *)
(* builder's buckets hold those stretches, event by event.                 *)
(***************************************************************************)
EXTENDS Pipeline, StreamFacts

(***************************************************************************)
(* I.  The tracer under the node keeps step with the execution.            *)
(***************************************************************************)

-----------------------------------------------------------------------------
(***************************************************************************)
(* What emit does to a stream of increasing numbers.                       *)
(***************************************************************************)

Increasing(q) == \A i, j \in DOMAIN q : i < j => q[i].sequence < q[j].sequence

Below(q, n) == \A i \in DOMAIN q : q[i].sequence < n

\* What emit leaves: a stream of typed events with increasing numbers, all of
\* them used.
Emitted ==
  /\ events \in Seq(EmesEvent)
  /\ globalSequence \in U64
  /\ panicked \in BOOLEAN
  /\ SequencesIncrease
  /\ NumbersUsed

\* Numbers increase through any number of emits, the one that panics included.
LEMMA EmitIncreases ==
  ASSUME NEW STATE q, q \in Seq(EmesEvent), NEW STATE log, NEW STATE frame,
         NEW STATE es, es \in Seq(EmesEvent),
         globalSequence \in U64, Increasing(q), Below(q, globalSequence),
         EmitAfter(q, log, frame, es)
  PROVE  Emitted'
<1> DEFINE g == globalSequence
           room == U64_MAX - g
           count == IF Len(es) <= room THEN Len(es) ELSE room
           new == [j \in 1..count |-> SetSequence(es[j], g + j - 1)]
<1>1. /\ events' = q \o new
      /\ panicked' = (Len(es) > room)
      /\ globalSequence' = IF Len(es) > room THEN 0 ELSE g + Len(es)
  BY DEF EmitAfter
<1>2. /\ g \in Nat /\ U64_MAX \in Nat /\ room \in Nat /\ count \in Nat /\ Len(es) \in Nat
      /\ count <= room /\ count <= Len(es)
      /\ Len(es) <= room => count = Len(es)
  BY WidthAssumption DEF U64
<1>3. \A j \in 1..count : new[j] \in EmesEvent /\ new[j].sequence = g + j - 1
  <2> TAKE j \in 1..count
  <2>1. es[j] \in EmesEvent /\ g + j - 1 \in U64
    BY <1>2 DEF U64
  <2> QED BY <2>1, Stamped
<1> HIDE DEF count
<1>4. new \in Seq(EmesEvent) /\ Len(new) = count
  BY <1>2, <1>3
<1> HIDE DEF new, room
<1>5. /\ q \o new \in Seq(EmesEvent)
      /\ Len(q) \in Nat
      /\ Len(q \o new) = Len(q) + count
      /\ \A i \in 1..Len(q) : (q \o new)[i] = q[i]
      /\ \A i \in 1..count : (q \o new)[Len(q) + i] = new[i]
  <2>1. \A r \in Seq(EmesEvent) :
          /\ q \o r \in Seq(EmesEvent)
          /\ Len(q) \in Nat
          /\ Len(q \o r) = Len(q) + Len(r)
          /\ \A i \in 1..Len(q) : (q \o r)[i] = q[i]
          /\ \A i \in 1..Len(r) : (q \o r)[Len(q) + i] = r[i]
    BY ConcatElements
  <2> QED BY <2>1, <1>4
<1>6. \A i \in 1..Len(q) : events'[i].sequence = q[i].sequence /\ q[i].sequence < g
  BY <1>1, <1>5 DEF Below
<1>7. \A i \in Len(q) + 1..Len(q) + count : events'[i].sequence = g + (i - Len(q)) - 1
  <2> TAKE i \in Len(q) + 1..Len(q) + count
  <2>1. i - Len(q) \in 1..count /\ Len(q) + (i - Len(q)) = i
    BY <1>2, <1>5
  <2> QED BY <1>1, <1>3, <1>5, <2>1
<1>8. DOMAIN events' = 1..Len(q) + count /\ DOMAIN q = 1..Len(q)
  BY <1>1, <1>5
<1>9. \A i \in DOMAIN q : q[i].sequence \in Nat
  <2>1. \A e \in EmesEvent : e.sequence \in U64
    BY DEF EmesEvent
  <2> QED BY <2>1 DEF U64
<1>10. SequencesIncrease'
  <2> SUFFICES ASSUME NEW i \in DOMAIN events', NEW j \in DOMAIN events', i < j
               PROVE  events'[i].sequence < events'[j].sequence
    BY DEF SequencesIncrease
  <2>0. i \in 1..Len(q) + count /\ j \in 1..Len(q) + count /\ i \in Nat /\ j \in Nat
    BY <1>2, <1>5, <1>8
  <2>1. CASE j \in 1..Len(q)
    <3>1. i \in 1..Len(q)
      BY <2>0, <2>1, <1>5
    <3>2. q[i].sequence < q[j].sequence
      BY <2>1, <3>1, <1>8 DEF Increasing
    <3> QED BY <2>1, <3>1, <3>2, <1>6
  <2>2. CASE j \notin 1..Len(q) /\ i \in 1..Len(q)
    <3>1. j \in Len(q) + 1..Len(q) + count
      BY <2>0, <2>2, <1>2, <1>5
    <3>2. events'[j].sequence = g + (j - Len(q)) - 1 /\ g + (j - Len(q)) - 1 >= g
      BY <2>0, <3>1, <1>2, <1>5, <1>7
    <3>3. events'[i].sequence = q[i].sequence /\ q[i].sequence < g /\ q[i].sequence \in Nat
      BY <2>2, <1>6, <1>8, <1>9
    <3> QED BY <2>0, <3>2, <3>3, <1>2, <1>5
  <2>3. CASE j \notin 1..Len(q) /\ i \notin 1..Len(q)
    <3>1. i \in Len(q) + 1..Len(q) + count /\ j \in Len(q) + 1..Len(q) + count
      BY <2>0, <2>3, <1>2, <1>5
    <3> QED BY <2>0, <3>1, <1>2, <1>5, <1>7
  <2> QED BY <2>1, <2>2, <2>3
<1>11. NumbersUsed'
  <2> SUFFICES ASSUME ~panicked', NEW i \in DOMAIN events'
               PROVE  events'[i].sequence < globalSequence'
    BY DEF NumbersUsed
  <2>1. globalSequence' = g + count
    <3>1. ~(Len(es) > room)
      BY <1>1
    <3>2. globalSequence' = g + Len(es)
      BY <3>1, <1>1, Zenon
    <3> QED BY <3>1, <3>2, <1>2
  <2>2. CASE i \in 1..Len(q)
    BY <2>1, <2>2, <1>2, <1>6, <1>8, <1>9
  <2>3. CASE i \notin 1..Len(q)
    BY <2>1, <2>3, <1>2, <1>5, <1>7, <1>8
  <2> QED BY <2>2, <2>3
<1>12. globalSequence' \in U64 /\ panicked' \in BOOLEAN
  BY <1>1, <1>2 DEF U64, room
<1> QED BY <1>1, <1>5, <1>10, <1>11, <1>12 DEF Emitted

\* Every hook that has not panicked emits after the whole stream, or after none
\* of it.
LEMMA HookEmits ==
  ASSUME HostInvariant, ~panicked, NEW STATE q, q = events \/ q = << >>,
         NEW STATE log, NEW STATE frame, NEW STATE es, es \in Seq(EmesEvent),
         EmitAfter(q, log, frame, es)
  PROVE  Emitted'
<1>1. globalSequence \in U64 /\ events \in Seq(EmesEvent)
  BY DEF HostInvariant, HostTypeOK
<1>2. CASE q = events
  BY <1>1, <1>2, EmitIncreases
     DEF HostInvariant, SequencesIncrease, NumbersUsed, Increasing, Below
<1>3. CASE q = << >>
  <2>1. q \in Seq(EmesEvent) /\ Increasing(q) /\ Below(q, globalSequence)
    BY <1>3 DEF Increasing, Below
  <2> QED BY <1>1, <2>1, EmitIncreases
<1> QED BY <1>2, <1>3

-----------------------------------------------------------------------------
(***************************************************************************)
(* The other parts of the invariant, one at a time.                        *)
(***************************************************************************)

StackTypes == nextFrameID \in U64 /\ frameStack \in Seq(0..U32_MAX)

PendingTypes ==
  \A f \in DOMAIN pendingSelfDestruct : f \in U64 /\ pendingSelfDestruct[f] \in Address

Counters == blocks \in Nat /\ clears \cup credits \subseteq U64

\* The parts make up the invariant.
LEMMA Parts ==
  HostInvariant <=>
    EvmTypeOK /\ Emitted /\ StackTypes /\ PendingTypes /\ Counters /\ StacksAligned
  BY DEF HostInvariant, HostTypeOK, Emitted, StackTypes, PendingTypes, Counters

\* Frame ids fit 32 bits, and the sentinel fits 64 (currentFrameID).
LEMMA CurrentTyped ==
  ASSUME HostInvariant
  PROVE  currentFrameID \in U64
<1>1. CASE frameStack = << >>
  BY <1>1, WidthAssumption DEF currentFrameID, NO_FRAME, U64
<1>2. CASE frameStack # << >>
  <2>1. frameStack[Len(frameStack)] \in 0..U32_MAX
    BY <1>2, Popped DEF HostInvariant, HostTypeOK
  <2> QED BY <1>2, <2>1, WidthAssumption DEF currentFrameID, U64
<1> QED BY <1>1, <1>2

\* A mutation is typed.
LEMMA MutationTyped ==
  ASSUME NEW STATE f, f \in U64, NEW STATE k, k \in Key, NEW STATE v, v \in Value,
         NEW STATE w, w \in Value
  PROVE  MutationEvent(f, k, v, w) \in EmesEvent
<1>1. 0 \in U64
  BY WidthAssumption DEF U64
<1> QED BY <1>1 DEF MutationEvent, EmesEvent

\* Hooks that open and close no frame leave the stacks as they were.
LEMMA StackKept ==
  ASSUME HostInvariant, UNCHANGED <<frameStack, nextFrameID, snapshots, nextFrame>>
  PROVE  StackTypes' /\ StacksAligned'
  BY DEF HostInvariant, HostTypeOK, StackTypes, StacksAligned

-----------------------------------------------------------------------------
(***************************************************************************)
(* Each step preserves the invariant.                                      *)
(***************************************************************************)

\* Before the first hook everything is empty.
LEMMA HostInitially == HostInit => HostInvariant
<1> SUFFICES ASSUME HostInit PROVE HostInvariant
  OBVIOUS
<1> USE DEF HostInit, EvmInit, TracerInit
<1>1. EvmTypeOK
  BY BoundAssumption DEF EvmTypeOK
<1>2. 0 \in U64
  BY WidthAssumption DEF U64
<1>3. Emitted
  <2>1. events \in Seq(EmesEvent) /\ DOMAIN events = {}
    OBVIOUS
  <2>2. SequencesIncrease /\ NumbersUsed
    BY <2>1 DEF SequencesIncrease, NumbersUsed
  <2>3. globalSequence \in U64 /\ panicked \in BOOLEAN
    BY <1>2
  <2> QED BY <2>1, <2>2, <2>3 DEF Emitted
<1>4. StackTypes /\ PendingTypes /\ Counters
  BY <1>2 DEF StackTypes, PendingTypes, Counters
<1>5. StacksAligned
  BY DEF StacksAligned
<1> QED BY <1>1, <1>3, <1>4, <1>5, Parts

\* A block starts: the stream and the log are emptied, the counter goes on.
LEMMA StartBlockKeeps ==
  ASSUME HostInvariant, StartBlock
  PROVE  HostInvariant'
<1>1. blocks + 1 \in Nat
  BY DEF HostInvariant, HostTypeOK
<1>2. BlockStartEvent(blocks + 1) \in EmesEvent
  BY <1>1, WidthAssumption DEF BlockStartEvent, EmesEvent, U64
<1>3. Emitted'
  <2>1. <<BlockStartEvent(blocks + 1)>> \in Seq(EmesEvent)
    BY <1>2
  <2> QED BY <2>1, HookEmits DEF StartBlock, OnBlockStart
<1>4. EvmTypeOK'
  BY DEF HostInvariant, HostTypeOK, EvmTypeOK, StartBlock, EvmBlockStart
<1>5. StackTypes' /\ StacksAligned'
  BY StackKept DEF StartBlock, EvmBlockStart, OnBlockStart
<1>6. PendingTypes' /\ Counters'
  BY <1>1 DEF HostInvariant, HostTypeOK, PendingTypes, Counters, StartBlock, OnBlockStart
<1> QED BY <1>3, <1>4, <1>5, <1>6
        DEF HostInvariant, HostTypeOK, Emitted, StackTypes, PendingTypes, Counters

\* A transaction starts: frame ids start at 0 again on both sides.
LEMMA StartTxKeeps ==
  ASSUME HostInvariant, StartTx
  PROVE  HostInvariant'
<1>1. txs + 1 \in Nat
  BY DEF HostInvariant, HostTypeOK, EvmTypeOK
<1>2. TransactionStartEvent(txs + 1, 0) \in EmesEvent
  BY <1>1, WidthAssumption DEF TransactionStartEvent, EmesEvent, U64
<1>3. Emitted'
  <2>1. <<TransactionStartEvent(txs + 1, 0)>> \in Seq(EmesEvent)
    BY <1>2
  <2> QED BY <2>1, HookEmits DEF StartTx, OnTxStart
<1>4. EvmTypeOK'
  BY BoundAssumption DEF HostInvariant, HostTypeOK, EvmTypeOK, StartTx, EvmTxStart
<1>5. StackTypes' /\ StacksAligned'
  BY WidthAssumption DEF StartTx, EvmTxStart, OnTxStart, StackTypes, StacksAligned, U64
<1>6. PendingTypes' /\ Counters'
  BY DEF HostInvariant, HostTypeOK, PendingTypes, Counters, StartTx, OnTxStart
<1> QED BY <1>3, <1>4, <1>5, <1>6
        DEF HostInvariant, HostTypeOK, Emitted, StackTypes, PendingTypes, Counters

\* A frame is entered: both sides push the id their counter gives, which does
\* not wrap.
LEMMA EnterFrameKeeps ==
  ASSUME HostInvariant, EnterFrame
  PROVE  HostInvariant'
<1> DEFINE c == [id |-> nextFrame, state |-> world]
<1>1. /\ snapshots \in Seq(Snapshot) /\ frameStack \in Seq(0..U32_MAX)
      /\ nextFrame \in 0..MaxFrames /\ nextFrame < MaxFrames /\ world \in World
      /\ snapshots' = Append(snapshots, c) /\ nextFrame' = nextFrame + 1
      /\ UNCHANGED <<world, phase, txs, mutations, blockBase, txBase>>
      /\ frameStack' = Append(frameStack, nextFrameID)
      /\ nextFrameID' = (nextFrameID + 1) % (U64_MAX + 1)
      /\ nextFrameID = nextFrame /\ Len(frameStack) = Len(snapshots)
  BY DEF HostInvariant, HostTypeOK, EvmTypeOK, StacksAligned, EnterFrame, EvmFrameEnter,
         OnEnter
<1>2. /\ nextFrame \in 0..U32_MAX /\ nextFrame \in U64 /\ nextFrame + 1 \in U64
      /\ nextFrame + 1 \in 0..MaxFrames
      /\ (nextFrame + 1) % (U64_MAX + 1) = nextFrame + 1
  <2>1. nextFrame \in 0..U32_MAX /\ nextFrame + 1 \in 0..MaxFrames
    BY <1>1, BoundAssumption, WidthAssumption
  <2>2. nextFrame + 1 \in 0..U64_MAX
    BY <2>1, WidthAssumption
  <2> QED BY <2>1, <2>2, WidthAssumption DEF U64
<1>3. c \in Snapshot /\ c.id = nextFrame
  BY <1>1, <1>2 DEF Snapshot
<1> HIDE DEF c
<1>4. /\ snapshots' \in Seq(Snapshot)
      /\ Len(snapshots') = Len(snapshots) + 1
      /\ \A j \in 1..Len(snapshots) : snapshots'[j] = snapshots[j]
      /\ snapshots'[Len(snapshots) + 1] = c
      /\ Len(snapshots) \in Nat
  BY <1>1, <1>3, Pushed
<1>5. /\ frameStack' \in Seq(0..U32_MAX)
      /\ Len(frameStack') = Len(snapshots) + 1
      /\ \A j \in 1..Len(snapshots) : frameStack'[j] = frameStack[j]
      /\ frameStack'[Len(snapshots) + 1] = nextFrame
  BY <1>1, <1>2, Pushed
<1>6. Emitted'
  <2>1. FrameEnterEvent(nextFrameID, currentFrameID, Len(snapshots)) \in EmesEvent
    BY <1>1, <1>2, <1>4, CurrentTyped, WidthAssumption DEF FrameEnterEvent, EmesEvent, U64
  <2>2. <<FrameEnterEvent(nextFrameID, currentFrameID, Len(snapshots))>> \in Seq(EmesEvent)
    BY <2>1
  <2> QED BY <2>2, HookEmits DEF EnterFrame, OnEnter
<1>7. EvmTypeOK'
  BY <1>1, <1>2, <1>4 DEF HostInvariant, HostTypeOK, EvmTypeOK
<1>8. StackTypes'
  BY <1>1, <1>2, <1>5 DEF StackTypes
<1>9. StacksAligned'
  <2>1. \A j \in 1..Len(snapshots) : frameStack'[j] = snapshots'[j].id
    BY <1>4, <1>5 DEF HostInvariant, StacksAligned
  <2>2. \A j \in 1..Len(snapshots) + 1 : frameStack'[j] = snapshots'[j].id
    BY <2>1, <1>3, <1>4, <1>5
  <2> QED BY <2>2, <1>1, <1>2, <1>4, <1>5 DEF StacksAligned
<1>10. PendingTypes' /\ Counters'
  BY DEF HostInvariant, HostTypeOK, PendingTypes, Counters, EnterFrame, OnEnter
<1> QED BY <1>6, <1>7, <1>8, <1>9, <1>10
        DEF HostInvariant, HostTypeOK, Emitted, StackTypes, PendingTypes, Counters

\* A frame is left, and never one that is not there.
LEMMA ExitFrameKeeps ==
  ASSUME HostInvariant, NEW reverted \in BOOLEAN, ExitFrame(reverted)
  PROVE  HostInvariant'
<1>1. PICK n : n = Len(snapshots)
  OBVIOUS
<1>2. /\ snapshots \in Seq(Snapshot) /\ snapshots # << >> /\ world \in World
      /\ frameStack \in Seq(0..U32_MAX)
      /\ snapshots' = SubSeq(snapshots, 1, n - 1)
      /\ world' = IF reverted THEN snapshots[n].state ELSE world
      /\ UNCHANGED <<nextFrame, phase, txs, mutations, blockBase, txBase>>
      /\ Len(frameStack) = n
  BY <1>1 DEF HostInvariant, HostTypeOK, EvmTypeOK, StacksAligned, ExitFrame, EvmFrameExit
<1>3. /\ snapshots' \in Seq(Snapshot) /\ Len(snapshots') = n - 1
      /\ \A j \in 1..n - 1 : snapshots'[j] = snapshots[j]
      /\ snapshots[n] \in Snapshot /\ n \in Nat \ {0}
  BY <1>1, <1>2, Popped
<1>4. frameStack # << >>
  BY <1>2, <1>3
<1>5. frameStack' = SubSeq(frameStack, 1, n - 1) /\ nextFrameID' = nextFrameID
  BY <1>2, <1>4 DEF ExitFrame, OnExit
<1>6. /\ frameStack' \in Seq(0..U32_MAX) /\ Len(frameStack') = n - 1
      /\ \A j \in 1..n - 1 : frameStack'[j] = frameStack[j]
  <2>1. /\ SubSeq(frameStack, 1, Len(frameStack) - 1) \in Seq(0..U32_MAX)
        /\ Len(SubSeq(frameStack, 1, Len(frameStack) - 1)) = Len(frameStack) - 1
        /\ \A j \in 1..Len(frameStack) - 1 :
             SubSeq(frameStack, 1, Len(frameStack) - 1)[j] = frameStack[j]
    BY <1>2, <1>4, Popped
  <2>2. Len(frameStack) = n
    BY <1>2
  <2>3. frameStack' = SubSeq(frameStack, 1, Len(frameStack) - 1)
    BY <1>5, <2>2
  <2>4. PICK popped : popped = SubSeq(frameStack, 1, Len(frameStack) - 1)
    OBVIOUS
  <2>5. /\ popped \in Seq(0..U32_MAX) /\ Len(popped) = n - 1
        /\ \A j \in 1..n - 1 : popped[j] = frameStack[j]
    BY <2>1, <2>2, <2>4
  <2>6. frameStack' = popped
    BY <2>3, <2>4
  <2> QED BY <2>5, <2>6
<1>7. Emitted'
  <2>1. FrameExitEvent(currentFrameID, reverted) \in EmesEvent
    BY CurrentTyped, WidthAssumption DEF FrameExitEvent, EmesEvent, U64
  <2>2. <<FrameExitEvent(currentFrameID, reverted)>> \in Seq(EmesEvent)
    BY <2>1
  <2> QED BY <1>4, <2>2, HookEmits DEF ExitFrame, OnExit
<1>8. EvmTypeOK'
  BY <1>2, <1>3 DEF HostInvariant, HostTypeOK, EvmTypeOK, Snapshot
<1>9. StackTypes' /\ StacksAligned'
  <2>1. /\ nextFrameID \in U64 /\ nextFrameID = nextFrame
        /\ \A j \in 1..n : frameStack[j] = snapshots[j].id
    BY <1>1 DEF HostInvariant, HostTypeOK, StackTypes, StacksAligned
  <2>2. \A j \in 1..n - 1 : frameStack'[j] = snapshots'[j].id
    BY <1>3, <1>6, <2>1
  <2> QED BY <1>2, <1>3, <1>5, <1>6, <2>1, <2>2 DEF StackTypes, StacksAligned
<1>10. PendingTypes' /\ Counters'
  BY DEF HostInvariant, HostTypeOK, PendingTypes, Counters, ExitFrame, OnExit
<1> QED BY <1>7, <1>8, <1>9, <1>10
        DEF HostInvariant, HostTypeOK, Emitted, StackTypes, PendingTypes, Counters

\* A write moves the state and nothing of the stacks.
LEMMA WriteTyped ==
  ASSUME HostInvariant, NEW k \in Key, NEW v \in Value, EvmWrite(k, v)
  PROVE  EvmTypeOK' /\ world[k] \in Value /\ UNCHANGED <<snapshots, nextFrame>>
<1>1. world \in World /\ mutations \in 0..MaxMutations /\ mutations < MaxMutations
  BY DEF HostInvariant, HostTypeOK, EvmTypeOK, EvmWrite
<1>2. world' \in World /\ mutations' \in 0..MaxMutations
  BY <1>1, BoundAssumption DEF World, EvmWrite
<1> QED BY <1>1, <1>2 DEF HostInvariant, HostTypeOK, EvmTypeOK, EvmWrite, World

\* Hooks that open and close no frame keep the invariant if they keep the rest.
LEMMA HookKeeps ==
  ASSUME HostInvariant, UNCHANGED <<frameStack, nextFrameID, snapshots, nextFrame>>,
         EvmTypeOK', Emitted', PendingTypes', Counters'
  PROVE  HostInvariant'
  BY StackKept DEF HostInvariant, HostTypeOK, Emitted, StackTypes, PendingTypes, Counters

\* One mutation is emitted.
LEMMA MutationEmitted ==
  ASSUME HostInvariant, ~panicked, NEW STATE k, k \in Key, NEW STATE prev, prev \in Value,
         NEW STATE new, new \in Value, emit(<<MutationEvent(currentFrameID, k, prev, new)>>)
  PROVE  Emitted'
<1>1. MutationEvent(currentFrameID, k, prev, new) \in EmesEvent
  BY CurrentTyped, MutationTyped
<1>2. <<MutationEvent(currentFrameID, k, prev, new)>> \in Seq(EmesEvent)
  BY <1>1
<1> QED BY <1>2, HookEmits DEF emit

\* A balance change, with the announcement that is pending or without.
LEMMA BalanceHook ==
  ASSUME HostInvariant, NEW a \in Address, NEW STATE prev, prev \in Value,
         NEW new \in Value, NEW selfdestruct \in BOOLEAN,
         OnBalanceChange(a, prev, new, selfdestruct)
  PROVE  Emitted' /\ PendingTypes' /\ UNCHANGED <<frameStack, nextFrameID>>
<1> DEFINE k == [kind |-> "Balance", address |-> a, slot |-> NoSlot]
           m == MutationEvent(currentFrameID, k, prev, new)
           d == SelfDestructEvent(currentFrameID, pendingSelfDestruct[currentFrameID])
<1>1. k \in Key
  BY DEF Key
<1> HIDE DEF k
<1>2. PendingTypes
  BY DEF HostInvariant, HostTypeOK, PendingTypes
<1>3. CASE /\ currentFrameID \in DOMAIN pendingSelfDestruct
           /\ emit(<<m, d>>)
           /\ pendingSelfDestruct' = IF panicked' THEN pendingSelfDestruct
                                     ELSE Without(pendingSelfDestruct, currentFrameID)
  <2>1. m \in EmesEvent
    BY <1>1, CurrentTyped, MutationTyped
  <2>2. d \in EmesEvent
    BY <1>2, <1>3, CurrentTyped, WidthAssumption
       DEF PendingTypes, SelfDestructEvent, EmesEvent, U64
  <2> HIDE DEF m, d
  <2>3. <<m, d>> \in Seq(EmesEvent)
    BY <2>1, <2>2
  <2>4. Emitted'
    BY <1>3, <2>3, HookEmits DEF OnBalanceChange, emit
  <2>5. PendingTypes'
    BY <1>2, <1>3 DEF PendingTypes, Without
  <2> QED BY <2>4, <2>5 DEF OnBalanceChange
<1>4. CASE emit(<<m>>) /\ UNCHANGED pendingSelfDestruct
  <2>1. Emitted'
    BY <1>1, <1>4, MutationEmitted DEF OnBalanceChange
  <2>2. PendingTypes'
    BY <1>2, <1>4 DEF PendingTypes
  <2> QED BY <2>1, <2>2 DEF OnBalanceChange
<1> QED BY <1>3, <1>4 DEF OnBalanceChange, k

\* A code change, after which an announcement may be pending.
LEMMA CodeHook ==
  ASSUME HostInvariant, NEW a \in Address, NEW STATE prev, prev \in Value,
         NEW new \in Value, NEW selfdestruct \in BOOLEAN,
         OnCodeChangeV2(a, prev, new, selfdestruct)
  PROVE  Emitted' /\ PendingTypes' /\ UNCHANGED <<frameStack, nextFrameID>>
<1> DEFINE k == [kind |-> "Code", address |-> a, slot |-> NoSlot]
<1>1. k \in Key
  BY DEF Key
<1>2. Emitted'
  BY <1>1, MutationEmitted DEF OnCodeChangeV2
<1>3. PendingTypes
  BY DEF HostInvariant, HostTypeOK, PendingTypes
<1>4. PendingTypes'
  BY <1>3, CurrentTyped DEF PendingTypes, OnCodeChangeV2
<1> QED BY <1>2, <1>4 DEF OnCodeChangeV2

\* A nonce or a storage word changes.
LEMMA PlainHook ==
  ASSUME HostInvariant, NEW k \in Key, NEW STATE prev, prev \in Value, NEW new \in Value,
         \/ k.kind = "Nonce" /\ OnNonceChangeV2(k.address, prev, new)
         \/ k.kind = "Storage" /\ OnStorageChange(k.address, k.slot, prev, new)
  PROVE  Emitted' /\ PendingTypes' /\ UNCHANGED <<frameStack, nextFrameID>>
<1>1. CASE k.kind = "Nonce" /\ OnNonceChangeV2(k.address, prev, new)
  <2>1. [kind |-> "Nonce", address |-> k.address, slot |-> NoSlot] \in Key
    BY <1>1 DEF Key
  <2>2. Emitted'
    BY <1>1, <2>1, MutationEmitted DEF OnNonceChangeV2
  <2> QED BY <1>1, <2>2 DEF OnNonceChangeV2, HostInvariant, HostTypeOK, PendingTypes
<1>2. CASE k.kind = "Storage" /\ OnStorageChange(k.address, k.slot, prev, new)
  <2>1. [kind |-> "Storage", address |-> k.address, slot |-> k.slot] \in Key
    BY <1>2 DEF Key
  <2>2. Emitted'
    BY <1>2, <2>1, MutationEmitted DEF OnStorageChange
  <2> QED BY <1>2, <2>2 DEF OnStorageChange, HostInvariant, HostTypeOK, PendingTypes
<1> QED BY <1>1, <1>2

\* The state changes for an ordinary reason.
LEMMA ChangeStateKeeps ==
  ASSUME HostInvariant, NEW k \in Key, NEW v \in Value, ChangeState(k, v)
  PROVE  HostInvariant'
<1>1. EvmTypeOK' /\ world[k] \in Value /\ UNCHANGED <<snapshots, nextFrame>>
  BY WriteTyped DEF ChangeState
<1>2. k.address \in Address
  BY DEF Key
<1>3. Emitted' /\ PendingTypes' /\ UNCHANGED <<frameStack, nextFrameID>>
  <2>1. CASE k.kind = "Balance" /\ OnBalanceChange(k.address, world[k], v, FALSE)
    BY <1>1, <1>2, <2>1, BalanceHook
  <2>2. CASE k.kind = "Code" /\ OnCodeChangeV2(k.address, world[k], v, FALSE)
    BY <1>1, <1>2, <2>2, CodeHook
  <2>3. CASE \/ k.kind = "Nonce" /\ OnNonceChangeV2(k.address, world[k], v)
             \/ k.kind = "Storage" /\ OnStorageChange(k.address, k.slot, world[k], v)
    BY <1>1, <2>3, PlainHook
  <2> QED BY <2>1, <2>2, <2>3 DEF ChangeState
<1>4. Counters'
  BY DEF HostInvariant, HostTypeOK, Counters, ChangeState
<1> QED BY <1>1, <1>3, <1>4, HookKeeps

\* The first half of a SELFDESTRUCT.
LEMMA ClearCodeKeeps ==
  ASSUME HostInvariant, NEW a \in Address, ClearCode(a)
  PROVE  HostInvariant'
<1> DEFINE k == [kind |-> "Code", address |-> a, slot |-> NoSlot]
<1>1. k \in Key
  BY DEF Key
<1>2. EvmTypeOK' /\ world[k] \in Value /\ UNCHANGED <<snapshots, nextFrame>>
  BY <1>1, WriteTyped, HostAssumption DEF ClearCode
<1>3. Emitted' /\ PendingTypes' /\ UNCHANGED <<frameStack, nextFrameID>>
  BY <1>2, CodeHook, HostAssumption DEF ClearCode
<1>4. Counters'
  BY DEF HostInvariant, HostTypeOK, Counters, ClearCode
<1> QED BY <1>2, <1>3, <1>4, HookKeeps

\* The second half of a SELFDESTRUCT.
LEMMA CreditBeneficiaryKeeps ==
  ASSUME HostInvariant, NEW a \in Address, NEW v \in Value, CreditBeneficiary(a, v)
  PROVE  HostInvariant'
<1> DEFINE k == [kind |-> "Balance", address |-> a, slot |-> NoSlot]
<1>1. k \in Key
  BY DEF Key
<1>2. EvmTypeOK' /\ world[k] \in Value /\ UNCHANGED <<snapshots, nextFrame>>
  BY <1>1, WriteTyped DEF CreditBeneficiary
<1>3. Emitted' /\ PendingTypes' /\ UNCHANGED <<frameStack, nextFrameID>>
  BY <1>2, BalanceHook DEF CreditBeneficiary
<1>4. Counters'
  BY DEF HostInvariant, HostTypeOK, Counters, CreditBeneficiary
<1> QED BY <1>2, <1>3, <1>4, HookKeeps

\* The stack is empty on both sides when a transaction ends, so that a panic of
\* emit in this hook leaves nothing behind.
LEMMA EndTxKeeps ==
  ASSUME HostInvariant, NEW failed \in BOOLEAN, EndTx(failed)
  PROVE  HostInvariant'
<1>1. frameStack = << >> /\ snapshots = << >>
  BY DEF HostInvariant, HostTypeOK, EvmTypeOK, StacksAligned, EndTx, EvmTxEnd
<1>2. Emitted'
  <2>1. TransactionEndEvent(failed) \in EmesEvent
    BY WidthAssumption DEF TransactionEndEvent, EmesEvent, U64
  <2>2. <<TransactionEndEvent(failed)>> \in Seq(EmesEvent)
    BY <2>1
  <2> QED BY <2>2, HookEmits DEF EndTx, OnTxEnd
<1>3. EvmTypeOK' /\ UNCHANGED <<snapshots, nextFrame>>
  BY DEF HostInvariant, HostTypeOK, EvmTypeOK, EndTx, EvmTxEnd
<1>4. UNCHANGED <<frameStack, nextFrameID>>
  BY <1>1 DEF EndTx, OnTxEnd
<1>5. PendingTypes' /\ Counters'
  BY DEF HostInvariant, HostTypeOK, PendingTypes, Counters, EndTx, OnTxEnd
<1> QED BY <1>2, <1>3, <1>4, <1>5, HookKeeps

\* A block ends.
LEMMA EndBlockKeeps ==
  ASSUME HostInvariant, EndBlock
  PROVE  HostInvariant'
<1>1. BlockCommitEvent \in EmesEvent
  BY WidthAssumption DEF BlockCommitEvent, EmesEvent, U64
<1>2. Emitted'
  <2>1. <<BlockCommitEvent>> \in Seq(EmesEvent)
    BY <1>1
  <2> QED BY <2>1, HookEmits DEF EndBlock, OnBlockEnd, emit
<1>3. EvmTypeOK' /\ UNCHANGED <<snapshots, nextFrame>>
  BY DEF HostInvariant, HostTypeOK, EvmTypeOK, EndBlock, EvmBlockEnd
<1>4. /\ UNCHANGED <<frameStack, nextFrameID>>
      /\ PendingTypes' /\ Counters'
  BY DEF HostInvariant, HostTypeOK, PendingTypes, Counters, EndBlock, OnBlockEnd
<1> QED BY <1>2, <1>3, <1>4, HookKeeps

\* The node turns to the next block.
LEMMA NextBlockKeeps ==
  ASSUME HostInvariant, NextBlock
  PROVE  HostInvariant'
<1>1. EvmTypeOK' /\ UNCHANGED <<snapshots, nextFrame>>
  BY BoundAssumption DEF HostInvariant, HostTypeOK, EvmTypeOK, NextBlock
<1>2. Emitted' /\ PendingTypes' /\ Counters' /\ UNCHANGED <<frameStack, nextFrameID>>
  BY DEF HostInvariant, HostTypeOK, Emitted, SequencesIncrease, NumbersUsed,
         PendingTypes, Counters, NextBlock, tracerVars
<1> QED BY <1>1, <1>2, HookKeeps

-----------------------------------------------------------------------------

\* What is left alone stays right.
LEMMA HostStays ==
  ASSUME HostInvariant, UNCHANGED hostVars
  PROVE  HostInvariant'
<1> USE DEF hostVars, evmVars, tracerVars
<1>1. EvmTypeOK' /\ UNCHANGED <<frameStack, nextFrameID, snapshots, nextFrame>>
  BY DEF HostInvariant, HostTypeOK, EvmTypeOK
<1>2. Emitted' /\ PendingTypes' /\ Counters'
  BY DEF HostInvariant, HostTypeOK, Emitted, SequencesIncrease, NumbersUsed,
         PendingTypes, Counters
<1> QED BY <1>1, <1>2, HookKeeps

\* The tracer keeps step with the execution (kaysentinel_tracer.go, every hook).
THEOREM TracerKeepsStep == HostSpec => []HostInvariant
<1>1. HostInit => HostInvariant
  BY HostInitially
<1>2. HostInvariant /\ [HostStep \/ Stopped]_hostVars => HostInvariant'
  <2> SUFFICES ASSUME HostInvariant, [HostStep \/ Stopped]_hostVars
               PROVE  HostInvariant'
    OBVIOUS
  <2>1. CASE StartBlock
    BY <2>1, StartBlockKeeps
  <2>2. CASE StartTx
    BY <2>2, StartTxKeeps
  <2>3. CASE EnterFrame
    BY <2>3, EnterFrameKeeps
  <2>4. CASE \E reverted \in BOOLEAN : ExitFrame(reverted)
    BY <2>4, ExitFrameKeeps
  <2>5. CASE \E k \in Key, v \in Value : ChangeState(k, v)
    BY <2>5, ChangeStateKeeps
  <2>6. CASE \E a \in Address : ClearCode(a)
    BY <2>6, ClearCodeKeeps
  <2>7. CASE \E a \in Address, v \in Value : CreditBeneficiary(a, v)
    BY <2>7, CreditBeneficiaryKeeps
  <2>8. CASE \E failed \in BOOLEAN : EndTx(failed)
    BY <2>8, EndTxKeeps
  <2>9. CASE EndBlock
    BY <2>9, EndBlockKeeps
  <2>10. CASE NextBlock
    BY <2>10, NextBlockKeeps
  <2>11. CASE UNCHANGED hostVars
    BY <2>11, HostStays
  <2> QED BY <2>1, <2>2, <2>3, <2>4, <2>5, <2>6, <2>7, <2>8, <2>9, <2>10, <2>11
          DEF HostStep, Stopped
<1> QED BY <1>1, <1>2, PTL DEF HostSpec

\* Sequence numbers increase up to the end of the sequence space.
THEOREM NumbersIncrease == HostSpec => []SequencesIncrease
<1>1. HostInvariant => SequencesIncrease
  BY DEF HostInvariant
<1> QED BY <1>1, TracerKeepsStep, PTL

\* The tracer's stack is the EVM's.
THEOREM StackIsMirror == HostSpec => []StackMirrored
<1>1. HostInvariant => StackMirrored
  <2> SUFFICES ASSUME HostInvariant
               PROVE  frameStack = [j \in DOMAIN snapshots |-> snapshots[j].id]
    BY DEF StackMirrored
  <2>1. /\ frameStack \in Seq(0..U32_MAX) /\ snapshots \in Seq(Snapshot)
        /\ Len(frameStack) = Len(snapshots)
        /\ \A j \in 1..Len(snapshots) : frameStack[j] = snapshots[j].id
    BY DEF HostInvariant, HostTypeOK, EvmTypeOK, StacksAligned
  <2>2. DOMAIN frameStack = 1..Len(snapshots) /\ DOMAIN snapshots = 1..Len(snapshots)
    BY <2>1
  <2>3. frameStack = [j \in 1..Len(snapshots) |-> frameStack[j]]
    BY <2>1
  <2> QED BY <2>1, <2>2, <2>3
<1> QED BY <1>1, TracerKeepsStep, PTL

-----------------------------------------------------------------------------
(***************************************************************************)
(* Self-destructions.  What the tracer has pending for a frame are the     *)
(* code changes of the stream that an announcement may still follow.       *)
(***************************************************************************)

\* The code changes of frame f that an event after s may announce.
Waits(s, cleared, f) ==
  {q \in 1..Len(s) :
     /\ s[q].sequence \in cleared
     /\ s[q].frameID = f
     /\ \A m \in q..Len(s) : /\ s[m].type # "TransactionStart"
                             /\ ~(s[m].type = "SelfDestruct" /\ s[m].frameID = f)}

Latest(set, q) == q \in set /\ \A r \in set : r <= q

\* A frame is pending exactly when one waits, with the account of the latest.
PendingIn(s, cleared, pending, f) ==
  /\ f \in DOMAIN pending =>
       \E q \in 1..Len(s) : Latest(Waits(s, cleared, f), q) /\ pending[f] = s[q].key.address
  /\ f \notin DOMAIN pending => Waits(s, cleared, f) = {}

PendingRight(s, cleared, pending) == \A f \in U64 : PendingIn(s, cleared, pending, f)

\* Event p is paired, and there is a latest of what it may announce.
PairedLatest(s, cleared, credited, p) ==
  /\ PairedAt(s, cleared, credited, p)
  /\ s[p].sequence \in credited /\ Announceable(s, cleared, p) # {} =>
       \E q \in 1..Len(s) : Latest(Announceable(s, cleared, p), q)

AllPaired(s, cleared, credited) ==
  \A p \in 1..Len(s) : PairedLatest(s, cleared, credited, p)

\* The logs name numbers of the past.
Logged == \A n \in clears \cup credits : n < globalSequence

DestructRight ==
  ~panicked =>
    /\ Logged
    /\ phase = "tx" => PendingRight(events, clears, pendingSelfDestruct)
    /\ phase # "tx" => DOMAIN pendingSelfDestruct = {}
    /\ AllPaired(events, clears, credits)

\* Two sets agree on the numbers of a stream.
Agree(s, a, b) == \A i \in 1..Len(s) : s[i].sequence \in a <=> s[i].sequence \in b

\* An announcement leaves nothing waiting in its frame.
LEMMA WaitsAnnounced ==
  ASSUME NEW s \in Seq(EmesEvent), NEW e \in EmesEvent, NEW cl, e.type = "SelfDestruct"
  PROVE  Waits(Append(s, e), cl, e.frameID) = {}
<1> DEFINE t == Append(s, e)
<1>1. Len(t) = Len(s) + 1 /\ Len(s) \in Nat /\ t[Len(s) + 1] = e
  BY Pushed
<1> HIDE DEF t
<1>2. \A q \in 1..Len(t) : Len(t) \in q..Len(t)
  BY <1>1
<1>3. Waits(t, cl, e.frameID) = {}
  BY <1>1, <1>2 DEF Waits
<1> QED BY <1>3 DEF t

\* Other events leave waiting what waited.
LEMMA WaitsOn ==
  ASSUME NEW s \in Seq(EmesEvent), NEW e \in EmesEvent, NEW cl, NEW cl2,
         Agree(s, cl, cl2), e.type # "TransactionStart", NEW f,
         ~(e.type = "SelfDestruct" /\ e.frameID = f), NEW q \in 1..Len(s)
  PROVE  q \in Waits(Append(s, e), cl2, f) <=> q \in Waits(s, cl, f)
<1> DEFINE t == Append(s, e)
<1>1. /\ Len(t) = Len(s) + 1 /\ Len(s) \in Nat
      /\ \A j \in 1..Len(s) : t[j] = s[j]
      /\ t[Len(s) + 1] = e
  BY Pushed
<1> HIDE DEF t
<1>2. q..Len(t) = q..Len(s) \cup {Len(s) + 1} /\ q \in 1..Len(t) /\ t[q] = s[q]
  BY <1>1
<1>3. \A m \in q..Len(s) : t[m] = s[m]
  BY <1>1
<1>4. s[q].sequence \in cl2 <=> s[q].sequence \in cl
  BY DEF Agree
<1>5. q \in Waits(t, cl2, f) <=> q \in Waits(s, cl, f)
  BY <1>1, <1>2, <1>3, <1>4 DEF Waits
<1> QED BY <1>5 DEF t

\* An event that is not cleared code of the frame does not join them.
LEMMA WaitsSame ==
  ASSUME NEW s \in Seq(EmesEvent), NEW e \in EmesEvent, NEW cl, NEW cl2,
         Agree(s, cl, cl2), e.type # "TransactionStart", NEW f,
         ~(e.type = "SelfDestruct" /\ e.frameID = f), ~(e.sequence \in cl2 /\ e.frameID = f)
  PROVE  Waits(Append(s, e), cl2, f) = Waits(s, cl, f)
<1> DEFINE t == Append(s, e)
<1>1. Len(t) = Len(s) + 1 /\ Len(s) \in Nat /\ t[Len(s) + 1] = e
  BY Pushed
<1>2. \A q \in 1..Len(s) : q \in Waits(t, cl2, f) <=> q \in Waits(s, cl, f)
  BY WaitsOn
<1> HIDE DEF t
<1>3. Len(s) + 1 \notin Waits(t, cl2, f)
  BY <1>1 DEF Waits
<1>4. Waits(t, cl2, f) \subseteq 1..Len(s) \cup {Len(s) + 1} /\ Waits(s, cl, f) \subseteq 1..Len(s)
  BY <1>1 DEF Waits
<1>5. Waits(t, cl2, f) = Waits(s, cl, f)
  BY <1>2, <1>3, <1>4
<1> QED BY <1>5 DEF t

\* Cleared code of the frame joins them, as the latest.
LEMMA WaitsJoined ==
  ASSUME NEW s \in Seq(EmesEvent), NEW e \in EmesEvent, NEW cl, NEW cl2,
         Agree(s, cl, cl2), e.type \notin {"TransactionStart", "SelfDestruct"},
         e.sequence \in cl2
  PROVE  Latest(Waits(Append(s, e), cl2, e.frameID), Len(s) + 1)
<1> DEFINE t == Append(s, e)
<1>1. Len(t) = Len(s) + 1 /\ Len(s) \in Nat /\ t[Len(s) + 1] = e
  BY Pushed
<1> HIDE DEF t
<1>2. (Len(s) + 1)..Len(t) = {Len(s) + 1} /\ Len(s) + 1 \in 1..Len(t)
  BY <1>1
<1>3. Len(s) + 1 \in Waits(t, cl2, e.frameID)
  BY <1>1, <1>2 DEF Waits
<1>4. \A r \in Waits(t, cl2, e.frameID) : r <= Len(s) + 1
  BY <1>1 DEF Waits
<1> QED BY <1>3, <1>4 DEF Latest, t

\* A transaction starts with nothing waiting.
LEMMA WaitsAtStart ==
  ASSUME NEW s \in Seq(EmesEvent), NEW e \in EmesEvent, e.type = "TransactionStart",
         NEW cl, NEW f
  PROVE  Waits(Append(s, e), cl, f) = {}
<1> DEFINE t == Append(s, e)
<1>1. Len(t) = Len(s) + 1 /\ Len(s) \in Nat /\ t[Len(s) + 1] = e
  BY Pushed
<1> HIDE DEF t
<1>2. \A q \in 1..Len(t) : Len(t) \in q..Len(t)
  BY <1>1
<1>3. Waits(t, cl, f) = {}
  BY <1>1, <1>2 DEF Waits
<1> QED BY <1>3 DEF t

\* The latest of a set is the one that PairedAt chooses.
LEMMA LatestChosen ==
  ASSUME NEW n \in Nat, NEW set, set \subseteq 1..n, NEW q, Latest(set, q)
  PROVE  (CHOOSE x \in set : \A r \in set : r <= x) = q
<1>1. q \in set /\ \A r \in set : r <= q
  BY DEF Latest
<1>2. PICK c : c = CHOOSE x \in set : \A r \in set : r <= x
  OBVIOUS
<1>3. c \in set /\ \A r \in set : r <= c
  <2>1. \E x \in set : \A r \in set : r <= x
    BY <1>1
  <2> QED BY <2>1, <1>2, Zenon
<1>4. c <= q /\ q <= c /\ c \in Nat /\ q \in Nat
  BY <1>1, <1>3
<1> QED BY <1>2, <1>4

\* What is pending for a frame depends on the events that wait in it.
LEMMA PendingMoves ==
  ASSUME NEW s, NEW t, NEW cl, NEW cl2, NEW pending, NEW p2, NEW f,
         PendingIn(s, cl, pending, f),
         1..Len(s) \subseteq 1..Len(t), \A j \in 1..Len(s) : t[j] = s[j],
         Waits(t, cl2, f) = Waits(s, cl, f),
         f \in DOMAIN p2 <=> f \in DOMAIN pending,
         f \in DOMAIN pending => p2[f] = pending[f]
  PROVE  PendingIn(t, cl2, p2, f)
<1>1. CASE f \in DOMAIN pending
  <2>1. PICK q \in 1..Len(s) : Latest(Waits(s, cl, f), q) /\ pending[f] = s[q].key.address
    BY <1>1 DEF PendingIn
  <2>2. q \in 1..Len(t) /\ t[q] = s[q]
    OBVIOUS
  <2> QED BY <1>1, <2>1, <2>2 DEF PendingIn
<1>2. CASE f \notin DOMAIN pending
  BY <1>2 DEF PendingIn
<1> QED BY <1>1, <1>2

\* An event that clears, credits and announces nothing changes nothing pending.
LEMMA PendingKept ==
  ASSUME NEW s \in Seq(EmesEvent), NEW e \in EmesEvent, NEW cl, NEW pending,
         e.type \notin {"TransactionStart", "SelfDestruct"}, e.sequence \notin cl,
         PendingRight(s, cl, pending)
  PROVE  PendingRight(Append(s, e), cl, pending)
<1> SUFFICES ASSUME NEW f \in U64 PROVE PendingIn(Append(s, e), cl, pending, f)
  BY DEF PendingRight
<1> DEFINE t == Append(s, e)
<1>1. 1..Len(s) \subseteq 1..Len(t) /\ \A j \in 1..Len(s) : t[j] = s[j]
  BY Pushed
<1>2. Waits(t, cl, f) = Waits(s, cl, f)
  <2>1. Agree(s, cl, cl)
    BY DEF Agree
  <2> QED BY <2>1, WaitsSame
<1>3. PendingIn(s, cl, pending, f)
  BY DEF PendingRight
<1> HIDE DEF t
<1>4. PendingIn(t, cl, pending, f)
  BY <1>1, <1>2, <1>3, PendingMoves
<1> QED BY <1>4 DEF t

\* Code is cleared: its account is pending in its frame.
LEMMA PendingCleared ==
  ASSUME NEW s \in Seq(EmesEvent), NEW e \in EmesEvent, NEW cl, NEW cl2, NEW pending,
         e.type \notin {"TransactionStart", "SelfDestruct"}, e.sequence \in cl2,
         Agree(s, cl, cl2), PendingRight(s, cl, pending)
  PROVE  PendingRight(Append(s, e), cl2,
           [y \in DOMAIN pending \cup {e.frameID} |->
              IF y = e.frameID THEN e.key.address ELSE pending[y]])
<1> DEFINE t == Append(s, e)
           p2 == [y \in DOMAIN pending \cup {e.frameID} |->
                    IF y = e.frameID THEN e.key.address ELSE pending[y]]
<1> SUFFICES ASSUME NEW f \in U64 PROVE PendingIn(t, cl2, p2, f)
  BY DEF PendingRight
<1>1. /\ 1..Len(s) \subseteq 1..Len(t) /\ Len(s) + 1 \in 1..Len(t)
      /\ \A j \in 1..Len(s) : t[j] = s[j]
      /\ t[Len(s) + 1] = e
  BY Pushed
<1>2. CASE f = e.frameID
  <2>1. Latest(Waits(t, cl2, e.frameID), Len(s) + 1)
    BY WaitsJoined
  <2>2. f \in DOMAIN p2 /\ p2[f] = e.key.address
    BY <1>2
  <2> HIDE DEF t, p2
  <2> QED BY <1>1, <1>2, <2>1, <2>2 DEF PendingIn
<1>3. CASE f # e.frameID
  <2>1. (f \in DOMAIN p2 <=> f \in DOMAIN pending) /\ (f \in DOMAIN pending => p2[f] = pending[f])
    BY <1>3
  <2>2. Waits(t, cl2, f) = Waits(s, cl, f)
    BY <1>3, WaitsSame
  <2>3. PendingIn(s, cl, pending, f)
    BY DEF PendingRight
  <2> HIDE DEF t, p2
  <2> QED BY <1>1, <2>1, <2>2, <2>3, PendingMoves
<1> QED BY <1>2, <1>3

\* An announcement: nothing waits in its frame any more.
LEMMA PendingAnnounced ==
  ASSUME NEW s \in Seq(EmesEvent), NEW e \in EmesEvent, NEW cl, NEW pending,
         e.type = "SelfDestruct", e.sequence \notin cl, PendingRight(s, cl, pending)
  PROVE  PendingRight(Append(s, e), cl, Without(pending, e.frameID))
<1> DEFINE t == Append(s, e)
           p2 == Without(pending, e.frameID)
<1> SUFFICES ASSUME NEW f \in U64 PROVE PendingIn(t, cl, p2, f)
  BY DEF PendingRight
<1>1. 1..Len(s) \subseteq 1..Len(t) /\ \A j \in 1..Len(s) : t[j] = s[j]
  BY Pushed
<1>2. /\ DOMAIN p2 = DOMAIN pending \ {e.frameID}
      /\ \A g \in DOMAIN p2 : p2[g] = pending[g]
  BY DEF Without
<1>3. CASE f = e.frameID
  <2>1. Waits(t, cl, f) = {}
    BY <1>3, WaitsAnnounced
  <2> HIDE DEF t, p2
  <2> QED BY <1>2, <1>3, <2>1 DEF PendingIn
<1>4. CASE f # e.frameID
  <2>1. Agree(s, cl, cl)
    BY DEF Agree
  <2>2. Waits(t, cl, f) = Waits(s, cl, f)
    BY <1>4, <2>1, WaitsSame
  <2>3. PendingIn(s, cl, pending, f)
    BY DEF PendingRight
  <2> HIDE DEF t, p2
  <2>4. (f \in DOMAIN p2 <=> f \in DOMAIN pending) /\ (f \in DOMAIN pending => p2[f] = pending[f])
    BY <1>2, <1>4
  <2> QED BY <1>1, <2>2, <2>3, <2>4, PendingMoves
<1> QED BY <1>3, <1>4

\* What an event may announce depends on the events up to it.
LEMMA AnnounceablePrefix ==
  ASSUME NEW s \in Seq(EmesEvent), NEW e \in EmesEvent, NEW cl, NEW cl2,
         Agree(s, cl, cl2), NEW p \in 1..Len(s)
  PROVE  Announceable(Append(s, e), cl2, p) = Announceable(s, cl, p)
<1> DEFINE t == Append(s, e)
<1>1. \A j \in 1..Len(s) : t[j] = s[j]
  BY Pushed
<1> HIDE DEF t
<1>2. \A q \in 1..p-1 : q \in 1..Len(s) /\ q..p \subseteq 1..Len(s)
  OBVIOUS
<1>3. \A q \in 1..p-1 : (s[q].sequence \in cl2 <=> s[q].sequence \in cl) /\ t[q] = s[q]
  BY <1>1, <1>2 DEF Agree
<1>4. ASSUME NEW q \in 1..p-1
      PROVE  \A m \in q..p : t[m] = s[m]
  BY <1>1, <1>2
<1>5. t[p] = s[p]
  BY <1>1
<1>6. ASSUME NEW q \in 1..p-1
      PROVE  q \in Announceable(t, cl2, p) <=> q \in Announceable(s, cl, p)
  <2>1. SameFrame(t, q, p) <=> SameFrame(s, q, p)
    BY <1>3, <1>4, <1>5 DEF SameFrame
  <2>2. (\E m \in q..p : t[m].type = "SelfDestruct" /\ t[m].frameID = t[p].frameID)
          <=> (\E m \in q..p : s[m].type = "SelfDestruct" /\ s[m].frameID = s[p].frameID)
    BY <1>4, <1>5
  <2>3. t[q].sequence \in cl2 <=> s[q].sequence \in cl
    BY <1>3
  <2> QED BY <2>1, <2>2, <2>3 DEF Announceable
<1>7. Announceable(t, cl2, p) \subseteq 1..p-1 /\ Announceable(s, cl, p) \subseteq 1..p-1
  BY DEF Announceable
<1>8. Announceable(t, cl2, p) = Announceable(s, cl, p)
  BY <1>6, <1>7
<1> QED BY <1>8 DEF t

\* A mutation may announce what waits in its frame.
LEMMA AnnounceableNew ==
  ASSUME NEW s \in Seq(EmesEvent), NEW e \in EmesEvent, NEW cl, NEW cl2,
         Agree(s, cl, cl2), e.type \notin {"TransactionStart", "SelfDestruct"}
  PROVE  Announceable(Append(s, e), cl2, Len(s) + 1) = Waits(s, cl, e.frameID)
<1> DEFINE t == Append(s, e)
           n == Len(s)
<1>1. n \in Nat /\ t[n + 1] = e /\ \A j \in 1..n : t[j] = s[j]
  BY Pushed
<1> HIDE DEF t, n
<1>2. ASSUME NEW q \in 1..n
      PROVE  q \in Announceable(t, cl2, n + 1) <=> q \in Waits(s, cl, e.frameID)
  <2>1. q..n+1 = q..n \cup {n + 1} /\ q \in 1..(n+1)-1 /\ \A m \in q..n : t[m] = s[m]
    BY <1>1
  <2>2. (t[q].sequence \in cl2 <=> s[q].sequence \in cl) /\ t[q] = s[q]
    BY <1>1 DEF Agree, n
  <2>3. SameFrame(t, q, n + 1) <=>
          s[q].frameID = e.frameID /\ \A m \in q..n : s[m].type # "TransactionStart"
    BY <1>1, <2>1, <2>2 DEF SameFrame
  <2>4. (\E m \in q..n+1 : t[m].type = "SelfDestruct" /\ t[m].frameID = t[n+1].frameID)
          <=> (\E m \in q..n : s[m].type = "SelfDestruct" /\ s[m].frameID = e.frameID)
    BY <1>1, <2>1
  <2>5. q \in Announceable(t, cl2, n + 1) <=>
          /\ t[q].sequence \in cl2
          /\ SameFrame(t, q, n + 1)
          /\ ~\E m \in q..n+1 : t[m].type = "SelfDestruct" /\ t[m].frameID = t[n+1].frameID
    BY <2>1 DEF Announceable
  <2>6. q \in Waits(s, cl, e.frameID) <=>
          /\ s[q].sequence \in cl
          /\ s[q].frameID = e.frameID
          /\ \A m \in q..n : /\ s[m].type # "TransactionStart"
                             /\ ~(s[m].type = "SelfDestruct" /\ s[m].frameID = e.frameID)
    BY DEF Waits, n
  <2> QED BY <2>2, <2>3, <2>4, <2>5, <2>6
<1>3. Announceable(t, cl2, n + 1) \subseteq 1..n /\ Waits(s, cl, e.frameID) \subseteq 1..n
  BY <1>1 DEF Announceable, Waits, n
<1>4. Announceable(t, cl2, n + 1) = Waits(s, cl, e.frameID)
  BY <1>2, <1>3
<1> QED BY <1>4 DEF t, n

\* What is paired stays paired.
LEMMA PairedNext ==
  ASSUME NEW s \in Seq(EmesEvent), NEW e \in EmesEvent, NEW cl, NEW cl2, NEW cr, NEW cr2,
         Agree(s, cl, cl2), Agree(s, cr, cr2), NEW p \in 1..Len(s),
         PairedLatest(s, cl, cr, p), e.type = "SelfDestruct" => p # Len(s)
  PROVE  PairedLatest(Append(s, e), cl2, cr2, p)
<1> DEFINE t == Append(s, e)
<1>1. /\ Len(t) = Len(s) + 1 /\ Len(s) \in Nat /\ t[Len(s) + 1] = e
      /\ \A j \in 1..Len(s) : t[j] = s[j]
  BY Pushed
<1>2. Announceable(t, cl2, p) = Announceable(s, cl, p)
  BY AnnounceablePrefix
<1> HIDE DEF t
<1>3. p < Len(s) => t[p + 1] = s[p + 1]
  BY <1>1
<1>4. (p < Len(t) /\ t[p + 1].type = "SelfDestruct")
        <=> (p < Len(s) /\ s[p + 1].type = "SelfDestruct")
  BY <1>1, <1>3
<1>5. t[p] = s[p] /\ (p > 1 => t[p - 1] = s[p - 1] /\ p - 1 \in 1..Len(s))
  BY <1>1
<1>6. \A j \in 1..Len(s) : s[j].sequence \in cr2 <=> s[j].sequence \in cr
  BY DEF Agree
<1>7. t[p].type = "SelfDestruct" => p > 1 /\ t[p - 1].sequence \in cr2
  <2>1. s[p].type = "SelfDestruct" => p > 1 /\ s[p - 1].sequence \in cr
    BY DEF PairedAt, PairedLatest
  <2> QED BY <1>5, <1>6, <2>1
<1>8. ASSUME t[p].sequence \in cr2
      PROVE  (p < Len(t) /\ t[p + 1].type = "SelfDestruct") <=> Announceable(t, cl2, p) # {}
  <2>1. s[p].sequence \in cr
    BY <1>5, <1>6, <1>8
  <2>2. (p < Len(s) /\ s[p + 1].type = "SelfDestruct") <=> Announceable(s, cl, p) # {}
    BY <2>1 DEF PairedAt, PairedLatest
  <2> QED BY <1>2, <1>4, <2>2
<1>9. ASSUME t[p].sequence \in cr2, p < Len(t) /\ t[p + 1].type = "SelfDestruct"
      PROVE  t[p + 1].address =
               t[CHOOSE q \in Announceable(t, cl2, p) :
                   \A r \in Announceable(t, cl2, p) : r <= q].key.address
  <2> DEFINE last == CHOOSE q \in Announceable(s, cl, p) :
                       \A r \in Announceable(s, cl, p) : r <= q
  <2>1. s[p].sequence \in cr /\ p < Len(s) /\ s[p + 1].type = "SelfDestruct"
    BY <1>4, <1>5, <1>6, <1>9
  <2>2. Announceable(s, cl, p) # {} /\ s[p + 1].address = s[last].key.address
    BY <2>1 DEF PairedAt, PairedLatest
  <2>3. last \in 1..Len(s)
    <3>1. PICK q \in 1..Len(s) : Latest(Announceable(s, cl, p), q)
      BY <2>1, <2>2 DEF PairedLatest
    <3>2. Announceable(s, cl, p) \subseteq 1..Len(s)
      BY DEF Announceable
    <3>3. last = q
      BY <1>1, <3>1, <3>2, LatestChosen
    <3> QED BY <3>3
  <2> HIDE DEF last
  <2>4. t[last] = s[last] /\ t[p + 1] = s[p + 1]
    BY <1>1, <1>3, <2>1, <2>3
  <2>5. t[p + 1].address = t[last].key.address
    BY <2>2, <2>4
  <2> QED BY <1>2, <2>5 DEF last
<1>10. PairedAt(t, cl2, cr2, p)
  BY <1>7, <1>8, <1>9 DEF PairedAt
<1>11. ASSUME t[p].sequence \in cr2, Announceable(t, cl2, p) # {}
       PROVE  \E q \in 1..Len(t) : Latest(Announceable(t, cl2, p), q)
  <2>1. s[p].sequence \in cr
    BY <1>5, <1>6, <1>11
  <2>2. PICK q \in 1..Len(s) : Latest(Announceable(s, cl, p), q)
    BY <1>2, <1>11, <2>1 DEF PairedLatest
  <2>3. q \in 1..Len(t)
    BY <1>1
  <2> QED BY <1>2, <2>2, <2>3
<1>12. PairedLatest(t, cl2, cr2, p)
  BY <1>10, <1>11 DEF PairedLatest
<1> QED BY <1>12 DEF t

\* A stream goes on with an event that credits and announces nothing.
LEMMA PairsKept ==
  ASSUME NEW s \in Seq(EmesEvent), NEW e \in EmesEvent, NEW cl, NEW cl2, NEW cr,
         Agree(s, cl, cl2), AllPaired(s, cl, cr), e.type # "SelfDestruct",
         e.sequence \notin cr
  PROVE  AllPaired(Append(s, e), cl2, cr)
<1> DEFINE t == Append(s, e)
<1>1. Len(t) = Len(s) + 1 /\ Len(s) \in Nat /\ t[Len(s) + 1] = e
  BY Pushed
<1>2. ASSUME NEW p \in 1..Len(s)
      PROVE  PairedLatest(t, cl2, cr, p)
  <2>1. Agree(s, cr, cr) /\ PairedLatest(s, cl, cr, p)
    BY DEF Agree, AllPaired
  <2> QED BY <2>1, PairedNext
<1> HIDE DEF t
<1>3. PairedLatest(t, cl2, cr, Len(s) + 1)
  BY <1>1 DEF PairedLatest, PairedAt
<1>4. AllPaired(t, cl2, cr)
  <2> SUFFICES ASSUME NEW p \in 1..Len(t) PROVE PairedLatest(t, cl2, cr, p)
    BY DEF AllPaired
  <2>1. p \in 1..Len(s) \/ p = Len(s) + 1
    BY <1>1
  <2> QED BY <1>2, <1>3, <2>1
<1> QED BY <1>4 DEF t

\* A credit, and the announcement after it when something waits in its frame.
LEMMA PairsCredited ==
  ASSUME NEW s \in Seq(EmesEvent), NEW e \in EmesEvent, NEW cl, NEW cr, NEW cr2,
         Agree(s, cr, cr2), AllPaired(s, cl, cr),
         e.type \notin {"TransactionStart", "SelfDestruct"}, Waits(s, cl, e.frameID) = {}
  PROVE  AllPaired(Append(s, e), cl, cr2)
<1> DEFINE t == Append(s, e)
<1>1. Len(t) = Len(s) + 1 /\ Len(s) \in Nat /\ t[Len(s) + 1] = e
  BY Pushed
<1>2. Agree(s, cl, cl)
  BY DEF Agree
<1>3. ASSUME NEW p \in 1..Len(s)
      PROVE  PairedLatest(t, cl, cr2, p)
  <2>1. PairedLatest(s, cl, cr, p)
    BY DEF AllPaired
  <2> QED BY <1>2, <2>1, PairedNext
<1>4. Announceable(t, cl, Len(s) + 1) = {}
  BY <1>2, AnnounceableNew
<1> HIDE DEF t
<1>5. PairedLatest(t, cl, cr2, Len(s) + 1)
  BY <1>1, <1>4 DEF PairedLatest, PairedAt
<1>6. AllPaired(t, cl, cr2)
  <2> SUFFICES ASSUME NEW p \in 1..Len(t) PROVE PairedLatest(t, cl, cr2, p)
    BY DEF AllPaired
  <2>1. p \in 1..Len(s) \/ p = Len(s) + 1
    BY <1>1
  <2> QED BY <1>3, <1>5, <2>1
<1> QED BY <1>6 DEF t

LEMMA PairsAnnounced ==
  ASSUME NEW s \in Seq(EmesEvent), NEW e \in EmesEvent, NEW d \in EmesEvent,
         NEW cl, NEW cr, NEW cr2, NEW q \in 1..Len(s),
         Agree(s, cr, cr2), AllPaired(s, cl, cr),
         e.type \notin {"TransactionStart", "SelfDestruct"}, e.sequence \in cr2,
         Latest(Waits(s, cl, e.frameID), q),
         d.type = "SelfDestruct", d.sequence \notin cr2, d.address = s[q].key.address
  PROVE  AllPaired(Append(Append(s, e), d), cl, cr2)
<1> DEFINE n == Len(s)
           t == Append(s, e)
           u == Append(t, d)
<1>1. t \in Seq(EmesEvent) /\ Len(t) = n + 1 /\ n \in Nat /\ t[n + 1] = e
      /\ \A j \in 1..n : t[j] = s[j]
  BY Pushed
<1>2. Len(u) = n + 2 /\ u[n + 2] = d /\ \A j \in 1..n + 1 : u[j] = t[j]
  <2> HIDE DEF t, n
  <2>1. Len(u) = Len(t) + 1 /\ u[Len(t) + 1] = d /\ \A j \in 1..Len(t) : u[j] = t[j]
    BY <1>1, Pushed
  <2>2. Len(t) + 1 = n + 2
    BY <1>1
  <2> QED BY <1>1, <2>1, <2>2
<1>3. Agree(s, cl, cl) /\ Agree(t, cl, cl) /\ Agree(t, cr2, cr2)
  BY DEF Agree
<1>4. ASSUME NEW p \in 1..n
      PROVE  PairedLatest(u, cl, cr2, p)
  <2>1. PairedLatest(s, cl, cr, p)
    BY DEF AllPaired
  <2>2. PairedLatest(t, cl, cr2, p)
    BY <1>3, <2>1, PairedNext
  <2>3. p \in 1..Len(t) /\ p # Len(t)
    BY <1>1
  <2> HIDE DEF t
  <2> QED BY <1>1, <1>3, <2>2, <2>3, PairedNext
<1>5. Announceable(u, cl, n + 1) = Waits(s, cl, e.frameID)
  <2>1. Announceable(t, cl, n + 1) = Waits(s, cl, e.frameID)
    BY <1>3, AnnounceableNew
  <2>2. n + 1 \in 1..Len(t)
    BY <1>1
  <2> HIDE DEF t, n
  <2> QED BY <1>1, <1>3, <2>1, <2>2, AnnounceablePrefix
<1>6. q \in Waits(s, cl, e.frameID) /\ Waits(s, cl, e.frameID) \subseteq 1..n
  BY DEF Waits, Latest
<1>7. (CHOOSE x \in Waits(s, cl, e.frameID) : \A r \in Waits(s, cl, e.frameID) : r <= x) = q
  BY <1>1, <1>6, LatestChosen
<1> HIDE DEF t, u, n
<1>8. u[q] = s[q] /\ u[n + 1] = e /\ u[n + 2] = d /\ n + 1 < Len(u) /\ (n + 1) + 1 = n + 2
      /\ q \in 1..Len(u) /\ n + 1 >= 1 /\ (n + 2) - 1 = n + 1 /\ n + 2 > 1
  BY <1>1, <1>2 DEF n
<1>9. PairedLatest(u, cl, cr2, n + 1)
  <2>1. PairedAt(u, cl, cr2, n + 1)
    <3>1. u[n + 1].type # "SelfDestruct"
      BY <1>8
    <3>2. /\ n + 1 < Len(u) /\ u[(n + 1) + 1].type = "SelfDestruct"
          /\ Announceable(u, cl, n + 1) # {}
      BY <1>5, <1>6, <1>8
    <3>3. u[(n + 1) + 1].address =
            u[CHOOSE x \in Announceable(u, cl, n + 1) :
                \A r \in Announceable(u, cl, n + 1) : r <= x].key.address
      BY <1>5, <1>7, <1>8
    <3> QED BY <3>1, <3>2, <3>3 DEF PairedAt
  <2> QED BY <1>5, <1>8, <2>1 DEF PairedLatest
<1>10. PairedLatest(u, cl, cr2, n + 2)
  BY <1>8 DEF PairedLatest, PairedAt
<1>11. AllPaired(u, cl, cr2)
  <2> SUFFICES ASSUME NEW p \in 1..Len(u) PROVE PairedLatest(u, cl, cr2, p)
    BY DEF AllPaired
  <2>1. p \in 1..n \/ p = n + 1 \/ p = n + 2
    BY <1>1, <1>2
  <2> QED BY <1>4, <1>9, <1>10, <2>1
<1> QED BY <1>11 DEF t, u

-----------------------------------------------------------------------------
(***************************************************************************)
(* The hooks keep what is pending and what is announced.                   *)
(***************************************************************************)

\* One emit that does not panic.
LEMMA OneEvent ==
  ASSUME NEW STATE q, q \in Seq(EmesEvent), NEW STATE log, NEW STATE frame,
         NEW STATE e, e \in EmesEvent, globalSequence \in U64,
         EmitAfter(q, log, frame, <<e>>), ~panicked'
  PROVE  events' = Append(q, SetSequence(e, globalSequence))
         /\ globalSequence' = globalSequence + 1
<1> DEFINE g == globalSequence
           x == SetSequence(e, g)
           room == U64_MAX - g
           count == IF Len(<<e>>) <= room THEN Len(<<e>>) ELSE room
           new == [j \in 1..count |-> SetSequence(<<e>>[j], g + j - 1)]
<1>1. events' = q \o new /\ ~(Len(<<e>>) > room)
      /\ globalSequence' = IF Len(<<e>>) > room THEN 0 ELSE g + Len(<<e>>)
  BY DEF EmitAfter
<1>2. g \in Nat /\ U64_MAX \in Nat /\ Len(<<e>>) = 1
  BY WidthAssumption DEF U64
<1>3. count = 1
  BY <1>1, <1>2
<1>4. globalSequence' = g + 1
  BY <1>1, <1>2
<1> HIDE DEF count, room
<1>5. new = <<x>>
  <2>1. \A j \in 1..1 : <<e>>[j] = e /\ g + j - 1 = g
    BY <1>2
  <2>2. \A j \in 1..1 : SetSequence(<<e>>[j], g + j - 1) = x
    BY <2>1
  <2>3. new = [j \in 1..1 |-> x]
    BY <1>3, <2>2
  <2> HIDE DEF new, x
  <2> QED BY <2>3
<1>6. x \in EmesEvent
  BY Stamped
<1> HIDE DEF new, x
<1>7. events' = Append(q, x)
  BY <1>1, <1>5, <1>6
<1> QED BY <1>4, <1>7 DEF x

\* Two emits that do not panic.
LEMMA TwoEvents ==
  ASSUME NEW STATE q, q \in Seq(EmesEvent), NEW STATE log, NEW STATE frame,
         NEW STATE e, e \in EmesEvent, NEW STATE d, d \in EmesEvent,
         globalSequence \in U64, EmitAfter(q, log, frame, <<e, d>>), ~panicked'
  PROVE  /\ events' = Append(Append(q, SetSequence(e, globalSequence)),
                             SetSequence(d, globalSequence + 1))
         /\ globalSequence' = globalSequence + 2
         /\ globalSequence + 1 \in U64
<1> DEFINE g == globalSequence
           x == SetSequence(e, g)
           y == SetSequence(d, g + 1)
           room == U64_MAX - g
           count == IF Len(<<e, d>>) <= room THEN Len(<<e, d>>) ELSE room
           new == [j \in 1..count |-> SetSequence(<<e, d>>[j], g + j - 1)]
<1>1. events' = q \o new /\ ~(Len(<<e, d>>) > room)
      /\ globalSequence' = IF Len(<<e, d>>) > room THEN 0 ELSE g + Len(<<e, d>>)
  BY DEF EmitAfter
<1>2. g \in Nat /\ U64_MAX \in Nat /\ Len(<<e, d>>) = 2
  BY WidthAssumption DEF U64
<1>3. count = 2 /\ g + 1 \in U64
  BY <1>1, <1>2 DEF U64
<1>4. globalSequence' = g + 2
  BY <1>1, <1>2
<1> HIDE DEF count, room
<1>5. new = <<x, y>>
  <2>1. <<e, d>>[1] = e /\ <<e, d>>[2] = d /\ g + 1 - 1 = g /\ g + 2 - 1 = g + 1
    BY <1>2
  <2>2. SetSequence(<<e, d>>[1], g + 1 - 1) = x /\ SetSequence(<<e, d>>[2], g + 2 - 1) = y
    BY <2>1
  <2>3. new[1] = x /\ new[2] = y /\ new = [j \in 1..2 |-> new[j]]
    BY <1>3, <2>2
  <2> HIDE DEF new, x, y
  <2> QED BY <2>3
<1>6. x \in EmesEvent /\ y \in EmesEvent
  BY <1>3, Stamped
<1> HIDE DEF new, x, y
<1>7. events' = Append(Append(q, x), y)
  BY <1>1, <1>5, <1>6
<1> QED BY <1>3, <1>4, <1>7 DEF x, y

\* Numbers still to come are not on the stream.
LEMMA NumbersFresh ==
  ASSUME HostInvariant, ~panicked, NEW n \in Nat, n >= globalSequence, NEW set
  PROVE  Agree(events, set, set \cup {n})
<1>1. \A i \in 1..Len(events) : events[i].sequence < globalSequence
  BY DEF HostInvariant, HostTypeOK, NumbersUsed
<1>2. \A i \in 1..Len(events) : events[i].sequence \in Nat
  <2>1. \A e \in EmesEvent : e.sequence \in Nat
    BY DEF EmesEvent, U64
  <2> QED BY <2>1 DEF HostInvariant, HostTypeOK
<1>3. globalSequence \in Nat
  BY DEF HostInvariant, HostTypeOK, U64
<1> QED BY <1>1, <1>2, <1>3 DEF Agree

\* A hook that emits one event outside the self-destructions.
LEMMA PlainRight ==
  ASSUME HostInvariant, DestructRight, ~panicked, ~panicked', NEW STATE e, e \in EmesEvent,
         e.type # "SelfDestruct", NEW STATE log, NEW STATE frame,
         EmitAfter(events, log, frame, <<e>>), UNCHANGED <<clears, credits>>
  PROVE  /\ Logged' /\ AllPaired(events, clears, credits)'
         /\ e.type # "TransactionStart"
              /\ PendingRight(events, clears, pendingSelfDestruct) =>
              PendingRight(events', clears', pendingSelfDestruct)
         /\ e.type = "TransactionStart" =>
              \A f \in U64 : Waits(events', clears', f) = {}
<1> DEFINE g == globalSequence
           x == SetSequence(e, g)
<1>1. g \in U64 /\ g \in Nat /\ events \in Seq(EmesEvent)
  BY DEF HostInvariant, HostTypeOK, U64
<1>2. events' = Append(events, x) /\ globalSequence' = g + 1
  BY <1>1, OneEvent
<1>3. x \in EmesEvent /\ x.sequence = g /\ x.type = e.type
  BY <1>1, Stamped
<1>4. Logged /\ AllPaired(events, clears, credits)
  BY DEF DestructRight, Logged
<1>5. g \notin clears /\ g \notin credits
  BY <1>1, <1>4 DEF Logged
<1> HIDE DEF x
<1>6. Logged'
  <2>1. clears \cup credits \subseteq U64
    BY DEF HostInvariant, HostTypeOK
  <2> QED BY <1>1, <1>2, <1>4, <2>1 DEF Logged, U64
<1>7. AllPaired(Append(events, x), clears, credits)
  <2>1. Agree(events, clears, clears)
    BY DEF Agree
  <2> QED BY <1>1, <1>3, <1>4, <1>5, <2>1, PairsKept
<1>8. ASSUME e.type # "TransactionStart", PendingRight(events, clears, pendingSelfDestruct)
      PROVE  PendingRight(Append(events, x), clears, pendingSelfDestruct)
  BY <1>1, <1>3, <1>5, <1>8, PendingKept
<1>9. ASSUME e.type = "TransactionStart", NEW f \in U64
      PROVE  Waits(Append(events, x), clears, f) = {}
  BY <1>1, <1>3, <1>9, WaitsAtStart
<1> QED BY <1>2, <1>6, <1>7, <1>8, <1>9

\* A hook of a transaction that leaves what is pending as it is.
LEMMA PlainHookRight ==
  ASSUME HostInvariant, DestructRight, ~panicked, NEW STATE e, e \in EmesEvent,
         e.type \notin {"SelfDestruct", "TransactionStart"}, NEW STATE log, NEW STATE frame,
         EmitAfter(events, log, frame, <<e>>), phase = "tx",
         UNCHANGED <<phase, clears, credits, pendingSelfDestruct>>
  PROVE  DestructRight'
<1> SUFFICES ASSUME ~panicked' PROVE DestructRight'
  BY DEF DestructRight
<1>1. PendingRight(events, clears, pendingSelfDestruct)
  BY DEF DestructRight
<1>2. /\ Logged' /\ AllPaired(events, clears, credits)'
      /\ PendingRight(events', clears', pendingSelfDestruct)
  BY <1>1, PlainRight
<1> QED BY <1>2 DEF DestructRight

LEMMA StartBlockRight ==
  ASSUME HostInvariant, DestructRight, StartBlock
  PROVE  DestructRight'
<1> SUFFICES ASSUME ~panicked' PROVE DestructRight'
  BY DEF DestructRight
<1> DEFINE e == BlockStartEvent(blocks + 1)
           x == SetSequence(e, globalSequence)
<1>1. e \in EmesEvent /\ e.type = "BlockStart"
  BY WidthAssumption DEF HostInvariant, HostTypeOK, BlockStartEvent, EmesEvent, U64
<1>2. globalSequence \in U64
  BY DEF HostInvariant, HostTypeOK
<1>3. x.type = "BlockStart" /\ x \in EmesEvent
  BY <1>1, <1>2, Stamped
<1> HIDE DEF e
<1>4. events' = Append(<< >>, x)
  <2>1. << >> \in Seq(EmesEvent)
    OBVIOUS
  <2>2. EmitAfter(<< >>, << >>, currentFrameID, <<e>>)
    BY DEF StartBlock, OnBlockStart, e
  <2> QED BY <1>1, <1>2, <2>1, <2>2, OneEvent
<1> HIDE DEF x
<1>5. Len(events') = 1 /\ events'[1] = x
  BY <1>4
<1>6. clears' = {} /\ credits' = {} /\ phase' = "block" /\ ~panicked
      /\ pendingSelfDestruct' = pendingSelfDestruct /\ phase = "start"
  BY DEF StartBlock, EvmBlockStart, OnBlockStart
<1>7. AllPaired(events', clears', credits')
  BY <1>3, <1>5, <1>6 DEF AllPaired, PairedLatest, PairedAt
<1>8. DOMAIN pendingSelfDestruct = {}
  BY <1>6 DEF DestructRight
<1> QED BY <1>6, <1>7, <1>8 DEF DestructRight, Logged

LEMMA StartTxRight ==
  ASSUME HostInvariant, DestructRight, StartTx
  PROVE  DestructRight'
<1> SUFFICES ASSUME ~panicked' PROVE DestructRight'
  BY DEF DestructRight
<1> DEFINE e == TransactionStartEvent(txs + 1, 0)
<1>1. e \in EmesEvent /\ e.type = "TransactionStart"
  BY WidthAssumption
     DEF HostInvariant, HostTypeOK, EvmTypeOK, TransactionStartEvent, EmesEvent, U64
<1>2. /\ ~panicked /\ phase = "block" /\ phase' = "tx"
      /\ UNCHANGED <<clears, credits, pendingSelfDestruct>>
      /\ EmitAfter(events, errorLog, NO_FRAME, <<e>>)
  BY DEF StartTx, EvmTxStart, OnTxStart
<1> HIDE DEF e
<1>3. /\ Logged' /\ AllPaired(events, clears, credits)'
      /\ \A f \in U64 : Waits(events', clears', f) = {}
  BY <1>1, <1>2, PlainRight
<1>4. DOMAIN pendingSelfDestruct' = {}
  BY <1>2 DEF DestructRight
<1>5. PendingRight(events', clears', pendingSelfDestruct')
  BY <1>3, <1>4 DEF PendingRight, PendingIn
<1> QED BY <1>2, <1>3, <1>5 DEF DestructRight

LEMMA EnterFrameRight ==
  ASSUME HostInvariant, DestructRight, EnterFrame
  PROVE  DestructRight'
<1> DEFINE e == FrameEnterEvent(nextFrameID, currentFrameID, Len(snapshots))
<1>1. e \in EmesEvent /\ e.type = "FrameEnter"
  <2>1. Len(snapshots) \in Nat /\ nextFrameID \in U64
    BY DEF HostInvariant, HostTypeOK, EvmTypeOK
  <2> QED BY <2>1, CurrentTyped, WidthAssumption DEF FrameEnterEvent, EmesEvent, U64
<1>2. /\ ~panicked /\ phase = "tx"
      /\ UNCHANGED <<phase, clears, credits, pendingSelfDestruct>>
      /\ EmitAfter(events, errorLog, nextFrameID, <<e>>)
  BY DEF EnterFrame, EvmFrameEnter, OnEnter
<1> HIDE DEF e
<1> QED BY <1>1, <1>2, PlainHookRight

LEMMA ExitFrameRight ==
  ASSUME HostInvariant, DestructRight, NEW reverted \in BOOLEAN, ExitFrame(reverted)
  PROVE  DestructRight'
<1> DEFINE e == FrameExitEvent(currentFrameID, reverted)
           rest == SubSeq(frameStack, 1, Len(frameStack) - 1)
           top == IF rest = << >> THEN NO_FRAME ELSE rest[Len(rest)]
<1>1. e \in EmesEvent /\ e.type = "FrameExit"
  BY CurrentTyped, WidthAssumption DEF FrameExitEvent, EmesEvent, U64
<1>2. /\ ~panicked /\ phase = "tx"
      /\ UNCHANGED <<phase, clears, credits, pendingSelfDestruct>>
      /\ snapshots # << >>
  BY DEF ExitFrame, EvmFrameExit, OnExit
<1>3. frameStack # << >>
  BY <1>2 DEF HostInvariant, HostTypeOK, EvmTypeOK, StacksAligned
<1>4. EmitAfter(events, errorLog, top, <<e>>)
  BY <1>3 DEF ExitFrame, OnExit
<1> HIDE DEF e, top, rest
<1> QED BY <1>1, <1>2, <1>4, PlainHookRight

\* A mutation with an ordinary reason.
LEMMA MutationRight ==
  ASSUME HostInvariant, DestructRight, ~panicked, phase = "tx",
         NEW STATE k, k \in Key, NEW STATE prev, prev \in Value, NEW STATE new, new \in Value,
         emit(<<MutationEvent(currentFrameID, k, prev, new)>>),
         UNCHANGED <<phase, clears, credits, pendingSelfDestruct>>
  PROVE  DestructRight'
<1> DEFINE e == MutationEvent(currentFrameID, k, prev, new)
<1>1. e \in EmesEvent
  BY CurrentTyped, MutationTyped
<1>2. e.type = "Mutation" /\ EmitAfter(events, errorLog, currentFrameID, <<e>>)
  BY DEF MutationEvent, emit
<1> HIDE DEF e
<1> QED BY <1>1, <1>2, PlainHookRight

LEMMA ChangeStateRight ==
  ASSUME HostInvariant, DestructRight, NEW k \in Key, NEW v \in Value, ChangeState(k, v)
  PROVE  DestructRight'
<1>1. world[k] \in Value
  BY WriteTyped DEF ChangeState
<1>2. phase = "tx" /\ UNCHANGED <<phase, clears, credits>>
  BY DEF ChangeState, EvmWrite
<1>3. CASE k.kind = "Balance" /\ OnBalanceChange(k.address, world[k], v, FALSE)
  <2>1. [kind |-> "Balance", address |-> k.address, slot |-> NoSlot] \in Key
    BY DEF Key
  <2> QED BY <1>1, <1>2, <1>3, <2>1, MutationRight DEF OnBalanceChange
<1>4. CASE k.kind = "Nonce" /\ OnNonceChangeV2(k.address, world[k], v)
  <2>1. [kind |-> "Nonce", address |-> k.address, slot |-> NoSlot] \in Key
    BY DEF Key
  <2> QED BY <1>1, <1>2, <1>4, <2>1, MutationRight DEF OnNonceChangeV2
<1>5. CASE k.kind = "Code" /\ OnCodeChangeV2(k.address, world[k], v, FALSE)
  <2>1. [kind |-> "Code", address |-> k.address, slot |-> NoSlot] \in Key
    BY DEF Key
  <2>2. UNCHANGED pendingSelfDestruct
    BY <1>5 DEF OnCodeChangeV2
  <2> QED BY <1>1, <1>2, <1>5, <2>1, <2>2, MutationRight DEF OnCodeChangeV2
<1>6. CASE k.kind = "Storage" /\ OnStorageChange(k.address, k.slot, world[k], v)
  <2>1. [kind |-> "Storage", address |-> k.address, slot |-> k.slot] \in Key
    BY <1>6 DEF Key
  <2> QED BY <1>1, <1>2, <1>6, <2>1, MutationRight DEF OnStorageChange
<1> QED BY <1>3, <1>4, <1>5, <1>6 DEF ChangeState

\* A mutation keeps its frame and its cell when it is given a number.
LEMMA MutationStamped ==
  ASSUME NEW f, NEW k, NEW prev, NEW new, NEW n
  PROVE  /\ SetSequence(MutationEvent(f, k, prev, new), n).type = "Mutation"
         /\ SetSequence(MutationEvent(f, k, prev, new), n).frameID = f
         /\ SetSequence(MutationEvent(f, k, prev, new), n).key = k
  BY DEF SetSequence, MutationEvent

LEMMA AnnouncementStamped ==
  ASSUME NEW f, NEW a, NEW n
  PROVE  /\ SetSequence(SelfDestructEvent(f, a), n).type = "SelfDestruct"
         /\ SetSequence(SelfDestructEvent(f, a), n).frameID = f
         /\ SetSequence(SelfDestructEvent(f, a), n).address = a
  BY DEF SetSequence, SelfDestructEvent

\* SELFDESTRUCT clears code: the account is pending, as the latest of its frame.
LEMMA ClearCodeRight ==
  ASSUME HostInvariant, DestructRight, NEW a \in Address, ClearCode(a)
  PROVE  DestructRight'
<1> SUFFICES ASSUME ~panicked' PROVE DestructRight'
  BY DEF DestructRight
<1> DEFINE k == [kind |-> "Code", address |-> a, slot |-> NoSlot]
           f == currentFrameID
           g == globalSequence
           e == MutationEvent(f, k, world[k], Cleared)
           x == SetSequence(e, g)
<1>1. k \in Key /\ k.address = a
  BY DEF Key
<1>2. world[k] \in Value /\ f \in U64 /\ g \in U64 /\ g \in Nat /\ events \in Seq(EmesEvent)
      /\ clears \cup credits \subseteq Nat
  BY <1>1, WriteTyped, CurrentTyped, HostAssumption
     DEF ClearCode, HostInvariant, HostTypeOK, U64
<1>3. e \in EmesEvent
  BY <1>1, <1>2, MutationTyped, HostAssumption
<1>4. /\ ~panicked /\ phase = "tx" /\ phase' = "tx" /\ credits' = credits
      /\ clears' = clears \cup {g}
      /\ emit(<<e>>)
      /\ pendingSelfDestruct' = [y \in DOMAIN pendingSelfDestruct \cup {f} |->
                                   IF y = f THEN a ELSE pendingSelfDestruct[y]]
  BY DEF ClearCode, EvmWrite, OnCodeChangeV2
<1>5. x \in EmesEvent /\ x.sequence = g
  BY <1>2, <1>3, Stamped
<1>6. x.type = "Mutation" /\ x.frameID = f /\ x.key = k
  BY MutationStamped
<1> HIDE DEF k
<1>7. EmitAfter(events, errorLog, currentFrameID, <<e>>)
  BY <1>4 DEF emit
<1> HIDE DEF e
<1>8. events' = Append(events, x) /\ globalSequence' = g + 1
  BY <1>2, <1>3, <1>4, <1>7, OneEvent
<1>9. /\ Logged /\ AllPaired(events, clears, credits)
      /\ PendingRight(events, clears, pendingSelfDestruct)
  BY <1>4 DEF DestructRight
<1>10. Agree(events, clears, clears') /\ x.sequence \in clears' /\ x.sequence \notin credits
  <2>1. Agree(events, clears, clears \cup {g})
    BY <1>2, <1>4, NumbersFresh
  <2> QED BY <2>1, <1>2, <1>4, <1>5, <1>9 DEF Logged
<1> HIDE DEF x, g, f
<1>11. AllPaired(Append(events, x), clears', credits)
  BY <1>2, <1>5, <1>6, <1>9, <1>10, PairsKept
<1>12. PendingRight(Append(events, x), clears', pendingSelfDestruct')
  <2>1. PendingRight(Append(events, x), clears',
          [y \in DOMAIN pendingSelfDestruct \cup {x.frameID} |->
             IF y = x.frameID THEN x.key.address ELSE pendingSelfDestruct[y]])
    BY <1>2, <1>5, <1>6, <1>9, <1>10, PendingCleared
  <2>2. pendingSelfDestruct' = [y \in DOMAIN pendingSelfDestruct \cup {x.frameID} |->
             IF y = x.frameID THEN x.key.address ELSE pendingSelfDestruct[y]]
    BY <1>1, <1>4, <1>6
  <2> QED BY <2>1, <2>2
<1>13. Logged'
  BY <1>2, <1>4, <1>8, <1>9 DEF Logged, g
<1> QED BY <1>4, <1>8, <1>11, <1>12, <1>13 DEF DestructRight

\* SELFDESTRUCT credits: what waits in the frame is announced.
LEMMA CreditBeneficiaryRight ==
  ASSUME HostInvariant, DestructRight, NEW a \in Address, NEW v \in Value,
         CreditBeneficiary(a, v)
  PROVE  DestructRight'
<1> SUFFICES ASSUME ~panicked' PROVE DestructRight'
  BY DEF DestructRight
<1> DEFINE k == [kind |-> "Balance", address |-> a, slot |-> NoSlot]
           f == currentFrameID
           g == globalSequence
           pending == pendingSelfDestruct
           e == MutationEvent(f, k, world[k], v)
           d == SelfDestructEvent(f, pending[f])
           x == SetSequence(e, g)
           y == SetSequence(d, g + 1)
<1>1. k \in Key
  BY DEF Key
<1>2. world[k] \in Value /\ f \in U64 /\ g \in U64 /\ g \in Nat /\ events \in Seq(EmesEvent)
      /\ clears \cup credits \subseteq Nat /\ PendingTypes
  BY <1>1, WriteTyped, CurrentTyped
     DEF CreditBeneficiary, HostInvariant, HostTypeOK, U64, PendingTypes
<1>3. e \in EmesEvent
  BY <1>1, <1>2, MutationTyped
<1>4. /\ ~panicked /\ phase = "tx" /\ phase' = "tx" /\ clears' = clears
      /\ credits' = credits \cup {g}
      /\ OnBalanceChange(a, world[k], v, TRUE)
  BY DEF CreditBeneficiary, EvmWrite, OnBalanceChange
<1>5. \/ f \in DOMAIN pending /\ emit(<<e, d>>) /\ pending' = Without(pending, f)
      \/ f \notin DOMAIN pending /\ emit(<<e>>) /\ pending' = pending
  BY <1>4 DEF OnBalanceChange
<1>6. x \in EmesEvent /\ x.sequence = g
  BY <1>2, <1>3, Stamped
<1>7. x.type = "Mutation" /\ x.frameID = f
  BY MutationStamped
<1> HIDE DEF k
<1>8. /\ Logged /\ AllPaired(events, clears, credits)
      /\ PendingRight(events, clears, pending)
  BY <1>4 DEF DestructRight
<1>9. PendingIn(events, clears, pending, f)
  BY <1>2, <1>8 DEF PendingRight
<1>10. Agree(events, credits, credits') /\ g \in credits' /\ g \notin clears
       /\ g + 1 \notin credits' /\ g + 1 \notin clears
  <2>1. Agree(events, credits, credits \cup {g})
    BY <1>2, <1>4, NumbersFresh
  <2>2. \A n \in clears \cup credits : n < g /\ n \in Nat
    BY <1>2, <1>8 DEF Logged
  <2> HIDE DEF g
  <2> QED BY <2>1, <2>2, <1>2, <1>4
<1>11. CASE f \notin DOMAIN pending /\ emit(<<e>>) /\ pending' = pending
  <2>1. EmitAfter(events, errorLog, currentFrameID, <<e>>)
    BY <1>11 DEF emit
  <2> HIDE DEF e
  <2>2. events' = Append(events, x) /\ globalSequence' = g + 1
    BY <1>2, <1>3, <2>1, OneEvent
  <2> HIDE DEF x
  <2>3. Waits(events, clears, x.frameID) = {}
    BY <1>7, <1>9, <1>11 DEF PendingIn
  <2>4. AllPaired(Append(events, x), clears, credits')
    BY <1>2, <1>6, <1>7, <1>8, <1>10, <2>3, PairsCredited
  <2>5. PendingRight(Append(events, x), clears, pending)
    BY <1>2, <1>6, <1>7, <1>8, <1>10, PendingKept
  <2>6. Logged'
    BY <1>2, <1>4, <1>8, <2>2 DEF Logged
  <2> QED BY <1>4, <1>11, <2>2, <2>4, <2>5, <2>6 DEF DestructRight
<1>12. CASE f \in DOMAIN pending /\ emit(<<e, d>>) /\ pending' = Without(pending, f)
  <2>1. EmitAfter(events, errorLog, currentFrameID, <<e, d>>)
    BY <1>12 DEF emit
  <2>2. pending[f] \in Address
    BY <1>2, <1>12 DEF PendingTypes
  <2>3. d \in EmesEvent
    BY <1>2, <2>2, WidthAssumption DEF SelfDestructEvent, EmesEvent, U64
  <2>4. y.type = "SelfDestruct" /\ y.frameID = f /\ y.address = pending[f]
    BY AnnouncementStamped
  <2> HIDE DEF e, d
  <2>5. events' = Append(Append(events, x), y) /\ globalSequence' = g + 2 /\ g + 1 \in U64
    BY <1>2, <1>3, <2>1, <2>3, TwoEvents
  <2>6. y \in EmesEvent /\ y.sequence = g + 1
    BY <2>3, <2>5, Stamped
  <2>7. PICK q \in 1..Len(events) :
          Latest(Waits(events, clears, f), q) /\ pending[f] = events[q].key.address
    BY <1>9, <1>12 DEF PendingIn
  <2> HIDE DEF x, y
  <2>8. AllPaired(Append(Append(events, x), y), clears, credits')
    BY <1>2, <1>6, <1>7, <1>8, <1>10, <2>4, <2>6, <2>7, PairsAnnounced
  <2>9. PendingRight(Append(Append(events, x), y), clears, Without(pending, f))
    <3>1. PendingRight(Append(events, x), clears, pending)
      BY <1>2, <1>6, <1>7, <1>8, <1>10, PendingKept
    <3>2. Append(events, x) \in Seq(EmesEvent)
      BY <1>2, <1>6
    <3> QED BY <3>1, <3>2, <1>10, <2>4, <2>6, PendingAnnounced
  <2>10. Logged'
    BY <1>2, <1>4, <1>8, <2>5 DEF Logged
  <2> QED BY <1>4, <1>12, <2>5, <2>8, <2>9, <2>10 DEF DestructRight
<1> QED BY <1>5, <1>11, <1>12

\* The transaction ends: nothing is pending (OnTxEnd).
LEMMA EndTxRight ==
  ASSUME HostInvariant, DestructRight, NEW failed \in BOOLEAN, EndTx(failed)
  PROVE  DestructRight'
<1> SUFFICES ASSUME ~panicked' PROVE DestructRight'
  BY DEF DestructRight
<1> DEFINE e == TransactionEndEvent(failed)
           log == IF frameStack # << >> /\ globalSequence < U64_MAX
                  THEN Append(errorLog, Diagnostic("UnexpectedExit", currentFrameID))
                  ELSE errorLog
<1>1. e \in EmesEvent /\ e.type = "TransactionEnd"
  BY WidthAssumption DEF TransactionEndEvent, EmesEvent, U64
<1>2. /\ ~panicked /\ phase' = "block" /\ UNCHANGED <<clears, credits>>
      /\ EmitAfter(events, log, currentFrameID, <<e>>)
      /\ DOMAIN pendingSelfDestruct' = {}
  BY DEF EndTx, EvmTxEnd, OnTxEnd
<1> HIDE DEF e, log
<1>3. Logged' /\ AllPaired(events, clears, credits)'
  BY <1>1, <1>2, PlainRight
<1> QED BY <1>2, <1>3 DEF DestructRight

LEMMA EndBlockRight ==
  ASSUME HostInvariant, DestructRight, EndBlock
  PROVE  DestructRight'
<1> SUFFICES ASSUME ~panicked' PROVE DestructRight'
  BY DEF DestructRight
<1>1. BlockCommitEvent \in EmesEvent /\ BlockCommitEvent.type = "BlockCommit"
  BY WidthAssumption DEF BlockCommitEvent, EmesEvent, U64
<1>2. /\ ~panicked /\ phase = "block" /\ phase' = "end"
      /\ UNCHANGED <<clears, credits, pendingSelfDestruct>>
      /\ EmitAfter(events, errorLog, currentFrameID, <<BlockCommitEvent>>)
  BY DEF EndBlock, EvmBlockEnd, OnBlockEnd, emit
<1>3. Logged' /\ AllPaired(events, clears, credits)'
  BY <1>1, <1>2, PlainRight
<1> QED BY <1>2, <1>3 DEF DestructRight

\* Self-destructions are announced when, and only when, a frame cleared code
\* and then credited, with the account whose code went (OnBalanceChange,
\* OnCodeChangeV2, OnTxEnd).
THEOREM DestructsArePaired == HostSpec => []DestructsPaired
<1>1. HostInit => DestructRight
  <2> SUFFICES ASSUME HostInit PROVE DestructRight
    OBVIOUS
  <2>1. events = << >> /\ clears = {} /\ credits = {} /\ phase = "start"
        /\ DOMAIN pendingSelfDestruct = {}
    BY DEF HostInit, TracerInit, EvmInit
  <2>2. Len(events) = 0
    BY <2>1
  <2> QED BY <2>1, <2>2 DEF DestructRight, Logged, AllPaired
<1>2. HostInvariant /\ DestructRight /\ [HostStep \/ Stopped]_hostVars => DestructRight'
  <2> SUFFICES ASSUME HostInvariant, DestructRight, [HostStep \/ Stopped]_hostVars
               PROVE  DestructRight'
    OBVIOUS
  <2>1. CASE StartBlock
    BY <2>1, StartBlockRight
  <2>2. CASE StartTx
    BY <2>2, StartTxRight
  <2>3. CASE EnterFrame
    BY <2>3, EnterFrameRight
  <2>4. CASE \E reverted \in BOOLEAN : ExitFrame(reverted)
    BY <2>4, ExitFrameRight
  <2>5. CASE \E k \in Key, v \in Value : ChangeState(k, v)
    BY <2>5, ChangeStateRight
  <2>6. CASE \E a \in Address : ClearCode(a)
    BY <2>6, ClearCodeRight
  <2>7. CASE \E a \in Address, v \in Value : CreditBeneficiary(a, v)
    BY <2>7, CreditBeneficiaryRight
  <2>8. CASE \E failed \in BOOLEAN : EndTx(failed)
    BY <2>8, EndTxRight
  <2>9. CASE EndBlock
    BY <2>9, EndBlockRight
  <2>10. CASE NextBlock
    <3>1. phase # "tx" /\ phase' = "start" /\ UNCHANGED <<tracerVars, clears, credits>>
      BY <2>10 DEF NextBlock
    <3> QED BY <3>1 DEF DestructRight, Logged, tracerVars
  <2>11. CASE UNCHANGED hostVars
    BY <2>11 DEF DestructRight, Logged, hostVars, evmVars, tracerVars
  <2> QED BY <2>1, <2>2, <2>3, <2>4, <2>5, <2>6, <2>7, <2>8, <2>9, <2>10, <2>11
          DEF HostStep, Stopped
<1>3. HostInvariant /\ DestructRight => DestructsPaired
  <2> SUFFICES ASSUME HostInvariant, DestructRight, ~panicked, NEW p \in DOMAIN events
               PROVE  PairedAt(events, clears, credits, p)
    BY DEF DestructsPaired
  <2>1. p \in 1..Len(events)
    BY DEF HostInvariant, HostTypeOK
  <2> QED BY <2>1 DEF DestructRight, AllPaired, PairedLatest
<1> QED BY <1>1, <1>2, <1>3, TracerKeepsStep, PTL DEF HostSpec



-----------------------------------------------------------------------------
(***************************************************************************)
(* II.  The pipeline behind it.                                            *)
(*                                                                         *)
(* The fixture: what an event becomes when it is written and read again.   *)
(***************************************************************************)

Reread(e) == GoEvent([type |-> Kind(e), data |-> e])

\* The fields that translate reads survive the way through the file, and the
\* four names of a mutation become one type again (wire.rs, TaggedEvent).
LEMMA RereadMutation ==
  ASSUME NEW e \in EmesEvent, e.type = "Mutation"
  PROVE  /\ Reread(e).type = "Mutation" /\ Reread(e).frameID = e.frameID
         /\ Reread(e).key = e.key /\ Reread(e).before = e.before
         /\ Reread(e).after = e.after
<1>1. e.key.kind \in {"Balance", "Nonce", "Code", "Storage"}
  BY DEF EmesEvent, Key
<1> DEFINE kind == MutationKind[e.key.kind]
           fields == {"frameID", "key", "before", "after"}
<1>2. DataFields[kind] = fields
  BY <1>1 DEF MutationKind, DataFields
<1>3. Reread(e) = [f \in {"type"} \cup fields |->
                     CASE f # "type" -> e[f]
                       [] f = "type" /\ "key" \in fields -> "Mutation"
                       [] OTHER -> kind]
  BY <1>2 DEF Reread, GoEvent, Kind
<1> QED BY <1>3

\* The others keep their names.
LEMMA RereadOther ==
  ASSUME NEW e \in EmesEvent, e.type # "Mutation"
  PROVE  /\ Reread(e).type = e.type
         /\ \A f \in DataFields[e.type] : Reread(e)[f] = e[f]
         /\ e.type \in DOMAIN DataFields
<1>1. e.type \in {"BlockStart", "BlockCommit", "TransactionStart", "TransactionEnd",
                  "FrameEnter", "FrameExit", "AccountCreated", "SelfDestruct"}
  BY DEF EmesEvent
<1> DEFINE fields == DataFields[e.type]
<1>2. "key" \notin fields /\ "type" \notin fields /\ e.type \in DOMAIN DataFields
  BY <1>1 DEF DataFields
<1>3. Reread(e) = [f \in {"type"} \cup fields |->
                     CASE f # "type" -> e[f]
                       [] f = "type" /\ "key" \in fields -> "Mutation"
                       [] OTHER -> e.type]
  BY DEF Reread, GoEvent, Kind
<1> HIDE DEF fields
<1>4. Reread(e).type = e.type /\ \A f \in fields : Reread(e)[f] = e[f]
  BY <1>2, <1>3
<1> QED BY <1>2, <1>4 DEF fields

\* So the bridge does with the parsed event what it does with the event.
LEMMA RereadTranslated ==
  ASSUME NEW STATE e, e \in EmesEvent, Translate(Reread(e))
  PROVE  Translate(e)
<1> DEFINE d == Reread(e)
<1>1. bridge_result = "running"
  BY DEF Translate
<1>2. CASE e.type = "Mutation"
  <2>1. /\ d.type = e.type /\ d.frameID = e.frameID /\ d.key = e.key
        /\ d.before = e.before /\ d.after = e.after
    BY <1>2, RereadMutation
  <2> HIDE DEF d
  <2>2. TranslateMutation(d)
    BY <1>2, <2>1 DEF Translate, d
  <2>3. TranslateMutation(e)
    BY <2>1, <2>2 DEF TranslateMutation
  <2> QED BY <1>1, <1>2, <2>3 DEF Translate
<1>3. CASE e.type # "Mutation"
  <2>1. d.type = e.type /\ \A f \in DataFields[e.type] : d[f] = e[f]
    BY <1>3, RereadOther
  <2> HIDE DEF d
  <2>2. Translate(d)
    BY DEF d
  <2>3. CASE e.type = "BlockStart"
    <3>1. d.number = e.number
      BY <2>1, <2>3 DEF DataFields
    <3> QED BY <1>1, <2>1, <2>2, <2>3, <3>1 DEF Translate, TranslateBlockStart
  <2>4. CASE e.type = "BlockCommit"
    BY <1>1, <2>1, <2>2, <2>4 DEF Translate, TranslateBlockCommit
  <2>5. CASE e.type = "TransactionStart"
    <3>1. d.txIndex = e.txIndex /\ d.hash = e.hash
      BY <2>1, <2>5 DEF DataFields
    <3>2. TranslateTransactionStart(d)
      BY <2>1, <2>2, <2>5 DEF Translate
    <3>3. TranslateTransactionStart(e)
      BY <3>1, <3>2 DEF TranslateTransactionStart
    <3> QED BY <1>1, <2>5, <3>3 DEF Translate
  <2>6. CASE e.type = "TransactionEnd"
    BY <1>1, <2>1, <2>2, <2>6 DEF Translate, TranslateTransactionEnd
  <2>7. CASE e.type = "FrameEnter"
    <3>1. d.frameID = e.frameID /\ d.depth = e.depth
      BY <2>1, <2>7 DEF DataFields
    <3>2. TranslateFrameEnter(d)
      BY <2>1, <2>2, <2>7 DEF Translate
    <3>3. TranslateFrameEnter(e)
      BY <3>1, <3>2 DEF TranslateFrameEnter
    <3> QED BY <1>1, <2>7, <3>3 DEF Translate
  <2>8. CASE e.type = "FrameExit"
    <3>1. d.frameID = e.frameID /\ d.reverted = e.reverted
      BY <2>1, <2>8 DEF DataFields
    <3>2. TranslateFrameExit(d)
      BY <2>1, <2>2, <2>8 DEF Translate
    <3>3. TranslateFrameExit(e)
      BY <3>1, <3>2 DEF TranslateFrameExit
    <3> QED BY <1>1, <2>8, <3>3 DEF Translate
  <2>9. CASE e.type = "AccountCreated"
    <3>1. d.frameID = e.frameID /\ d.address = e.address
      BY <2>1, <2>9 DEF DataFields
    <3> QED BY <1>1, <2>1, <2>2, <2>9, <3>1 DEF Translate, TranslateAccountCreated
  <2>10. CASE e.type = "SelfDestruct"
    <3>1. d.frameID = e.frameID /\ d.address = e.address
      BY <2>1, <2>10 DEF DataFields
    <3> QED BY <1>1, <2>1, <2>2, <2>10, <3>1 DEF Translate, TranslateSelfDestruct
  <2>11. e.type \in {"BlockStart", "BlockCommit", "TransactionStart", "TransactionEnd",
                     "FrameEnter", "FrameExit", "AccountCreated", "SelfDestruct"}
    BY <1>3 DEF EmesEvent
  <2> QED BY <2>3, <2>4, <2>5, <2>6, <2>7, <2>8, <2>9, <2>10, <2>11
<1> QED BY <1>2, <1>3

-----------------------------------------------------------------------------
(***************************************************************************)
(* What a stream tells of an execution: a view of the state before every   *)
(* event and after the last, of which each event is a step.                *)
(***************************************************************************)

\* The net effects of the finished transactions.
Effect == [before : World, after : World]

\* The state, the states at the entries of the open frames, whether a
\* transaction is open and from which state, and what the finished ones did.
View == [world : World, marks : Seq(World), open : BOOLEAN, base : World, log : Seq(Effect)]

Same(a, b, fields) == \A f \in fields : b[f] = a[f]

\* A mutation of the open transaction is tagged with no frame exactly when none
\* is open.
Tagged(e, a) == a.open /\ (e.frameID = NO_FRAME <=> a.marks = << >>)

\* Event e leads from view a to view b.
Ran(e, a, b) ==
  \/ e.type \in {"BlockStart", "BlockCommit"} /\ b = a
  \/ /\ e.type = "TransactionStart" /\ ~a.open
     /\ b.open /\ b.marks = << >> /\ b.base = a.world /\ Same(a, b, {"world", "log"})
  \/ /\ e.type = "TransactionEnd" /\ a.open /\ a.marks = << >>
     /\ ~b.open /\ b.log = Append(a.log, [before |-> a.base, after |-> a.world])
     /\ Same(a, b, {"world", "marks", "base"})
  \/ /\ e.type = "FrameEnter" /\ a.open
     /\ b.marks = Append(a.marks, a.world) /\ Same(a, b, {"world", "open", "base", "log"})
  \/ /\ e.type = "FrameExit" /\ a.open /\ a.marks # << >>
     /\ b.marks = SubSeq(a.marks, 1, Len(a.marks) - 1)
     /\ b.world = IF e.reverted THEN a.marks[Len(a.marks)] ELSE a.world
     /\ Same(a, b, {"open", "base", "log"})
  \/ /\ e.type = "Mutation" /\ Tagged(e, a) /\ e.before = a.world[e.key]
     /\ b.world = [a.world EXCEPT ![e.key] = e.after]
     /\ Same(a, b, {"marks", "open", "base", "log"})
  \/ e.type = "SelfDestruct" /\ Tagged(e, a) /\ b = a

Fresh(v) == v.log = << >> /\ ~v.open /\ v.marks = << >>

\* The views g explain the stream s.
Run(s, g) ==
  /\ g \in [0..Len(s) -> View]
  /\ Fresh(g[0])
  /\ \A i \in 1..Len(s) : Ran(s[i], g[i-1], g[i])

Tells(s, v) == \E g : Run(s, g) /\ g[Len(s)] = v

\* An event more is a view more.
LEMMA RunNext ==
  ASSUME NEW s \in Seq(EmesEvent), NEW e \in EmesEvent, NEW a, Tells(s, a),
         NEW b \in View, Ran(e, a, b)
  PROVE  Tells(Append(s, e), b)
<1> DEFINE n == Len(s)
           r == Append(s, e)
<1>1. PICK g : Run(s, g) /\ g[n] = a
  BY DEF Tells
<1> DEFINE h == [i \in 0..n + 1 |-> IF i <= n THEN g[i] ELSE b]
<1>2. n \in Nat /\ Len(r) = n + 1 /\ r[n + 1] = e /\ \A i \in 1..n : r[i] = s[i]
  OBVIOUS
<1> HIDE DEF n, r
<1>3. g \in [0..n -> View] /\ Fresh(g[0]) /\ \A i \in 1..n : Ran(s[i], g[i-1], g[i])
  BY <1>1 DEF Run, n
<1>4. h \in [0..n + 1 -> View] /\ h[n + 1] = b /\ \A i \in 0..n : h[i] = g[i]
  BY <1>2, <1>3
<1> HIDE DEF h
<1>5. ASSUME NEW i \in 1..n + 1
      PROVE  Ran(r[i], h[i-1], h[i])
  <2>1. CASE i = n + 1
    <3>1. i - 1 = n /\ n \in 0..n
      BY <1>2, <2>1
    <3> QED BY <1>1, <1>2, <1>4, <2>1, <3>1 DEF n
  <2>2. CASE i # n + 1
    <3>1. i \in 1..n /\ i - 1 \in 0..n /\ i \in 0..n
      BY <1>2, <2>2
    <3> QED BY <1>2, <1>3, <1>4, <3>1
  <2> QED BY <2>1, <2>2
<1>6. 0 \in 0..n
  BY <1>2
<1> QED BY <1>2, <1>3, <1>4, <1>5, <1>6 DEF Tells, Run, r

\* An empty stream tells a fresh state.
LEMMA RunNone ==
  ASSUME NEW v \in View, Fresh(v)
  PROVE  Tells(<< >>, v)
<1> DEFINE g == [i \in 0..0 |-> v]
<1>1. Len(<< >>) = 0 /\ g \in [0..0 -> View] /\ g[0] = v
  OBVIOUS
<1> HIDE DEF g
<1>2. Len(<< >>) \in Nat /\ 1..0 = {}
  OBVIOUS
<1>3. Run(<< >>, g) /\ g[Len(<< >>)] = v
  BY <1>1, <1>2 DEF Run
<1> QED BY <1>3 DEF Tells

-----------------------------------------------------------------------------
(***************************************************************************)
(* The tracer's stream tells what the node is doing.                       *)
(***************************************************************************)

MarksOf(shots) == [j \in 1..Len(shots) |-> shots[j].state]

Now == [world |-> world, marks |-> MarksOf(snapshots), open |-> phase = "tx",
        base |-> txBase, log |-> txLog]

Told ==
  /\ phase # "tx" => snapshots = << >>
  /\ txLog \in Seq(Effect)
  /\ ~panicked => Tells(events, Now)

LEMMA MarksTyped ==
  ASSUME NEW q \in Seq(Snapshot)
  PROVE  /\ MarksOf(q) \in Seq(World) /\ Len(MarksOf(q)) = Len(q)
         /\ \A j \in 1..Len(q) : MarksOf(q)[j] = q[j].state
         /\ MarksOf(q) = << >> <=> q = << >>
<1>1. Len(q) \in Nat /\ \A j \in 1..Len(q) : q[j] \in Snapshot
  OBVIOUS
<1>2. \A j \in 1..Len(q) : q[j].state \in World
  BY <1>1 DEF Snapshot
<1>3. /\ MarksOf(q) \in Seq(World) /\ Len(MarksOf(q)) = Len(q)
      /\ \A j \in 1..Len(q) : MarksOf(q)[j] = q[j].state
  BY <1>1, <1>2 DEF MarksOf
<1> QED BY <1>1, <1>3

LEMMA MarksPushed ==
  ASSUME NEW q \in Seq(Snapshot), NEW c \in Snapshot
  PROVE  MarksOf(Append(q, c)) = Append(MarksOf(q), c.state)
<1>1. /\ Append(q, c) \in Seq(Snapshot) /\ Len(Append(q, c)) = Len(q) + 1
      /\ \A j \in 1..Len(q) : Append(q, c)[j] = q[j]
      /\ Append(q, c)[Len(q) + 1] = c /\ Len(q) \in Nat
  BY Pushed
<1>2. c.state \in World
  BY DEF Snapshot
<1> DEFINE r == Append(q, c)
           m == MarksOf(q)
           d == c.state
<1>3. /\ MarksOf(r) \in Seq(World) /\ Len(MarksOf(r)) = Len(q) + 1
      /\ \A j \in 1..Len(q) + 1 : MarksOf(r)[j] = r[j].state
  BY <1>1, MarksTyped
<1>4. m \in Seq(World) /\ Len(m) = Len(q) /\ \A j \in 1..Len(q) : m[j] = q[j].state
  BY MarksTyped
<1> HIDE DEF r, m, d
<1>5. /\ Append(m, d) \in Seq(World) /\ Len(Append(m, d)) = Len(q) + 1
      /\ \A j \in 1..Len(q) : Append(m, d)[j] = m[j]
      /\ Append(m, d)[Len(q) + 1] = d
  BY <1>2, <1>4, Pushed DEF d
<1>6. \A j \in 1..Len(q) + 1 : MarksOf(r)[j] = Append(m, d)[j]
  <2> TAKE j \in 1..Len(q) + 1
  <2>1. CASE j = Len(q) + 1
    BY <2>1, <1>1, <1>3, <1>5 DEF r, d
  <2>2. CASE j # Len(q) + 1
    <3>1. j \in 1..Len(q)
      BY <1>1, <2>2
    <3> QED BY <3>1, <1>1, <1>3, <1>4, <1>5 DEF r
  <2> QED BY <2>1, <2>2
<1>7. MarksOf(r) = Append(m, d)
  BY <1>3, <1>5, <1>6, SeqEqual
<1> QED BY <1>7 DEF r, m, d

LEMMA MarksPopped ==
  ASSUME NEW q \in Seq(Snapshot), q # << >>
  PROVE  /\ MarksOf(SubSeq(q, 1, Len(q) - 1)) = SubSeq(MarksOf(q), 1, Len(MarksOf(q)) - 1)
         /\ MarksOf(q)[Len(MarksOf(q))] = q[Len(q)].state
<1> DEFINE r == SubSeq(q, 1, Len(q) - 1)
           m == MarksOf(q)
           t == SubSeq(m, 1, Len(m) - 1)
<1>1. /\ r \in Seq(Snapshot) /\ Len(r) = Len(q) - 1 /\ Len(q) \in Nat \ {0}
      /\ \A j \in 1..Len(q) - 1 : r[j] = q[j]
  BY Popped
<1>2. /\ m \in Seq(World) /\ Len(m) = Len(q) /\ m # << >>
      /\ \A j \in 1..Len(q) : m[j] = q[j].state
  BY MarksTyped
<1> HIDE DEF r, m
<1>3. /\ t \in Seq(World) /\ Len(t) = Len(m) - 1
      /\ \A j \in 1..Len(m) - 1 : t[j] = m[j]
  BY <1>2, Popped
<1> HIDE DEF t
<1>4. /\ MarksOf(r) \in Seq(World) /\ Len(MarksOf(r)) = Len(r)
      /\ \A j \in 1..Len(r) : MarksOf(r)[j] = r[j].state
  BY <1>1, MarksTyped
<1>5. \A j \in 1..Len(q) - 1 : MarksOf(r)[j] = t[j]
  <2> TAKE j \in 1..Len(q) - 1
  <2>1. j \in 1..Len(q) /\ j \in 1..Len(m) - 1 /\ j \in 1..Len(r)
    BY <1>1, <1>2
  <2> QED BY <2>1, <1>1, <1>2, <1>3, <1>4
<1>6. MarksOf(r) = t
  BY <1>1, <1>2, <1>3, <1>4, <1>5, SeqEqual
<1>7. m[Len(m)] = q[Len(q)].state
  BY <1>1, <1>2
<1> QED BY <1>6, <1>7 DEF r, m, t

LEMMA ViewTyped ==
  ASSUME NEW w \in World, NEW q \in Seq(Snapshot), NEW p \in BOOLEAN, NEW b \in World,
         NEW l \in Seq(Effect)
  PROVE  [world |-> w, marks |-> MarksOf(q), open |-> p, base |-> b, log |-> l] \in View
  BY MarksTyped DEF View

LEMMA NowFields ==
  /\ Now.world = world /\ Now.marks = MarksOf(snapshots) /\ Now.base = txBase
  /\ Now.log = txLog /\ Now.open = (phase = "tx")
  /\ Now'.world = world' /\ Now'.marks = MarksOf(snapshots') /\ Now'.base = txBase'
  /\ Now'.log = txLog' /\ Now'.open = (phase' = "tx")
  BY DEF Now

\* The frame that events are tagged with is none when none is open.
LEMMA NoFrame ==
  ASSUME HostInvariant
  PROVE  currentFrameID = NO_FRAME <=> snapshots = << >>
<1>1. /\ frameStack \in Seq(0..U32_MAX) /\ Len(frameStack) = Len(snapshots)
      /\ snapshots \in Seq(Snapshot)
  BY DEF HostInvariant, HostTypeOK, EvmTypeOK, StacksAligned
<1>2. frameStack = << >> <=> snapshots = << >>
  BY <1>1
<1>3. frameStack # << >> => frameStack[Len(frameStack)] \in 0..U32_MAX
  <2> DEFINE S == 0..U32_MAX
  <2>1. frameStack \in Seq(S)
    BY <1>1
  <2> HIDE DEF S
  <2>2. frameStack # << >> => frameStack[Len(frameStack)] \in S
    BY <2>1, Popped
  <2> QED BY <2>2 DEF S
<1>4. \A n \in 0..U32_MAX : n # NO_FRAME
  BY WidthAssumption DEF NO_FRAME
<1> QED BY <1>2, <1>3, <1>4 DEF currentFrameID

\* A hook that emits one event tells of one step.
LEMMA HookTold ==
  ASSUME HostInvariant, EvmTypeOK', Told, ~panicked, NEW STATE e, e \in EmesEvent,
         NEW STATE log, NEW STATE frame, EmitAfter(events, log, frame, <<e>>),
         phase' # "tx" => snapshots' = << >>, txLog' \in Seq(Effect),
         Ran(SetSequence(e, globalSequence), Now, Now')
  PROVE  Told'
<1> SUFFICES ASSUME ~panicked' PROVE Tells(events', Now')
  BY DEF Told
<1> DEFINE x == SetSequence(e, globalSequence)
<1>1. events \in Seq(EmesEvent) /\ globalSequence \in U64
  BY DEF HostInvariant, HostTypeOK
<1>2. x \in EmesEvent
  BY <1>1, Stamped
<1>3. events' = Append(events, x)
  BY <1>1, OneEvent
<1>4. Now' \in View
  BY ViewTyped DEF EvmTypeOK, Now
<1>5. Tells(events, Now)
  BY DEF Told
<1>6. Ran(x, Now, Now')
  OBVIOUS
<1> HIDE DEF x
<1>7. Tells(Append(events, x), Now')
  BY <1>1, <1>2, <1>4, <1>5, <1>6, RunNext
<1> QED BY <1>3, <1>7

LEMMA StartBlockTold ==
  ASSUME HostInvariant, HostInvariant', Told, StartBlock
  PROVE  Told'
<1>1. /\ ~panicked /\ phase = "start" /\ phase' = "block" /\ snapshots = << >>
      /\ txLog' = << >> /\ UNCHANGED <<world, snapshots, txBase>>
      /\ EmitAfter(<< >>, << >>, currentFrameID, <<BlockStartEvent(blocks + 1)>>)
  BY DEF StartBlock, EvmBlockStart, OnBlockStart, Told
<1> SUFFICES ASSUME ~panicked' PROVE Tells(events', Now')
  BY <1>1 DEF Told
<1> DEFINE e == BlockStartEvent(blocks + 1)
           x == SetSequence(e, globalSequence)
<1>2. e \in EmesEvent /\ e.type = "BlockStart" /\ globalSequence \in U64
  BY WidthAssumption DEF HostInvariant, HostTypeOK, BlockStartEvent, EmesEvent, U64
<1>3. x.type = "BlockStart" /\ x \in EmesEvent
  BY <1>2, Stamped
<1> HIDE DEF e
<1>4. events' = Append(<< >>, x)
  <2>1. << >> \in Seq(EmesEvent)
    OBVIOUS
  <2> QED BY <1>1, <1>2, <2>1, OneEvent DEF e
<1> HIDE DEF x
<1>5. Now' \in View
  <2>1. EvmTypeOK' /\ txLog' \in Seq(Effect)
    BY <1>1 DEF HostInvariant, HostTypeOK
  <2> QED BY <2>1, ViewTyped DEF EvmTypeOK, Now
<1>6. Fresh(Now')
  <2>1. MarksOf(<< >>) = << >>
    BY DEF MarksOf
  <2> QED BY <1>1, <2>1 DEF Fresh, Now
<1>7. Ran(x, Now', Now')
  BY <1>3 DEF Ran
<1>8. Tells(<< >>, Now') /\ << >> \in Seq(EmesEvent)
  BY <1>5, <1>6, RunNone
<1> QED BY <1>3, <1>4, <1>5, <1>7, <1>8, RunNext

LEMMA StartTxTold ==
  ASSUME HostInvariant, HostInvariant', Told, StartTx
  PROVE  Told'
<1> DEFINE e == TransactionStartEvent(txs + 1, 0)
           x == SetSequence(e, globalSequence)
<1>1. /\ ~panicked /\ phase = "block" /\ phase' = "tx" /\ snapshots' = << >>
      /\ txBase' = world /\ UNCHANGED <<world, txLog>>
      /\ EmitAfter(events, errorLog, NO_FRAME, <<e>>)
  BY DEF StartTx, EvmTxStart, OnTxStart
<1>2. e \in EmesEvent
  BY WidthAssumption
     DEF HostInvariant, HostTypeOK, EvmTypeOK, TransactionStartEvent, EmesEvent, U64
<1>2a. x.type = "TransactionStart"
  BY DEF TransactionStartEvent, SetSequence
<1> HIDE DEF e, x
<1>3. Ran(x, Now, Now')
  <2>1. MarksOf(<< >>) = << >>
    BY DEF MarksOf
  <2> QED BY <1>1, <1>2a, <2>1, NowFields DEF Ran, Same
<1>4. txLog' \in Seq(Effect) /\ EvmTypeOK'
  BY <1>1 DEF Told, HostInvariant, HostTypeOK
<1> QED BY <1>1, <1>2, <1>3, <1>4, HookTold DEF x

LEMMA EnterFrameTold ==
  ASSUME HostInvariant, HostInvariant', Told, EnterFrame
  PROVE  Told'
<1> DEFINE e == FrameEnterEvent(nextFrameID, currentFrameID, Len(snapshots))
           x == SetSequence(e, globalSequence)
           c == [id |-> nextFrame, state |-> world]
<1>1. /\ ~panicked /\ phase = "tx" /\ phase' = "tx" /\ snapshots' = Append(snapshots, c)
      /\ UNCHANGED <<world, txLog, txBase>>
      /\ EmitAfter(events, errorLog, nextFrameID, <<e>>)
  BY DEF EnterFrame, EvmFrameEnter, OnEnter
<1>2. e \in EmesEvent
  <2>1. Len(snapshots) \in Nat /\ nextFrameID \in U64
    BY DEF HostInvariant, HostTypeOK, EvmTypeOK
  <2> QED BY <2>1, CurrentTyped, WidthAssumption DEF FrameEnterEvent, EmesEvent, U64
<1>3. x.type = "FrameEnter"
  BY DEF FrameEnterEvent, SetSequence
<1>4. c \in Snapshot /\ snapshots \in Seq(Snapshot) /\ c.state = world
  <2>1. Append(snapshots, c) \in Seq(Snapshot) /\ snapshots \in Seq(Snapshot)
    BY <1>1 DEF HostInvariant, HostTypeOK, EvmTypeOK
  <2> HIDE DEF c
  <2>2. Len(Append(snapshots, c)) = Len(snapshots) + 1
        /\ Append(snapshots, c)[Len(snapshots) + 1] = c /\ Len(snapshots) \in Nat
    BY <2>1
  <2>3. c \in Snapshot
    BY <2>1, <2>2, ElementOfSeq
  <2> QED BY <2>1, <2>3 DEF c
<1> HIDE DEF e, x, c
<1>5. MarksOf(snapshots') = Append(MarksOf(snapshots), world)
  BY <1>1, <1>4, MarksPushed
<1>6. Ran(x, Now, Now')
  <2>1. Now.open /\ Now'.marks = Append(Now.marks, Now.world)
    BY <1>1, <1>5, NowFields
  <2>2. Same(Now, Now', {"world", "open", "base", "log"})
    BY <1>1, NowFields DEF Same
  <2> QED BY <1>3, <2>1, <2>2 DEF Ran
<1>7. txLog' \in Seq(Effect) /\ EvmTypeOK'
  BY <1>1 DEF Told, HostInvariant, HostTypeOK
<1> QED BY <1>1, <1>2, <1>6, <1>7, HookTold DEF x

LEMMA ExitFrameTold ==
  ASSUME HostInvariant, HostInvariant', Told, NEW reverted \in BOOLEAN, ExitFrame(reverted)
  PROVE  Told'
<1> DEFINE e == FrameExitEvent(currentFrameID, reverted)
           rest == SubSeq(frameStack, 1, Len(frameStack) - 1)
           top == IF rest = << >> THEN NO_FRAME ELSE rest[Len(rest)]
           x == SetSequence(e, globalSequence)
<1>1. /\ ~panicked /\ phase = "tx" /\ phase' = "tx" /\ snapshots # << >>
      /\ snapshots' = SubSeq(snapshots, 1, Len(snapshots) - 1)
      /\ world' = IF reverted THEN snapshots[Len(snapshots)].state ELSE world
      /\ UNCHANGED <<txLog, txBase>>
  BY DEF ExitFrame, EvmFrameExit, OnExit
<1>2. e \in EmesEvent
  BY CurrentTyped, WidthAssumption DEF FrameExitEvent, EmesEvent, U64
<1>3. x.type = "FrameExit" /\ x.reverted = reverted
  BY DEF FrameExitEvent, SetSequence
<1>4. frameStack # << >>
  BY <1>1 DEF HostInvariant, HostTypeOK, EvmTypeOK, StacksAligned
<1>5. EmitAfter(events, errorLog, top, <<e>>)
  BY <1>4 DEF ExitFrame, OnExit
<1> HIDE DEF e, top, rest, x
<1>6. snapshots \in Seq(Snapshot)
  BY DEF HostInvariant, HostTypeOK, EvmTypeOK
<1>7. /\ MarksOf(snapshots') = SubSeq(MarksOf(snapshots), 1, Len(MarksOf(snapshots)) - 1)
      /\ MarksOf(snapshots)[Len(MarksOf(snapshots))] = snapshots[Len(snapshots)].state
      /\ MarksOf(snapshots) # << >>
  BY <1>1, <1>6, MarksPopped, MarksTyped
<1>8. Ran(x, Now, Now')
  <2>1. /\ Now.open /\ Now.marks # << >>
        /\ Now'.marks = SubSeq(Now.marks, 1, Len(Now.marks) - 1)
        /\ Now'.world = IF reverted THEN Now.marks[Len(Now.marks)] ELSE Now.world
    BY <1>1, <1>7, NowFields
  <2>2. Same(Now, Now', {"open", "base", "log"})
    BY <1>1, NowFields DEF Same
  <2> QED BY <1>3, <2>1, <2>2 DEF Ran
<1>9. txLog' \in Seq(Effect) /\ EvmTypeOK'
  BY <1>1 DEF Told, HostInvariant, HostTypeOK
<1> QED BY <1>1, <1>2, <1>5, <1>8, <1>9, HookTold DEF x

LEMMA EndTxTold ==
  ASSUME HostInvariant, HostInvariant', Told, NEW failed \in BOOLEAN, EndTx(failed)
  PROVE  Told'
<1> DEFINE e == TransactionEndEvent(failed)
           log == IF frameStack # << >> /\ globalSequence < U64_MAX
                  THEN Append(errorLog, Diagnostic("UnexpectedExit", currentFrameID))
                  ELSE errorLog
           x == SetSequence(e, globalSequence)
<1>1. /\ ~panicked /\ phase = "tx" /\ phase' = "block" /\ snapshots = << >>
      /\ UNCHANGED <<world, snapshots, txBase>>
      /\ txLog' = Append(txLog, [before |-> txBase, after |-> world])
      /\ EmitAfter(events, log, currentFrameID, <<e>>)
  BY DEF EndTx, EvmTxEnd, OnTxEnd
<1>2. e \in EmesEvent /\ x.type = "TransactionEnd"
  <2>1. e \in EmesEvent
    BY WidthAssumption DEF TransactionEndEvent, EmesEvent, U64
  <2> QED BY <2>1 DEF TransactionEndEvent, SetSequence
<1> HIDE DEF e, log, x
<1>3. Ran(x, Now, Now')
  <2>1. MarksOf(<< >>) = << >>
    BY DEF MarksOf
  <2>2. /\ Now.open /\ Now.marks = << >> /\ ~Now'.open
        /\ Now'.log = Append(Now.log, [before |-> Now.base, after |-> Now.world])
    BY <1>1, <2>1, NowFields
  <2>3. Same(Now, Now', {"world", "marks", "base"})
    BY <1>1, NowFields DEF Same
  <2> QED BY <1>2, <2>2, <2>3 DEF Ran
<1>4. [before |-> txBase, after |-> world] \in Effect
  BY DEF HostInvariant, HostTypeOK, EvmTypeOK, Effect
<1>5. txLog' \in Seq(Effect)
  BY <1>1, <1>4, Pushed DEF Told
<1>6. EvmTypeOK'
  BY DEF HostInvariant, HostTypeOK
<1> QED BY <1>1, <1>2, <1>3, <1>5, <1>6, HookTold DEF x

LEMMA EndBlockTold ==
  ASSUME HostInvariant, HostInvariant', Told, EndBlock
  PROVE  Told'
<1> DEFINE x == SetSequence(BlockCommitEvent, globalSequence)
<1>1. /\ ~panicked /\ phase = "block" /\ phase' = "end" /\ snapshots = << >>
      /\ UNCHANGED <<world, snapshots, txBase, txLog>>
      /\ EmitAfter(events, errorLog, currentFrameID, <<BlockCommitEvent>>)
  BY DEF EndBlock, EvmBlockEnd, OnBlockEnd, emit, Told
<1>2. BlockCommitEvent \in EmesEvent /\ x.type = "BlockCommit"
  BY WidthAssumption DEF BlockCommitEvent, EmesEvent, U64, SetSequence
<1> HIDE DEF x
<1>3. Ran(x, Now, Now')
  BY <1>1, <1>2 DEF Ran, Now
<1>4. txLog' \in Seq(Effect) /\ EvmTypeOK'
  BY <1>1 DEF Told, HostInvariant, HostTypeOK
<1> QED BY <1>1, <1>2, <1>3, <1>4, HookTold DEF x

\* A mutation that is tagged with the current frame tells of the write.
LEMMA MutationRan ==
  ASSUME HostInvariant, NEW STATE k, NEW STATE v, EvmWrite(k, v), UNCHANGED txLog, NEW n
  PROVE  LET x == SetSequence(MutationEvent(currentFrameID, k, world[k], v), n)
         IN  Ran(x, Now, Now')
<1> DEFINE x == SetSequence(MutationEvent(currentFrameID, k, world[k], v), n)
<1>1. /\ x.type = "Mutation" /\ x.frameID = currentFrameID /\ x.key = k
      /\ x.before = world[k] /\ x.after = v
  BY DEF SetSequence, MutationEvent
<1>2. /\ phase = "tx" /\ world' = [world EXCEPT ![k] = v]
      /\ UNCHANGED <<snapshots, phase, txBase, txLog>>
  BY DEF EvmWrite
<1> HIDE DEF x
<1>3. snapshots = << >> <=> MarksOf(snapshots) = << >>
  BY MarksTyped DEF HostInvariant, HostTypeOK, EvmTypeOK
<1>4. Tagged(x, Now)
  BY <1>1, <1>2, <1>3, NoFrame, NowFields DEF Tagged
<1>5. /\ x.before = Now.world[x.key]
      /\ Now'.world = [Now.world EXCEPT ![x.key] = x.after]
  BY <1>1, <1>2, NowFields
<1>6. Same(Now, Now', {"marks", "open", "base", "log"})
  BY <1>2, NowFields DEF Same
<1> QED BY <1>1, <1>4, <1>5, <1>6 DEF Ran, x

\* A hook that emits one mutation.
LEMMA MutationTold ==
  ASSUME HostInvariant, HostInvariant', Told, ~panicked, NEW STATE k, k \in Key,
         NEW STATE v, v \in Value, EvmWrite(k, v), UNCHANGED txLog,
         emit(<<MutationEvent(currentFrameID, k, world[k], v)>>)
  PROVE  Told'
<1> DEFINE e == MutationEvent(currentFrameID, k, world[k], v)
<1>1. e \in EmesEvent
  BY CurrentTyped, WriteTyped, MutationTyped
<1>2. Ran(SetSequence(e, globalSequence), Now, Now')
  BY MutationRan
<1> HIDE DEF e
<1>3. EmitAfter(events, errorLog, currentFrameID, <<e>>)
  BY DEF emit, e
<1>4. phase' = "tx" /\ txLog' \in Seq(Effect) /\ EvmTypeOK'
  BY DEF EvmWrite, Told, HostInvariant, HostTypeOK
<1> QED BY <1>1, <1>2, <1>3, <1>4, HookTold

LEMMA ChangeStateTold ==
  ASSUME HostInvariant, HostInvariant', Told, NEW k \in Key, NEW v \in Value, ChangeState(k, v)
  PROVE  Told'
<1>1. EvmWrite(k, v) /\ UNCHANGED txLog
  BY DEF ChangeState
<1>2. CASE k.kind = "Balance" /\ OnBalanceChange(k.address, world[k], v, FALSE)
  <2>1. k = [kind |-> "Balance", address |-> k.address, slot |-> NoSlot]
    BY <1>2 DEF Key
  <2> QED BY <1>1, <1>2, <2>1, MutationTold DEF OnBalanceChange
<1>3. CASE k.kind = "Nonce" /\ OnNonceChangeV2(k.address, world[k], v)
  <2>1. k = [kind |-> "Nonce", address |-> k.address, slot |-> NoSlot]
    BY <1>3 DEF Key
  <2> QED BY <1>1, <1>3, <2>1, MutationTold DEF OnNonceChangeV2
<1>4. CASE k.kind = "Code" /\ OnCodeChangeV2(k.address, world[k], v, FALSE)
  <2>1. k = [kind |-> "Code", address |-> k.address, slot |-> NoSlot]
    BY <1>4 DEF Key
  <2> QED BY <1>1, <1>4, <2>1, MutationTold DEF OnCodeChangeV2
<1>5. CASE k.kind = "Storage" /\ OnStorageChange(k.address, k.slot, world[k], v)
  <2>1. k = [kind |-> "Storage", address |-> k.address, slot |-> k.slot]
    BY <1>5 DEF Key
  <2> QED BY <1>1, <1>5, <2>1, MutationTold DEF OnStorageChange
<1> QED BY <1>2, <1>3, <1>4, <1>5 DEF ChangeState

LEMMA ClearCodeTold ==
  ASSUME HostInvariant, HostInvariant', Told, NEW a \in Address, ClearCode(a)
  PROVE  Told'
<1> DEFINE k == [kind |-> "Code", address |-> a, slot |-> NoSlot]
<1>1. k \in Key /\ Cleared \in Value
  BY HostAssumption DEF Key
<1>2. /\ EvmWrite(k, Cleared) /\ UNCHANGED txLog /\ ~panicked
      /\ emit(<<MutationEvent(currentFrameID, k, world[k], Cleared)>>)
  BY DEF ClearCode, OnCodeChangeV2
<1> HIDE DEF k
<1> QED BY <1>1, <1>2, MutationTold

\* A credit may be followed by an announcement, which is tagged alike.
LEMMA CreditBeneficiaryTold ==
  ASSUME HostInvariant, HostInvariant', Told, NEW a \in Address, NEW v \in Value,
         CreditBeneficiary(a, v)
  PROVE  Told'
<1> DEFINE k == [kind |-> "Balance", address |-> a, slot |-> NoSlot]
           f == currentFrameID
           g == globalSequence
           pending == pendingSelfDestruct
           e == MutationEvent(f, k, world[k], v)
           d == SelfDestructEvent(f, pending[f])
           x == SetSequence(e, g)
           y == SetSequence(d, g + 1)
<1>1. k \in Key
  BY DEF Key
<1>2. /\ EvmWrite(k, v) /\ UNCHANGED txLog /\ ~panicked /\ snapshots # << >>
      /\ \/ f \in DOMAIN pending /\ emit(<<e, d>>)
         \/ emit(<<e>>)
  BY DEF CreditBeneficiary, OnBalanceChange
<1>3. CASE emit(<<e>>)
  <2> HIDE DEF k
  <2> QED BY <1>1, <1>2, <1>3, MutationTold
<1>4. CASE f \in DOMAIN pending /\ emit(<<e, d>>)
  <2>1. /\ world[k] \in Value /\ f \in U64 /\ g \in U64 /\ events \in Seq(EmesEvent)
        /\ pending[f] \in Address
    BY <1>1, <1>2, <1>4, WriteTyped, CurrentTyped DEF HostInvariant, HostTypeOK
  <2>2. e \in EmesEvent
    BY <1>1, <2>1, MutationTyped
  <2>3. d \in EmesEvent
    BY <2>1, WidthAssumption DEF SelfDestructEvent, EmesEvent, U64
  <2>4. Ran(x, Now, Now')
    BY <1>2, MutationRan
  <2>5. y.type = "SelfDestruct" /\ y.frameID = f
    BY AnnouncementStamped
  <2>6. EmitAfter(events, errorLog, currentFrameID, <<e, d>>)
    BY <1>4 DEF emit
  <2>7. /\ phase = "tx" /\ phase' = "tx" /\ UNCHANGED snapshots
        /\ txLog' \in Seq(Effect) /\ EvmTypeOK' /\ snapshots \in Seq(Snapshot)
    BY <1>2 DEF EvmWrite, Told, HostInvariant, HostTypeOK, EvmTypeOK
  <2> HIDE DEF k, e, d, f, g, pending
  <2> SUFFICES ASSUME ~panicked' PROVE Tells(events', Now')
    BY <2>7 DEF Told
  <2>8. events' = Append(Append(events, x), y) /\ g + 1 \in U64
    BY <2>1, <2>2, <2>3, <2>6, TwoEvents DEF g
  <2>9. x \in EmesEvent /\ y \in EmesEvent
    BY <2>1, <2>2, <2>3, <2>8, Stamped
  <2> HIDE DEF x, y
  <2>10. Now' \in View
    BY <2>7, ViewTyped DEF EvmTypeOK, Now
  <2>11. Tells(Append(events, x), Now')
    BY <1>2, <2>1, <2>4, <2>9, <2>10, RunNext DEF Told
  <2>12. Tagged(y, Now')
    <3>1. f # NO_FRAME
      BY <1>2, NoFrame DEF f
    <3>2. MarksOf(snapshots') # << >>
      BY <1>2, <2>7, MarksTyped
    <3> QED BY <2>5, <2>7, <3>1, <3>2, NowFields DEF Tagged
  <2>13. Ran(y, Now', Now')
    BY <2>5, <2>12 DEF Ran
  <2>14. Append(events, x) \in Seq(EmesEvent)
    BY <2>1, <2>9
  <2>15. Tells(Append(Append(events, x), y), Now')
    BY <2>9, <2>10, <2>11, <2>13, <2>14, RunNext
  <2> QED BY <2>8, <2>15
<1> QED BY <1>2, <1>3, <1>4

LEMMA InitTold == HostInit => HostInvariant /\ Told
<1> SUFFICES ASSUME HostInit PROVE HostInvariant /\ Told
  OBVIOUS
<1>1. HostInvariant
  BY HostInitially
<1>2. /\ events = << >> /\ phase = "start" /\ snapshots = << >> /\ txLog = << >>
      /\ txLog \in Seq(Effect)
  BY DEF HostInit, TracerInit, EvmInit
<1>3. Now \in View
  BY <1>1, <1>2, ViewTyped DEF HostInvariant, HostTypeOK, EvmTypeOK, Now
<1>4. Fresh(Now)
  <2>1. MarksOf(<< >>) = << >>
    BY DEF MarksOf
  <2> QED BY <1>2, <2>1 DEF Fresh, Now
<1>5. Tells(<< >>, Now)
  BY <1>3, <1>4, RunNone
<1> QED BY <1>1, <1>2, <1>5 DEF Told

\* Every step of the node under the tracer.
LEMMA HostStepTold ==
  ASSUME HostInvariant, Told, HostStep
  PROVE  HostInvariant' /\ Told'
<1>1. CASE StartBlock
  BY <1>1, StartBlockKeeps, StartBlockTold
<1>2. CASE StartTx
  BY <1>2, StartTxKeeps, StartTxTold
<1>3. CASE EnterFrame
  BY <1>3, EnterFrameKeeps, EnterFrameTold
<1>4. CASE \E reverted \in BOOLEAN : ExitFrame(reverted)
  BY <1>4, ExitFrameKeeps, ExitFrameTold
<1>5. CASE \E k \in Key, v \in Value : ChangeState(k, v)
  BY <1>5, ChangeStateKeeps, ChangeStateTold
<1>6. CASE \E a \in Address : ClearCode(a)
  BY <1>6, ClearCodeKeeps, ClearCodeTold
<1>7. CASE \E a \in Address, v \in Value : CreditBeneficiary(a, v)
  BY <1>7, CreditBeneficiaryKeeps, CreditBeneficiaryTold
<1>8. CASE \E failed \in BOOLEAN : EndTx(failed)
  BY <1>8, EndTxKeeps, EndTxTold
<1>9. CASE EndBlock
  BY <1>9, EndBlockKeeps, EndBlockTold
<1>10. CASE NextBlock
  <2>1. HostInvariant'
    BY <1>10, NextBlockKeeps
  <2>2. /\ phase = "end" /\ phase' = "start" /\ snapshots = << >>
        /\ UNCHANGED <<world, snapshots, txBase, txLog, events, panicked>>
    BY <1>10 DEF NextBlock, tracerVars, Told
  <2>3. Now' = Now
    BY <2>2 DEF Now
  <2> QED BY <2>1, <2>2, <2>3 DEF Told
<1> QED BY <1>1, <1>2, <1>3, <1>4, <1>5, <1>6, <1>7, <1>8, <1>9, <1>10 DEF HostStep

-----------------------------------------------------------------------------
(***************************************************************************)
(* Streams of canonical events that are cut into transactions.             *)
(***************************************************************************)

\* Replaying q leads from the state a to the state b.
Leads(a, q, b) == Yields(a, q, b) /\ Continues(a, q)

\* The events between two places.
LEMMA Cut ==
  ASSUME NEW E, NEW s \in Seq(E), NEW x \in 1..Len(s), NEW y \in 1..Len(s), x < y
  PROVE  LET q == SubSeq(s, x + 1, y - 1)
         IN  /\ q \in Seq(E) /\ Len(q) = y - x - 1
             /\ \A j \in 1..y - x - 1 : q[j] = s[x + j] /\ x + j \in 1..Len(s)
<1> DEFINE m == x + 1
           n == y - 1
           q == SubSeq(s, m, n)
<1>1. /\ m \in Int /\ n \in Int /\ Len(s) \in Nat /\ m >= 1 /\ n <= Len(s) /\ m <= n + 1
      /\ x \in Nat /\ y \in Nat
  OBVIOUS
<1>2. \A i \in m..n : s[i] \in E
  BY <1>1
<1>3. m = x + 1 /\ n = y - 1
  OBVIOUS
<1> HIDE DEF m, n
<1>4. /\ q \in Seq(E) /\ Len(q) = IF m <= n THEN n - m + 1 ELSE 0
      /\ \A i \in 1..n - m + 1 : q[i] = s[m + i - 1]
  BY <1>1, <1>2, SubSeqProperties
<1> HIDE DEF q
<1>5. Len(q) = y - x - 1
  BY <1>1, <1>3, <1>4
<1>6. ASSUME NEW j \in 1..y - x - 1
      PROVE  q[j] = s[x + j] /\ x + j \in 1..Len(s)
  <2>1. j \in 1..n - m + 1 /\ m + j - 1 = x + j
    BY <1>1, <1>3
  <2>2. x + j \in 1..Len(s)
    BY <1>1
  <2> QED BY <1>4, <2>1, <2>2
<1> QED BY <1>4, <1>5, <1>6 DEF q, m, n

\* What is counted depends on the events up to the place.
LEMMA UntilSame ==
  ASSUME NEW s, NEW t, NEW n \in Nat, NEW type, DOMAIN s = 1..Len(s), DOMAIN t = 1..Len(t),
         n <= Len(s), n <= Len(t), Len(s) \in Nat, Len(t) \in Nat,
         \A i \in 1..n : s[i].payload = t[i].payload
  PROVE  Until(s, type, n) = Until(t, type, n)
<1>1. {i \in Places(s, type) : i <= n} = {i \in Places(t, type) : i <= n}
  BY DEF Places
<1> QED BY <1>1 DEF Until

\* Events of other types do not count.
LEMMA UntilNone ==
  ASSUME NEW E, NEW t \in Seq(E), NEW type, NEW n \in 0..Len(t), NEW m \in n..Len(t),
         \A i \in n+1..m : t[i].payload.type # type
  PROVE  Until(t, type, m) = Until(t, type, n)
<1>1. {i \in Places(t, type) : i <= m} = {i \in Places(t, type) : i <= n}
  BY DEF Places
<1> QED BY <1>1 DEF Until

\* The only event of its type counts one.
LEMMA UntilOne ==
  ASSUME NEW E, NEW t \in Seq(E), NEW type, NEW n \in 0..Len(t), NEW m \in n..Len(t),
         NEW z \in n+1..m, t[z].payload.type = type,
         \A i \in n+1..m : i # z => t[i].payload.type # type
  PROVE  Until(t, type, m) = Until(t, type, n) + 1
<1> DEFINE A == {i \in Places(t, type) : i <= n}
           B == {i \in Places(t, type) : i <= m}
<1>1. IsFiniteSet(A)
  BY UntilNat
<1>2. B = A \cup {z} /\ z \notin A
  BY DEF Places
<1> HIDE DEF A, B
<1>3. Cardinality(A \cup {z}) = Cardinality(A) + 1
  BY <1>1, <1>2, FS_AddElement
<1>4. Until(t, type, n) = Cardinality(A) /\ Until(t, type, m) = Cardinality(B)
  BY DEF Until, A, B
<1> QED BY <1>2, <1>3, <1>4

\* An event in front that writes nothing may be left out.
LEMMA LeadsTail ==
  ASSUME NEW a, NEW b, NEW r, NEW q, Len(q) \in Nat, Len(r) = Len(q) + 1,
         \A j \in 1..Len(q) : q[j] = r[j + 1], r[1].payload.type # "StateChanged",
         Leads(a, r, b)
  PROVE  Leads(a, q, b)
<1>1. \A k : /\ \A j \in 1..Len(q) : Writes(q, j, k) <=> Writes(r, j + 1, k)
             /\ ~Writes(r, 1, k)
  BY DEF Writes
<1>0. \A j \in 1..Len(q) : j + 1 \in 1..Len(r)
  OBVIOUS
<1>2. ASSUME NEW k \in Key, \A j \in 1..Len(q) : ~Writes(q, j, k)
      PROVE  b[k] = a[k]
  <2>1. ASSUME NEW i \in 1..Len(r)
        PROVE  ~Writes(r, i, k)
    <3>1. CASE i = 1
      BY <3>1, <1>1
    <3>2. CASE i # 1
      <4>1. i - 1 \in 1..Len(q) /\ (i - 1) + 1 = i
        BY <3>2
      <4> QED BY <4>1, <1>1, <1>2
    <3> QED BY <3>1, <3>2
  <2> QED BY <2>1 DEF Leads, Yields
<1>3. ASSUME NEW k \in Key, NEW j \in 1..Len(q), Writes(q, j, k),
             \A m \in j+1..Len(q) : ~Writes(q, m, k)
      PROVE  b[k] = q[j].payload.after
  <2>1. j + 1 \in 1..Len(r) /\ Writes(r, j + 1, k)
    <3>1. j + 1 \in 1..Len(r)
      BY <1>0
    <3>2. Writes(r, j + 1, k)
      BY <1>1, <1>3
    <3> QED BY <3>1, <3>2
  <2>2. ASSUME NEW m \in j+1+1..Len(r)
        PROVE  ~Writes(r, m, k)
    <3>1. m - 1 \in j+1..Len(q) /\ m - 1 \in 1..Len(q) /\ (m - 1) + 1 = m
      BY <2>1
    <3> QED BY <3>1, <1>1, <1>3
  <2>3. b[k] = r[j + 1].payload.after
    BY <2>1, <2>2 DEF Leads, Yields
  <2> QED BY <2>3
<1>4. ASSUME NEW k \in Key, NEW j \in 1..Len(q), Writes(q, j, k),
             \A i \in 1..j-1 : ~Writes(q, i, k)
      PROVE  q[j].payload.before = a[k]
  <2>1. j + 1 \in 1..Len(r) /\ Writes(r, j + 1, k)
    <3>1. j + 1 \in 1..Len(r)
      BY <1>0
    <3>2. Writes(r, j + 1, k)
      BY <1>1, <1>4
    <3> QED BY <3>1, <3>2
  <2>2. ASSUME NEW i \in 1..(j+1)-1
        PROVE  ~Writes(r, i, k)
    <3>1. CASE i = 1
      BY <3>1, <1>1
    <3>2. CASE i # 1
      <4>1. i - 1 \in 1..j-1 /\ i - 1 \in 1..Len(q) /\ (i - 1) + 1 = i
        BY <3>2
      <4> QED BY <4>1, <1>1, <1>4
    <3> QED BY <3>1, <3>2
  <2>3. r[j + 1].payload.before = a[k]
    BY <2>1, <2>2 DEF Leads, Continues
  <2> QED BY <2>3
<1>5. ASSUME NEW k \in Key, NEW j \in 1..Len(q), Writes(q, j, k),
             NEW i \in 1..j-1, Writes(q, i, k), \A m \in i+1..j-1 : ~Writes(q, m, k)
      PROVE  q[j].payload.before = q[i].payload.after
  <2>1. /\ j + 1 \in 1..Len(r) /\ Writes(r, j + 1, k)
        /\ i + 1 \in 1..(j+1)-1 /\ i \in 1..Len(q) /\ Writes(r, i + 1, k)
    <3>1. j + 1 \in 1..Len(r) /\ i + 1 \in 1..(j+1)-1 /\ i \in 1..Len(q)
      BY <1>0
    <3>2. Writes(r, j + 1, k) /\ Writes(r, i + 1, k)
      BY <1>1, <1>5, <3>1
    <3> QED BY <3>1, <3>2
  <2>2. ASSUME NEW m \in (i+1)+1..(j+1)-1
        PROVE  ~Writes(r, m, k)
    <3>1. m - 1 \in i+1..j-1 /\ m - 1 \in 1..Len(q) /\ (m - 1) + 1 = m
      OBVIOUS
    <3> QED BY <3>1, <1>1, <1>5
  <2>3. r[j + 1].payload.before = r[i + 1].payload.after
    BY <2>1, <2>2 DEF Leads, Continues
  <2> QED BY <2>1, <2>3
<1> QED BY <1>2, <1>3, <1>4, <1>5 DEF Leads, Yields, Continues

\* The stretch of s behind place x and before place y is transaction i, and it does
\* what the effect d says.
Stretch(s, x, y, i, d) ==
  /\ x < y
  /\ s[x].payload.type = "BeginTransaction" /\ TxBegun(s, x) = i
  /\ s[y].payload.type = "EndTransaction" /\ TxEnded(s, y) = i
  /\ Leads(d.before, SubSeq(s, x + 1, y - 1), d.after)

\* The stream s holds one transaction for each effect in the log.
Delivers(s, log) ==
  /\ TxBegun(s, Len(s)) = Len(log) /\ TxEnded(s, Len(s)) = Len(log)
  /\ \A i \in 1..Len(log) : \E x, y \in 1..Len(s) : Stretch(s, x, y, i, log[i])

LEMMA DeliversNone == Delivers(<< >>, << >>)
<1>1. Len(<< >>) = 0 /\ 1..0 = {}
  OBVIOUS
<1> QED BY <1>1, UntilEmpty DEF Delivers, TxBegun, TxEnded

\* A stretch is found again where its payloads are.
LEMMA StretchSame ==
  ASSUME NEW s \in Seq(CseEvent), NEW r \in Seq(CseEvent), NEW x \in 1..Len(s),
         NEW y \in 1..Len(s), NEW i, NEW d, Stretch(s, x, y, i, d), y <= Len(r),
         \A j \in 1..y : r[j].payload = s[j].payload
  PROVE  x \in 1..Len(r) /\ y \in 1..Len(r) /\ Stretch(r, x, y, i, d)
<1>1. /\ x \in Nat /\ y \in Nat /\ x < y /\ x <= Len(r) /\ y <= Len(r)
      /\ Len(s) \in Nat /\ Len(r) \in Nat /\ DOMAIN s = 1..Len(s) /\ DOMAIN r = 1..Len(r)
      /\ x \in 1..Len(r) /\ y \in 1..Len(r) /\ x <= Len(s) /\ y <= Len(s)
      /\ \A j \in 1..x : j \in 1..y
  BY DEF Stretch
<1>2. TxBegun(r, x) = TxBegun(s, x) /\ TxEnded(r, y) = TxEnded(s, y)
  BY <1>1, UntilSame DEF TxBegun, TxEnded
<1>3. r[x].payload = s[x].payload /\ r[y].payload = s[y].payload
  BY <1>1
<1> DEFINE p == SubSeq(s, x + 1, y - 1)
           q == SubSeq(r, x + 1, y - 1)
<1>4. /\ Len(p) = y - x - 1 /\ Len(q) = y - x - 1
      /\ \A j \in 1..y - x - 1 : p[j] = s[x + j] /\ q[j] = r[x + j]
  BY <1>1, Cut
<1> HIDE DEF p, q
<1>5. Len(p) = Len(q) /\ Len(p) \in Nat /\ \A j \in 1..Len(p) : q[j].payload = p[j].payload
  <2>1. ASSUME NEW j \in 1..y - x - 1
        PROVE  q[j].payload = p[j].payload
    <3>1. x + j \in 1..y
      BY <1>1
    <3> QED BY <1>4, <3>1
  <2> QED BY <1>1, <1>4, <2>1
<1>6. Leads(d.before, p, d.after)
  BY DEF Stretch, p
<1>7. Leads(d.before, q, d.after)
  BY <1>5, <1>6, ReplayPayloads DEF Leads
<1> QED BY <1>1, <1>2, <1>3, <1>7 DEF Stretch, q

\* Numbering the stream changes nothing that it holds.
LEMMA DeliversPayloads ==
  ASSUME NEW s \in Seq(CseEvent), NEW r \in Seq(CseEvent), NEW log, Delivers(s, log),
         Len(r) = Len(s), \A j \in 1..Len(s) : r[j].payload = s[j].payload
  PROVE  Delivers(r, log)
<1>1. Len(s) \in Nat /\ DOMAIN s = 1..Len(s) /\ DOMAIN r = 1..Len(r)
  OBVIOUS
<1>2. TxBegun(r, Len(r)) = TxBegun(s, Len(s)) /\ TxEnded(r, Len(r)) = TxEnded(s, Len(s))
  BY <1>1, UntilSame DEF TxBegun, TxEnded
<1>3. ASSUME NEW i \in 1..Len(log)
      PROVE  \E x, y \in 1..Len(r) : Stretch(r, x, y, i, log[i])
  <2>1. PICK x \in 1..Len(s), y \in 1..Len(s) : Stretch(s, x, y, i, log[i])
    BY DEF Delivers
  <2>2. y <= Len(r) /\ \A j \in 1..y : r[j].payload = s[j].payload
    BY <1>1
  <2> QED BY <2>1, <2>2, StretchSame
<1> QED BY <1>2, <1>3 DEF Delivers

\* One transaction more.
LEMMA DeliversNext ==
  ASSUME NEW s \in Seq(CseEvent), NEW q \in Seq(CseEvent), NEW e \in CseEvent, NEW hash,
         OpenBracket(q, hash), e.payload.type = "EndTransaction",
         NEW log \in Seq(Effect), Delivers(s, log), NEW d \in Effect,
         Leads(d.before, q, d.after)
  PROVE  Delivers(s \o Append(q, e), Append(log, d))
<1> DEFINE c == Append(q, e)
           r == s \o c
           n == Len(s)
           l == Len(q)
           z == n + l + 1
<1>1. /\ c \in Seq(CseEvent) /\ Len(c) = l + 1 /\ l \in Nat /\ l > 0
      /\ \A j \in 1..l : c[j] = q[j]
      /\ c[l + 1] = e
  BY Pushed DEF OpenBracket
<1> HIDE DEF c, l
<1>2. /\ r \in Seq(CseEvent) /\ n \in Nat /\ Len(r) = z
      /\ \A j \in 1..n : r[j] = s[j] /\ j \in 1..z
      /\ \A j \in 1..l + 1 : r[n + j] = c[j]
  <2>1. /\ r \in Seq(CseEvent) /\ n \in Nat /\ Len(r) = n + Len(c)
        /\ \A j \in 1..n : r[j] = s[j]
        /\ \A j \in 1..Len(c) : r[n + j] = c[j]
    <3> HIDE DEF z, n, r
    <3>0. c \in Seq(CseEvent)
      BY <1>1
    <3>1. /\ s \o c \in Seq(CseEvent) /\ Len(s) \in Nat
          /\ Len(s \o c) = Len(s) + Len(c)
          /\ \A j \in 1..Len(s) : (s \o c)[j] = s[j]
          /\ \A j \in 1..Len(c) : (s \o c)[Len(s) + j] = c[j]
      BY <3>0, ConcatElements
    <3> QED BY <3>1 DEF r, n
  <2>2. z = n + (l + 1)
    BY <1>1, <2>1
  <2> HIDE DEF r, n, z
  <2> QED BY <1>1, <2>1, <2>2
<1>3. /\ r[n + 1].payload.type = "BeginTransaction"
      /\ r[z].payload.type = "EndTransaction"
      /\ \A j \in 2..l : r[n + j] = q[j] /\ ~IsBoundary(r[n + j])
  <2>1. 1 \in 1..l /\ 1 \in 1..l + 1 /\ l + 1 \in 1..l + 1 /\ n + (l + 1) = z
    BY <1>1, <1>2
  <2> HIDE DEF z, n
  <2>2. \A j \in 2..l : j \in 1..l /\ j \in 1..l + 1 /\ j > 1
    BY <1>1
  <2> QED BY <1>1, <1>2, <2>1, <2>2 DEF OpenBracket, l
<1>2a. n = Len(s) /\ z = n + l + 1
  OBVIOUS
<1> HIDE DEF r, n, z
<1>4. \A j \in n+1..z : j # n + 1 /\ j # z => ~IsBoundary(r[j])
  <2> TAKE j \in n+1..z
  <2>1. j # n + 1 /\ j # z => j - n \in 2..l /\ n + (j - n) = j
    BY <1>1, <1>2, <1>2a
  <2> QED BY <1>3, <2>1
<1>5. TxBegun(r, n) = Len(log) /\ TxEnded(r, n) = Len(log)
  <2>1. /\ DOMAIN s = 1..Len(s) /\ DOMAIN r = 1..Len(r) /\ Len(r) \in Nat
        /\ Len(s) \in Nat /\ n <= Len(r) /\ n <= Len(s)
    BY <1>1, <1>2, <1>2a
  <2>2. \A j \in 1..n : s[j].payload = r[j].payload
    BY <1>2
  <2>3. ASSUME NEW type
        PROVE  Until(s, type, n) = Until(r, type, n)
    BY <1>2, <2>1, <2>2, UntilSame
  <2> QED BY <1>2a, <2>3 DEF TxBegun, TxEnded, Delivers
<1>6. TxBegun(r, n + 1) = Len(log) + 1
  <2>1. n \in 0..Len(r) /\ n + 1 \in n..Len(r) /\ n + 1 \in n+1..n+1
        /\ \A j \in n+1..n+1 : j = n + 1
    BY <1>1, <1>2, <1>2a
  <2> DEFINE m == n + 1
  <2>2. m \in n..Len(r) /\ m \in n+1..m /\ \A j \in n+1..m : j = m
    BY <2>1
  <2>3. r[m].payload.type = "BeginTransaction"
    BY <1>3
  <2> HIDE DEF m
  <2>5. /\ r \in Seq(CseEvent) /\ n \in 0..Len(r) /\ m \in n..Len(r) /\ m \in n+1..m
        /\ \A j \in n+1..m : j # m => r[j].payload.type # "BeginTransaction"
    BY <1>2, <2>1, <2>2
  <2>4. Until(r, "BeginTransaction", m) = Until(r, "BeginTransaction", n) + 1
    BY <2>3, <2>5, UntilOne
  <2> QED BY <1>5, <2>4 DEF TxBegun, m
<1>7. TxBegun(r, z) = Len(log) + 1 /\ TxEnded(r, z) = Len(log) + 1
  <2>1. n \in 0..Len(r) /\ z \in n..Len(r) /\ n + 1 \in n+1..z /\ z \in n+1..z
    BY <1>1, <1>2, <1>2a
  <2>2. \A j \in n+1..z : j # n + 1 => r[j].payload.type # "BeginTransaction"
    BY <1>3, <1>4 DEF IsBoundary
  <2>3. \A j \in n+1..z : j # z => r[j].payload.type # "EndTransaction"
    BY <1>3, <1>4 DEF IsBoundary
  <2>4. Until(r, "BeginTransaction", z) = Until(r, "BeginTransaction", n) + 1
    BY <1>2, <1>3, <2>1, <2>2, UntilOne
  <2>5. Until(r, "EndTransaction", z) = Until(r, "EndTransaction", n) + 1
    BY <1>2, <1>3, <2>1, <2>3, UntilOne
  <2> QED BY <1>5, <2>4, <2>5 DEF TxBegun, TxEnded
<1>8. /\ Append(log, d) \in Seq(Effect) /\ Len(Append(log, d)) = Len(log) + 1
      /\ \A i \in 1..Len(log) : Append(log, d)[i] = log[i]
      /\ Append(log, d)[Len(log) + 1] = d /\ Len(log) \in Nat
  BY Pushed
<1>9. ASSUME NEW i \in 1..Len(log)
      PROVE  \E x, y \in 1..Len(r) : Stretch(r, x, y, i, log[i])
  <2>1. PICK x \in 1..n, y \in 1..n : Stretch(s, x, y, i, log[i])
    BY <1>2a DEF Delivers
  <2>2. y <= Len(r) /\ \A j \in 1..y : r[j].payload = s[j].payload
    BY <1>1, <1>2, <1>2a
  <2> QED BY <1>2, <1>2a, <2>1, <2>2, StretchSame
<1>10. n + 1 \in 1..Len(r) /\ z \in 1..Len(r) /\ Stretch(r, n + 1, z, Len(log) + 1, d)
  <2> DEFINE p == SubSeq(r, (n + 1) + 1, z - 1)
  <2>1. n + 1 \in 1..Len(r) /\ z \in 1..Len(r) /\ n + 1 < z /\ z - (n + 1) - 1 = l - 1
    <3> HIDE DEF p
    <3>1. l \in Nat /\ l > 0 /\ n \in Nat /\ Len(r) = z /\ z = n + l + 1
      BY <1>1, <1>2, <1>2a
    <3> QED BY <3>1
  <2>2. Len(p) = l - 1 /\ \A j \in 1..l - 1 : p[j] = r[(n + 1) + j]
    <3> DEFINE x == n + 1
    <3>1. x \in 1..Len(r) /\ z \in 1..Len(r) /\ x < z
      BY <2>1
    <3>2. z - x - 1 = l - 1 /\ \A j \in Int : x + j = (n + 1) + j
      BY <2>1
    <3> HIDE DEF x
    <3>3. LET c2 == SubSeq(r, x + 1, z - 1)
          IN  Len(c2) = z - x - 1 /\ \A j \in 1..z - x - 1 : c2[j] = r[x + j]
      BY <1>2, <3>1, Cut
    <3> QED BY <3>2, <3>3 DEF x
  <2> HIDE DEF p
  <2>3. \A j \in 1..l - 1 : p[j] = q[j + 1]
    <3>1. l \in Nat /\ n \in Nat
      BY <1>1, <1>2, <1>2a
    <3> TAKE j \in 1..l - 1
    <3>2. j + 1 \in 2..l /\ n + (j + 1) = (n + 1) + j
      <4> HIDE DEF l, n
      <4> QED BY <3>1
    <3> QED BY <1>3, <2>2, <3>2
  <2>4. Len(p) \in Nat /\ Len(q) = Len(p) + 1
    BY <1>1, <2>2 DEF l
  <2>5. q[1].payload.type # "StateChanged"
    BY DEF OpenBracket
  <2>6. \A j \in 1..Len(p) : p[j] = q[j + 1]
    BY <2>2, <2>3
  <2>7. Leads(d.before, p, d.after)
    BY <2>4, <2>5, <2>6, LeadsTail
  <2> QED BY <1>3, <1>6, <1>7, <2>1, <2>7 DEF Stretch, p
<1>11. ASSUME NEW i \in 1..Len(Append(log, d))
       PROVE  \E x, y \in 1..Len(r) : Stretch(r, x, y, i, Append(log, d)[i])
  <2>1. CASE i = Len(log) + 1
    BY <1>8, <1>10, <2>1
  <2>2. CASE i # Len(log) + 1
    <3>1. i \in 1..Len(log)
      BY <1>8, <2>2
    <3> QED BY <1>8, <1>9, <3>1
  <2> QED BY <2>1, <2>2
<1>12. Delivers(r, Append(log, d))
  BY <1>2, <1>7, <1>8, <1>11 DEF Delivers
<1> QED BY <1>12 DEF r, c

-----------------------------------------------------------------------------
(***************************************************************************)
(* The bridge: its buffers are the pieces that a view cuts the open        *)
(* transaction into.                                                       *)
(***************************************************************************)

\* The state that buffer j leads to; buffer 0 is tx_output.
After(v, j) == IF j < Len(v.marks) THEN v.marks[j + 1] ELSE v.world

Chain(v, out, stack) ==
  /\ Len(stack) = Len(v.marks)
  /\ Leads(v.base, out, After(v, 0))
  /\ \A j \in 1..Len(v.marks) : Leads(v.marks[j], stack[j].events, After(v, j))

BridgeAt(v) ==
  /\ Bracketing
  /\ tx_open = v.open
  /\ tx_open => Chain(v, tx_output, frame_stack)
  /\ Delivers(final_output, v.log)

Buffers == BufferOf(Nat, Nat)

LEMMA ViewFields ==
  ASSUME NEW v \in View
  PROVE  /\ v.world \in World /\ v.marks \in Seq(World) /\ v.open \in BOOLEAN
         /\ v.base \in World /\ v.log \in Seq(Effect) /\ Len(v.marks) \in Nat
         /\ (v.marks = << >> <=> Len(v.marks) = 0)
<1>1. /\ v.world \in World /\ v.marks \in Seq(World) /\ v.open \in BOOLEAN
      /\ v.base \in World /\ v.log \in Seq(Effect)
  BY DEF View
<1> QED BY <1>1

\* A transaction has begun, and nothing has happened in it.
LEMMA ChainBegun ==
  ASSUME NEW v \in View, v.marks = << >>, v.base = v.world,
         NEW x \in CseEvent, x.payload.type # "StateChanged"
  PROVE  Chain(v, <<x>>, << >>)
<1>1. After(v, 0) = v.world /\ Len(<< >>) = 0 /\ 1..0 = {}
  BY DEF After
<1>2. Leads(v.base, <<x>>, v.world)
  BY ReplayOther DEF Leads
<1> QED BY <1>1, <1>2 DEF Chain

\* A frame is entered: its buffer is empty and begins at the state of now.
LEMMA ChainEntered ==
  ASSUME NEW a \in View, NEW b \in View, NEW out, NEW stack \in Seq(Buffers),
         NEW f \in Buffers, f.events = << >>, Chain(a, out, stack),
         b.marks = Append(a.marks, a.world), b.world = a.world, b.base = a.base
  PROVE  Chain(b, out, Append(stack, f))
<1> DEFINE n == Len(a.marks)
           r == Append(stack, f)
           m == Append(a.marks, a.world)
<1>1. /\ a.world \in World /\ a.marks \in Seq(World) /\ n \in Nat /\ Len(stack) = n
  BY ViewFields DEF Chain
<1>2. /\ Len(m) = n + 1 /\ \A j \in 1..n : m[j] = a.marks[j]
      /\ m[n + 1] = a.world
  BY <1>1, Pushed
<1>3. /\ Len(r) = n + 1 /\ \A j \in 1..n : r[j] = stack[j]
      /\ r[n + 1] = f
  BY <1>1, Pushed
<1> HIDE DEF m, r
<1>4. b.marks = m
  BY DEF m
<1>5. ASSUME NEW j \in 0..n
      PROVE  After(b, j) = After(a, j)
  <2>1. CASE j < n
    <3>1. j + 1 \in 1..n /\ j < n + 1
      BY <1>1, <2>1
    <3> QED BY <1>2, <1>4, <2>1, <3>1 DEF After
  <2>2. CASE ~(j < n)
    <3>1. j = n /\ n < n + 1
      BY <1>1, <2>2
    <3> QED BY <1>2, <1>4, <2>2, <3>1 DEF After
  <2> QED BY <2>1, <2>2
<1>6. After(b, n + 1) = a.world /\ ~(n + 1 < n + 1)
  BY <1>1, <1>2, <1>4 DEF After
<1>7. Leads(b.base, out, After(b, 0))
  BY <1>1, <1>5 DEF Chain
<1>8. ASSUME NEW j \in 1..n + 1
      PROVE  Leads(b.marks[j], r[j].events, After(b, j))
  <2>1. CASE j = n + 1
    <3>1. Leads(a.world, << >>, a.world)
      BY ReplayEmpty DEF Leads
    <3> QED BY <1>2, <1>3, <1>4, <1>6, <2>1, <3>1
  <2>2. CASE j # n + 1
    <3>1. j \in 1..n /\ j \in 0..n
      BY <1>1, <2>2
    <3>2. Leads(a.marks[j], stack[j].events, After(a, j))
      BY <3>1 DEF Chain
    <3> QED BY <1>2, <1>3, <1>4, <1>5, <3>1, <3>2
  <2> QED BY <2>1, <2>2
<1>9. Len(b.marks) = n + 1
  BY <1>2, <1>4
<1> QED BY <1>3, <1>7, <1>8, <1>9 DEF Chain, r

\* Event x is added to the innermost buffer, which is out when there is no other.
Grows(out, stack, x, o, r) ==
  \/ stack = << >> /\ o = Append(out, x) /\ r = stack
  \/ /\ stack # << >> /\ o = out /\ Len(r) = Len(stack)
     /\ \A j \in 1..Len(stack) :
          r[j].events = IF j = Len(stack) THEN Append(stack[j].events, x) ELSE stack[j].events

\* An event is added to the innermost buffer, and moves the state as it says.
LEMMA ChainGrown ==
  ASSUME NEW a \in View, NEW b \in View, NEW out \in Seq(CseEvent),
         NEW stack \in Seq(Buffers), NEW x, Chain(a, out, stack),
         b.marks = a.marks, b.base = a.base,
         \A s : \A q \in Seq(CseEvent) :
           Leads(s, q, a.world) => Leads(s, Append(q, x), b.world),
         NEW o, NEW r, Grows(out, stack, x, o, r)
  PROVE  Chain(b, o, r)
<1> DEFINE n == Len(a.marks)
<1>1. n \in Nat /\ Len(stack) = n /\ (a.marks = << >> <=> n = 0)
  BY ViewFields DEF Chain
<1>2. After(a, n) = a.world /\ After(b, n) = b.world
  BY <1>1 DEF After
<1>3. \A j \in 0..n : j # n => After(b, j) = After(a, j)
  BY <1>1 DEF After
<1>4. /\ Leads(a.base, out, After(a, 0))
      /\ \A j \in 1..n : Leads(a.marks[j], stack[j].events, After(a, j))
  BY DEF Chain
<1>5. \A j \in 1..n : stack[j].events \in Seq(CseEvent)
  <2> TAKE j \in 1..n
  <2>1. stack[j] \in Buffers
    BY <1>1
  <2> QED BY <2>1 DEF Buffers, BufferOf
<1>6. CASE stack = << >>
  <2>1. n = 0 /\ 1..n = {} /\ o = Append(out, x) /\ r = stack
    BY <1>1, <1>6 DEF Grows
  <2>2. Leads(b.base, o, After(b, 0))
    BY <1>2, <1>4, <2>1
  <2> QED BY <1>1, <2>1, <2>2 DEF Chain
<1>7. CASE stack # << >>
  <2>1. /\ n \in 1..n /\ 0 \in 0..n /\ 0 # n /\ o = out /\ Len(r) = n
        /\ \A j \in 1..n : r[j].events = IF j = n THEN Append(stack[j].events, x)
                                         ELSE stack[j].events
    BY <1>1, <1>7 DEF Grows
  <2>2. Leads(b.base, o, After(b, 0))
    BY <1>3, <1>4, <2>1
  <2>3. ASSUME NEW j \in 1..n
        PROVE  Leads(b.marks[j], r[j].events, After(b, j))
    <3>1. CASE j = n
      BY <1>2, <1>4, <1>5, <2>1, <3>1
    <3>2. CASE j # n
      <4>1. j \in 0..n
        BY <1>1
      <4> QED BY <1>3, <1>4, <2>1, <3>2, <4>1
    <3> QED BY <3>1, <3>2
  <2> QED BY <1>1, <2>1, <2>2, <2>3 DEF Chain
<1> QED BY <1>6, <1>7

\* A frame is left, and its buffer is dropped, or joined to the one before.
LEMMA ChainLeft ==
  ASSUME NEW a \in View, NEW b \in View, NEW out \in Seq(CseEvent),
         NEW stack \in Seq(Buffers), Chain(a, out, stack), a.marks # << >>,
         b.marks = SubSeq(a.marks, 1, Len(a.marks) - 1), b.base = a.base,
         NEW o, NEW r, Len(r) = Len(a.marks) - 1,
         \/ /\ b.world = a.marks[Len(a.marks)] /\ o = out
            /\ \A j \in 1..Len(a.marks) - 1 : r[j] = stack[j]
         \/ /\ b.world = a.world /\ Len(a.marks) = 1
            /\ o = out \o stack[Len(a.marks)].events
         \/ /\ b.world = a.world /\ Len(a.marks) > 1 /\ o = out
            /\ \A j \in 1..Len(a.marks) - 1 :
                 r[j].events = IF j = Len(a.marks) - 1
                               THEN stack[j].events \o stack[Len(a.marks)].events
                               ELSE stack[j].events
  PROVE  Chain(b, o, r)
<1> DEFINE n == Len(a.marks)
           m == n - 1
<1>1. /\ n \in Nat \ {0} /\ m \in Nat /\ n = m + 1 /\ Len(stack) = n /\ Len(b.marks) = m
      /\ \A j \in 1..m : b.marks[j] = a.marks[j]
  <2>1. a.marks \in Seq(World) /\ Len(stack) = n
    BY ViewFields DEF Chain
  <2> QED BY <2>1, Popped
<1>2. After(a, n) = a.world /\ After(a, m) = a.marks[n] /\ After(b, m) = b.world
  BY <1>1 DEF After
<1>3. \A j \in 0..m : j # m => After(b, j) = After(a, j)
  <2> TAKE j \in 0..m
  <2>1. j # m => j + 1 \in 1..m /\ j < m /\ j < n
    BY <1>1
  <2> QED BY <1>1, <2>1 DEF After
<1>4. /\ Leads(a.base, out, After(a, 0))
      /\ \A j \in 1..n : Leads(a.marks[j], stack[j].events, After(a, j))
  BY DEF Chain
<1>5. \A j \in 1..n : stack[j].events \in Seq(CseEvent)
  <2> TAKE j \in 1..n
  <2>1. stack[j] \in Buffers
    BY <1>1
  <2> QED BY <2>1 DEF Buffers, BufferOf
<1>6. \A j \in 1..m : j \in 1..n /\ j \in 0..m
  BY <1>1
<1>7. n \in 1..n /\ 0 \in 0..m
  BY <1>1
<1> HIDE DEF n, m
<1>8. CASE b.world = a.marks[n] /\ o = out /\ \A j \in 1..m : r[j] = stack[j]
  <2>1. \A j \in 0..m : After(b, j) = After(a, j)
    BY <1>2, <1>3, <1>8
  <2> QED BY <1>1, <1>4, <1>6, <1>7, <1>8, <2>1 DEF Chain, n, m
<1>9. CASE b.world = a.world /\ n = 1 /\ o = out \o stack[n].events
  <2>1. m = 0 /\ 1..m = {}
    BY <1>1, <1>9
  <2>2. Leads(a.base, out, a.marks[n]) /\ Leads(a.marks[n], stack[n].events, a.world)
    BY <1>2, <1>4, <1>7, <2>1
  <2>3. Leads(a.base, o, a.world)
    BY <1>5, <1>7, <1>9, <2>2, YieldsConcat, ContinuesConcat DEF Leads
  <2> QED BY <1>1, <1>2, <1>9, <2>1, <2>3 DEF Chain, n, m
<1>10. CASE /\ b.world = a.world /\ n > 1 /\ o = out
            /\ \A j \in 1..m : r[j].events = IF j = m THEN stack[j].events \o stack[n].events
                                             ELSE stack[j].events
  <2>1. m \in 1..m /\ 0 # m /\ m \in 1..n
    BY <1>1, <1>10
  <2>2. Leads(a.marks[m], stack[m].events, a.marks[n])
        /\ Leads(a.marks[n], stack[n].events, a.world)
    BY <1>2, <1>4, <1>7, <2>1
  <2>3. Leads(a.marks[m], stack[m].events \o stack[n].events, a.world)
    BY <1>5, <1>7, <2>1, <2>2, YieldsConcat, ContinuesConcat DEF Leads
  <2>4. ASSUME NEW j \in 1..m
        PROVE  Leads(b.marks[j], r[j].events, After(b, j))
    <3>1. CASE j = m
      BY <1>1, <1>2, <1>10, <2>1, <2>3, <3>1
    <3>2. CASE j # m
      BY <1>1, <1>3, <1>4, <1>6, <1>10, <3>2
    <3> QED BY <3>1, <3>2
  <2>5. Leads(b.base, o, After(b, 0))
    BY <1>3, <1>4, <1>7, <1>10, <2>1
  <2> QED BY <1>1, <2>4, <2>5 DEF Chain, n, m
<1> QED BY <1>8, <1>9, <1>10 DEF n, m

\* The events of append_mutation: to the buffer of the innermost frame, or behind the
\* frames when there is none.
LEMMA AppendAt ==
  ASSUME NEW a \in View, NEW b \in View, NEW e, BridgeAt(a), Bracketing', Tagged(e, a),
         NEW payload \in Payload, append_mutation(e.frameID, payload),
         bridge_result' = "running",
         Same(a, b, {"marks", "open", "base", "log"}),
         \A s : \A q \in Seq(CseEvent) : \A x \in CseEvent :
           x.payload = payload /\ Leads(s, q, a.world) => Leads(s, Append(q, x), b.world)
  PROVE  BridgeAt(b)'
<1>1. /\ Bracketing /\ tx_open = a.open /\ Delivers(final_output, a.log)
      /\ Chain(a, tx_output, frame_stack) /\ a.open
      /\ (e.frameID = NO_FRAME <=> a.marks = << >>)
      /\ b.marks = a.marks /\ b.open = a.open /\ b.base = a.base /\ b.log = a.log
  BY DEF BridgeAt, Tagged, Same
<1>2. /\ tx_output \in Seq(CseEvent) /\ frame_stack \in Seq(Buffers)
      /\ tx_hash \in Nat /\ tx_index \in Nat /\ block_number \in Nat
  BY <1>1 DEF Bracketing, Buffers
<1>3. Len(frame_stack) = Len(a.marks) /\ (frame_stack = << >> <=> a.marks = << >>)
  BY <1>1, <1>2, ViewFields DEF Chain
<1>4. CASE /\ a.marks = << >>
           /\ tx_output' = Append(tx_output, CseEventOf(payload, U32_MAX, 0, tx_hash, tx_index))
           /\ UNCHANGED <<final_output, tx_open, frame_stack, bridgeContext, bridge_result>>
  <2> DEFINE x == CseEventOf(payload, U32_MAX, 0, tx_hash, tx_index)
  <2>1. U32_MAX \in 0..U32_MAX /\ 0 \in 0..U32_MAX
    BY WidthAssumption
  <2>2. x \in CseEvent /\ x.payload = payload
    BY <1>2, <2>1, CseEventType
  <2>3. tx_output' = Append(tx_output, x)
    BY <1>4
  <2> HIDE DEF x
  <2>4. \A s : \A q \in Seq(CseEvent) :
          Leads(s, q, a.world) => Leads(s, Append(q, x), b.world)
    BY <2>2
  <2>5. Chain(b, tx_output', frame_stack')
    <3>1. Grows(tx_output, frame_stack, x, tx_output', frame_stack')
      BY <1>3, <1>4, <2>3 DEF Grows
    <3> QED BY <1>1, <1>2, <2>4, <3>1, ChainGrown
  <2> QED BY <1>1, <1>4, <2>5 DEF BridgeAt
<1>5. CASE /\ a.marks # << >> /\ frame_stack # << >>
           /\ Top.frame_id <= U32_MAX /\ Top.depth <= U32_MAX
           /\ frame_stack' = [frame_stack EXCEPT ![Len(frame_stack)].events =
                Append(@, CseEventOf(payload, Top.frame_id, Top.depth, tx_hash, tx_index))]
           /\ UNCHANGED <<final_output, tx_open, tx_output, bridgeContext, bridge_result>>
  <2> DEFINE n == Len(frame_stack)
             x == CseEventOf(payload, Top.frame_id, Top.depth, tx_hash, tx_index)
             es == Append(frame_stack[n].events, x)
  <2>1. /\ Top \in Buffers /\ Top.events \in Seq(CseEvent) /\ n \in 1..n
        /\ Top = frame_stack[n]
    <3>1. n \in Nat \ {0} /\ Top \in Buffers /\ Top.events \in Seq(CseEvent)
      BY <1>1, <1>5, TopAndRest DEF Buffers
    <3> QED BY <3>1 DEF Top
  <2>2. Top.frame_id \in 0..U32_MAX /\ Top.depth \in 0..U32_MAX
    <3>1. Top.frame_id \in Nat /\ Top.depth \in Nat
      BY <2>1 DEF Buffers, BufferOf
    <3> QED BY <1>5, <3>1, WidthAssumption
  <2>3. x \in CseEvent /\ x.payload = payload
    <3>1. tx_hash \in Nat /\ tx_index \in Nat /\ block_number \in Nat
      BY <1>2
    <3> QED BY <2>2, <3>1, CseEventType
  <2>4. Refilled(frame_stack, n, es, frame_stack')
    <3> HIDE DEF x
    <3> QED BY <1>5 DEF Refilled, x
  <2> HIDE DEF x
  <2>5. es \in Seq(CseEvent)
    BY <2>1, <2>3, Pushed
  <2>6. es = Append(frame_stack[n].events, x)
    OBVIOUS
  <2> HIDE DEF es, n
  <2>7. /\ Len(frame_stack') = Len(frame_stack)
        /\ \A j \in 1..Len(frame_stack) :
             frame_stack'[j].events = IF j = n THEN es ELSE frame_stack[j].events
    BY <1>2, <2>1, <2>4, <2>5, BufferRefilled DEF n, Buffers
  <2>8. \A j \in 1..Len(frame_stack) :
          frame_stack'[j].events = IF j = Len(frame_stack)
                                   THEN Append(frame_stack[j].events, x)
                                   ELSE frame_stack[j].events
    BY <2>6, <2>7 DEF n
  <2>9. \A s : \A q \in Seq(CseEvent) :
          Leads(s, q, a.world) => Leads(s, Append(q, x), b.world)
    BY <2>3
  <2>10. Chain(b, tx_output', frame_stack')
    <3>1. Grows(tx_output, frame_stack, x, tx_output', frame_stack')
      BY <1>5, <2>7, <2>8 DEF Grows
    <3> QED BY <1>1, <1>2, <2>9, <3>1, ChainGrown
  <2> QED BY <1>1, <1>5, <2>10 DEF BridgeAt
<1>6. ~BridgeFail("UnbalancedFrames") /\ ~BridgeFail("FrameIdOverflow")
  BY DEF BridgeFail
<1> QED BY <1>1, <1>3, <1>4, <1>5, <1>6 DEF append_mutation

LEMMA TransactionStartAt ==
  ASSUME NEW a \in View, NEW b \in View, NEW e \in EmesEvent, BridgeAt(a), Bracketing',
         Ran(e, a, b), e.type = "TransactionStart", TranslateTransactionStart(e),
         bridge_result' = "running"
  PROVE  BridgeAt(b)'
<1> DEFINE x == boundary_event("BeginTransaction", e.hash, e.txIndex)
<1>1. /\ b.open /\ b.marks = << >> /\ b.base = a.world /\ b.world = a.world /\ b.log = a.log
  BY DEF Ran, Same
<1>2. /\ tx_open' = TRUE /\ tx_output' = <<x>> /\ frame_stack' = << >>
      /\ UNCHANGED final_output
  BY DEF TranslateTransactionStart, BridgeFail
<1>3. x \in CseEvent /\ x.payload.type # "StateChanged"
  <2>1. e.hash \in Nat /\ e.txIndex \in Nat /\ block_number \in Nat
    BY DEF EmesEvent, BridgeAt, Bracketing
  <2> QED BY <2>1, BoundaryType
<1> HIDE DEF x
<1>4. Chain(b, tx_output', frame_stack')
  BY <1>1, <1>2, <1>3, ChainBegun
<1>5. b.open = TRUE
  BY <1>1, ViewFields
<1> QED BY <1>1, <1>2, <1>4, <1>5 DEF BridgeAt

LEMMA TransactionEndAt ==
  ASSUME NEW a \in View, NEW b \in View, NEW e \in EmesEvent, BridgeAt(a), Bracketing',
         Ran(e, a, b), e.type = "TransactionEnd", TranslateTransactionEnd(e),
         bridge_result' = "running"
  PROVE  BridgeAt(b)'
<1> DEFINE x == boundary_event("EndTransaction", tx_hash, tx_index)
           d == [before |-> a.base, after |-> a.world]
<1>1. /\ a.open /\ a.marks = << >> /\ ~b.open /\ b.log = Append(a.log, d)
  BY DEF Ran, Same
<1>2. /\ tx_open /\ tx_open' = FALSE
      /\ final_output' = final_output \o Append(tx_output, x)
  BY DEF TranslateTransactionEnd, BridgeFail
<1>3. /\ final_output \in Seq(CseEvent) /\ tx_output \in Seq(CseEvent)
      /\ OpenBracket(tx_output, tx_hash)
      /\ tx_hash \in Nat /\ tx_index \in Nat /\ block_number \in Nat
  BY <1>2 DEF BridgeAt, Bracketing
<1>4. x \in CseEvent /\ x.payload.type = "EndTransaction"
  <2> HIDE DEF d
  <2>1. tx_hash \in Nat /\ tx_index \in Nat /\ block_number \in Nat
    BY <1>3
  <2> QED BY <2>1, BoundaryType
<1>5. d \in Effect /\ d.before = a.base /\ d.after = a.world /\ a.log \in Seq(Effect)
  BY ViewFields DEF Effect
<1> HIDE DEF x, d
<1>6. Leads(d.before, tx_output, d.after)
  <2>1. Chain(a, tx_output, frame_stack)
    BY <1>2 DEF BridgeAt
  <2>2. After(a, 0) = a.world
    BY <1>1, ViewFields DEF After
  <2> QED BY <1>5, <2>1, <2>2 DEF Chain
<1>7. Delivers(final_output', b.log)
  <2>1. Delivers(final_output, a.log)
    BY DEF BridgeAt
  <2>2. Delivers(final_output \o Append(tx_output, x), Append(a.log, d))
    BY <1>3, <1>4, <1>5, <1>6, <2>1, DeliversNext
  <2> QED BY <1>1, <1>2, <2>2
<1>8. b.open = FALSE
  BY <1>1, ViewFields
<1> QED BY <1>2, <1>7, <1>8 DEF BridgeAt

LEMMA FrameEnterAt ==
  ASSUME NEW a \in View, NEW b \in View, NEW e \in EmesEvent, BridgeAt(a), Bracketing',
         Ran(e, a, b), e.type = "FrameEnter", TranslateFrameEnter(e),
         bridge_result' = "running"
  PROVE  BridgeAt(b)'
<1> DEFINE f == [frame_id |-> e.frameID, depth |-> e.depth, events |-> << >>]
<1>1. /\ b.marks = Append(a.marks, a.world) /\ b.world = a.world /\ b.base = a.base
      /\ b.open = a.open /\ b.log = a.log
  BY DEF Ran, Same
<1>2. /\ tx_open /\ frame_stack' = Append(frame_stack, f)
      /\ UNCHANGED <<final_output, tx_open, tx_output>>
  BY DEF TranslateFrameEnter, BridgeFail
<1>3. f \in Buffers /\ f.events = << >>
  <2>1. e.frameID \in Nat /\ e.depth \in Nat
    BY WidthAssumption DEF EmesEvent, U64
  <2> QED BY <2>1 DEF Buffers, BufferOf
<1> HIDE DEF f
<1>4. Chain(b, tx_output', frame_stack')
  <2>1. frame_stack \in Seq(Buffers) /\ Chain(a, tx_output, frame_stack)
    BY <1>2 DEF BridgeAt, Bracketing, Buffers
  <2> QED BY <1>1, <1>2, <1>3, <2>1, ChainEntered
<1> QED BY <1>1, <1>2, <1>4 DEF BridgeAt

LEMMA FrameExitAt ==
  ASSUME NEW a \in View, NEW b \in View, NEW e \in EmesEvent, BridgeAt(a), Bracketing',
         Ran(e, a, b), e.type = "FrameExit", TranslateFrameExit(e),
         bridge_result' = "running"
  PROVE  BridgeAt(b)'
<1> DEFINE n == Len(a.marks)
<1>1. /\ a.marks # << >> /\ b.marks = SubSeq(a.marks, 1, n - 1)
      /\ b.world = IF e.reverted THEN a.marks[n] ELSE a.world
      /\ b.base = a.base /\ b.open = a.open /\ b.log = a.log
  BY DEF Ran, Same
<1>2. /\ tx_open /\ frame_stack # << >>
      /\ IF e.reverted THEN Discard ELSE Merge(Top.events)
      /\ UNCHANGED <<final_output, tx_open>>
  BY DEF TranslateFrameExit, BridgeFail
<1>3. /\ Bracketing /\ Chain(a, tx_output, frame_stack) /\ tx_output \in Seq(CseEvent)
      /\ frame_stack \in Seq(Buffers) /\ Len(frame_stack) = n
  BY <1>2 DEF BridgeAt, Bracketing, Buffers, Chain
<1>4. /\ n \in Nat \ {0} /\ Top.events \in Seq(CseEvent) /\ Top = frame_stack[n]
      /\ Pop \in Seq(Buffers) /\ Len(Pop) = n - 1
      /\ \A j \in 1..n - 1 : Pop[j] = frame_stack[j]
  BY <1>2, <1>3, TopAndRest DEF Top, Buffers
<1> HIDE DEF n
<1>5. Chain(b, tx_output', frame_stack')
  <2>1. CASE e.reverted
    <3>1. /\ frame_stack' = Pop /\ tx_output' = tx_output /\ b.world = a.marks[n]
      BY <1>1, <1>2, <2>1 DEF Discard
    <3> QED BY <1>1, <1>3, <1>4, <3>1, ChainLeft DEF n
  <2>2. CASE ~e.reverted /\ n = 1
    <3>1. /\ frame_stack' = Pop /\ tx_output' = tx_output \o frame_stack[n].events
          /\ b.world = a.world
      BY <1>1, <1>2, <1>3, <1>4, <2>2 DEF Merge
    <3> QED BY <1>1, <1>3, <1>4, <2>2, <3>1, ChainLeft DEF n
  <2>3. CASE ~e.reverted /\ n > 1
    <3> DEFINE m == n - 1
               es == Pop[m].events \o Top.events
    <3>1. /\ frame_stack' = [Pop EXCEPT ![m].events = @ \o Top.events]
          /\ tx_output' = tx_output /\ b.world = a.world
      BY <1>1, <1>2, <1>3, <1>4, <2>3 DEF Merge
    <3>2. m \in 1..Len(Pop) /\ m \in 1..m /\ Pop[m] = frame_stack[m]
      BY <1>4, <2>3
    <3>3. Refilled(Pop, m, es, frame_stack')
      BY <3>1 DEF Refilled
    <3>4. es \in Seq(CseEvent)
      <4>1. Pop[m] \in Buffers
        <5> HIDE DEF m
        <5> QED BY <1>4, <3>2, ElementOfSeq
      <4>2. Pop[m].events \in Seq(CseEvent)
        BY <4>1 DEF Buffers, BufferOf
      <4> QED BY <1>4, <4>2, ConcatElements
    <3>5. es = frame_stack[m].events \o frame_stack[n].events
      BY <1>4, <3>2
    <3> HIDE DEF es
    <3>6. /\ Len(frame_stack') = m
          /\ \A j \in 1..m : frame_stack'[j].events = IF j = m THEN es ELSE Pop[j].events
      <4>1. Pop \in Seq(BufferOf(Nat, Nat)) /\ Len(Pop) = m
        BY <1>4 DEF Buffers
      <4> HIDE DEF m
      <4> QED BY <3>2, <3>3, <3>4, <4>1, BufferRefilled
    <3>7. \A j \in 1..n - 1 :
            frame_stack'[j].events = IF j = n - 1
                                     THEN frame_stack[j].events \o frame_stack[n].events
                                     ELSE frame_stack[j].events
      BY <1>4, <3>5, <3>6
    <3> QED BY <1>1, <1>3, <2>3, <3>1, <3>6, <3>7, ChainLeft DEF n
  <2> QED BY <1>4, <2>1, <2>2, <2>3
<1> QED BY <1>1, <1>2, <1>5 DEF BridgeAt

\* One iteration of the loop follows one step of the view.
LEMMA TranslateAt ==
  ASSUME NEW a \in View, NEW b \in View, NEW e \in EmesEvent, BridgeAt(a), Ran(e, a, b),
         Translate(e), bridge_result' = "running"
  PROVE  BridgeAt(b)'
<1>1. Bracketing'
  BY TranslateBracketing DEF BridgeAt
<1>2. CASE e.type \in {"BlockStart", "BlockCommit"}
  <2>1. b = a
    BY <1>2 DEF Ran
  <2>2. UNCHANGED <<final_output, tx_open, tx_output, frame_stack>>
    BY <1>2 DEF Translate, TranslateBlockStart, TranslateBlockCommit, bridgeVars
  <2> QED BY <1>1, <2>1, <2>2 DEF BridgeAt
<1>3. CASE e.type = "TransactionStart"
  BY <1>1, <1>3, TransactionStartAt DEF Translate
<1>4. CASE e.type = "TransactionEnd"
  BY <1>1, <1>4, TransactionEndAt DEF Translate
<1>5. CASE e.type = "FrameEnter"
  BY <1>1, <1>5, FrameEnterAt DEF Translate
<1>6. CASE e.type = "FrameExit"
  BY <1>1, <1>6, FrameExitAt DEF Translate
<1>7. CASE e.type = "Mutation"
  <2> DEFINE p == [type |-> "StateChanged", key |-> e.key, before |-> e.before,
                   after |-> e.after]
  <2>1. /\ p \in Payload /\ p.type = "StateChanged" /\ p.key = e.key
        /\ p.before = e.before /\ p.after = e.after
        /\ e.key \in Key /\ e.after \in Value
    BY <1>7 DEF EmesEvent, Payload
  <2>2. append_mutation(e.frameID, p)
    BY <1>7 DEF Translate, TranslateMutation
  <2>3. /\ Tagged(e, a) /\ e.before = a.world[e.key]
        /\ b.world = [a.world EXCEPT ![e.key] = e.after]
        /\ Same(a, b, {"marks", "open", "base", "log"})
    BY <1>7 DEF Ran
  <2> HIDE DEF p
  <2>4. ASSUME NEW s, NEW q \in Seq(CseEvent), NEW x \in CseEvent, x.payload = p,
               Leads(s, q, a.world)
        PROVE  Leads(s, Append(q, x), b.world)
    <3>1. /\ x.payload.type = "StateChanged" /\ x.payload.key = e.key
          /\ x.payload.before = a.world[e.key] /\ x.payload.after = e.after
          /\ a.world \in World /\ Yields(s, q, a.world) /\ Continues(s, q)
      BY <2>1, <2>3, <2>4, ViewFields DEF Leads
    <3>2. /\ Yields(s, Append(q, x), [a.world EXCEPT ![e.key] = e.after])
          /\ Continues(s, Append(q, x))
      BY <2>1, <3>1, AppendWrite
    <3> QED BY <2>3, <3>2 DEF Leads
  <2> QED BY <1>1, <2>1, <2>2, <2>3, <2>4, AppendAt
<1>8. CASE e.type = "SelfDestruct"
  <2> DEFINE p == [type |-> "ContractDestroyed", address |-> e.address]
  <2>1. p \in Payload /\ p.type = "ContractDestroyed"
    BY <1>8 DEF EmesEvent, Payload
  <2>2. append_mutation(e.frameID, p)
    BY <1>8 DEF Translate, TranslateSelfDestruct
  <2>3. Tagged(e, a) /\ b = a /\ Same(a, b, {"marks", "open", "base", "log"})
    BY <1>8 DEF Ran, Same
  <2> HIDE DEF p
  <2>4. ASSUME NEW s, NEW q \in Seq(CseEvent), NEW x \in CseEvent, x.payload = p,
               Leads(s, q, a.world)
        PROVE  Leads(s, Append(q, x), b.world)
    <3>1. x.payload.type # "StateChanged" /\ Yields(s, q, a.world) /\ Continues(s, q)
      BY <2>1, <2>4 DEF Leads
    <3> QED BY <2>3, <3>1, AppendOther DEF Leads
  <2> QED BY <1>1, <2>1, <2>2, <2>3, <2>4, AppendAt
<1>9. e.type # "AccountCreated"
  BY DEF Ran
<1> QED BY <1>2, <1>3, <1>4, <1>5, <1>6, <1>7, <1>8, <1>9 DEF Ran

\* Before the first event, and after the events are numbered.
LEMMA InitAt ==
  ASSUME BridgeInit, NEW v \in View, Fresh(v)
  PROVE  BridgeAt(v)
<1>1. /\ Bracketing /\ final_output = << >> /\ tx_open = FALSE
      /\ v.log = << >> /\ v.open = FALSE
  BY InitBracketing, ViewFields DEF BridgeInit, Fresh
<1> QED BY <1>1, DeliversNone DEF BridgeAt

Numbered(s) == \A i \in 1..Len(s) : s[i].sequence_number = i - 1

LEMMA FinishAt ==
  ASSUME NEW v \in View, BridgeAt(v), TranslateFinish, bridge_result' = "Ok"
  PROVE  /\ final_output' \in Seq(CseEvent) /\ Numbered(final_output')
         /\ Delivers(final_output', v.log)
<1>1. /\ final_output' = [i \in 1..Len(final_output) |->
                            [final_output[i] EXCEPT !.sequence_number = i - 1]]
      /\ Bracketing /\ Delivers(final_output, v.log)
  BY DEF TranslateFinish, BridgeFail, BridgeAt
<1>2. Bracketing'
  BY <1>1, FinishBracketing
<1> DEFINE s == final_output
           r == final_output'
<1>3. s \in Seq(CseEvent) /\ r \in Seq(CseEvent) /\ Len(s) \in Nat
  BY <1>1, <1>2 DEF Bracketing
<1>4. Len(r) = Len(s)
  BY <1>1, <1>3
<1>5. ASSUME NEW i \in 1..Len(s)
      PROVE  r[i].payload = s[i].payload /\ r[i].sequence_number = i - 1
  <2>1. s[i] \in CseEvent /\ r[i] = [s[i] EXCEPT !.sequence_number = i - 1]
    BY <1>1, <1>3
  <2> HIDE DEF s, r
  <2> QED BY <2>1 DEF CseEvent
<1> HIDE DEF s, r
<1>6. Delivers(r, v.log)
  BY <1>1, <1>3, <1>4, <1>5, DeliversPayloads DEF s
<1>7. Numbered(r)
  BY <1>4, <1>5 DEF Numbered
<1> QED BY <1>3, <1>6, <1>7 DEF r

-----------------------------------------------------------------------------
(***************************************************************************)
(* A bucket that is reduced: the net effect of its transaction.            *)
(***************************************************************************)

\* The places that a timeline lists have a first and a last one.
LEMMA ListsEnds ==
  ASSUME NEW q, NEW h, NEW W \in SUBSET Nat, W # {}, Lists(h, q, W)
  PROVE  /\ \E x \in W : \A m \in W : x <= m
         /\ \E y \in W : \A m \in W : m <= y
<1> DEFINE L == Len(h)
<1>1. L \in Nat
  BY LenProperties DEF Lists, IsSequence
<1>2. PICK place \in [1..L -> W] :
        /\ \A m, n \in 1..L : m < n => place[m] < place[n]
        /\ \A j \in W : \E n \in 1..L : place[n] = j
  BY DEF Lists
<1> HIDE DEF L
<1>3. 1 \in 1..L /\ L \in 1..L
  <2>1. PICK m \in W : TRUE
    OBVIOUS
  <2>2. PICK n \in 1..L : place[n] = m
    BY <1>2
  <2> QED BY <1>1, <2>2
<1>4. ASSUME NEW m \in W
      PROVE  place[1] <= m /\ m <= place[L]
  <2>1. PICK n \in 1..L : place[n] = m
    BY <1>2
  <2>2. (n = 1 \/ 1 < n) /\ (n = L \/ n < L)
    BY <1>1
  <2>3. place[1] \in Nat /\ place[L] \in Nat /\ m \in Nat
    BY <1>2, <1>3
  <2>4. 1 < n => place[1] < place[n]
    BY <1>2, <1>3
  <2>5. n < L => place[n] < place[L]
    BY <1>2, <1>3
  <2> QED BY <2>1, <2>2, <2>3, <2>4, <2>5
<1>5. place[1] \in W /\ place[L] \in W
  BY <1>2, <1>3
<1> QED BY <1>4, <1>5

\* Every replay of a segment starts from the value before the segment's first write of
\* a cell, and leaves the value after its last write.
LEMMA ReplayEnds ==
  ASSUME NEW q \in Seq(CseEvent), NEW k \in Key,
         NEW h, NEW W, W = WritesIn(q, k, 0, Len(q)), Lists(h, q, W), W # {}
  PROVE  \E x, y \in 1..Len(q) :
           \A a, b : Leads(a, q, b) =>
             a[k] = q[x].payload.before /\ b[k] = q[y].payload.after
<1>1. Len(q) \in Nat /\ W # {} /\ W \in SUBSET (1..Len(q)) /\ W \in SUBSET Nat
  BY DEF WritesIn
<1>2. \A m \in 1..Len(q) : Writes(q, m, k) <=> m \in W
  BY DEF WritesIn
<1>3. PICK x \in W : \A m \in W : x <= m
  BY <1>1, ListsEnds
<1>4. PICK y \in W : \A m \in W : m <= y
  BY <1>1, ListsEnds
<1>5. /\ x \in 1..Len(q) /\ y \in 1..Len(q) /\ Writes(q, x, k) /\ Writes(q, y, k)
  BY <1>1, <1>2
<1>6. \A m \in 1..x - 1 : ~Writes(q, m, k)
  <2> TAKE m \in 1..x - 1
  <2>1. m \in 1..Len(q) /\ ~(x <= m)
    BY <1>1, <1>5
  <2> QED BY <1>2, <1>3, <2>1
<1>7. \A m \in y+1..Len(q) : ~Writes(q, m, k)
  <2> TAKE m \in y+1..Len(q)
  <2>1. m \in 1..Len(q) /\ ~(m <= y)
    BY <1>1, <1>5
  <2> QED BY <1>2, <1>4, <2>1
<1>8. ASSUME NEW a, NEW b, Leads(a, q, b)
      PROVE  a[k] = q[x].payload.before /\ b[k] = q[y].payload.after
  <2>1. q[x].payload.before = a[k]
    BY <1>5, <1>6, <1>8 DEF Leads, Continues
  <2>2. b[k] = q[y].payload.after
    BY <1>5, <1>7, <1>8 DEF Leads, Yields
  <2> QED BY <2>1, <2>2
<1> QED BY <1>5, <1>8

\* The entry of a cell in a table that sums up the effect d.
SumsUp(t, d, k) ==
  IF k \in DOMAIN t THEN t[k].initial = d.before[k] /\ t[k].terminal = d.after[k]
  ELSE d.before[k] = d.after[k]

LEMMA EffectReduced ==
  ASSUME NEW s \in Seq(CseEvent), NEW b, NEW i, Complete(s, b, i), NEW d,
         NEW x \in 1..Len(s), NEW y \in 1..Len(s), Stretch(s, x, y, i, d),
         \A h \in Timelines(b) : ~Discontinuous(h), NEW k \in Key
  PROVE  SumsUp(ReducedBucket(b).state_table, d, k)
<1> DEFINE q == SubSeq(s, x + 1, y - 1)
           t == ReducedBucket(b).state_table
           any == CHOOSE v \in Value : TRUE
           u == [l \in Key |-> IF l \in DOMAIN t THEN t[l].initial ELSE any]
           z == [l \in Key |-> IF l \in DOMAIN t THEN t[l].terminal ELSE any]
<1>1. Nth(s, "BeginTransaction", i) = x /\ Nth(s, "EndTransaction", i) = y
  <2>1. /\ x \in Places(s, "BeginTransaction") /\ y \in Places(s, "EndTransaction")
        /\ Until(s, "BeginTransaction", x) = i /\ Until(s, "EndTransaction", y) = i
    BY DEF Stretch, Places, TxBegun, TxEnded
  <2> QED BY <2>1, NthIs
<1>2. q \in Seq(CseEvent) /\ Holds(b, q, 0, Len(q))
  <2>1. LET p == SubSeq(s, Nth(s, "BeginTransaction", i) + 1, Nth(s, "EndTransaction", i) - 1)
        IN  p \in Seq(CseEvent) /\ Holds(b, p, 0, Len(p))
    BY SegmentHeld
  <2> QED BY <1>1, <2>1
<1>3. Leads(d.before, q, d.after)
  BY DEF Stretch
<1> HIDE DEF q
<1>4. ReplaysTo(t, q)
  BY <1>2, BucketReduced
<1> HIDE DEF t
<1>5. Leads(u, q, z) /\ (k \in DOMAIN t <=> \E j \in DOMAIN q : Writes(q, j, k))
  BY <1>4 DEF ReplaysTo, Leads
<1>6. /\ k \in DOMAIN t => u[k] = t[k].initial /\ z[k] = t[k].terminal
  OBVIOUS
<1>7. DOMAIN q = 1..Len(q)
  BY <1>2
<1> HIDE DEF u, z
<1>8. CASE k \in DOMAIN t
  <2>1. DOMAIN t = DOMAIN b.state_tables
    BY DEF t, ReducedBucket
  <2>2. /\ Lists(b.state_tables[k], q, WritesIn(q, k, 0, Len(q)))
        /\ WritesIn(q, k, 0, Len(q)) # {}
    BY <1>2, <1>8, <2>1 DEF Holds
  <2> DEFINE h == b.state_tables[k]
             W == WritesIn(q, k, 0, Len(q))
             before == d.before
             after == d.after
  <2>3. /\ W = WritesIn(q, k, 0, Len(q)) /\ Lists(h, q, W) /\ W # {}
        /\ Leads(before, q, after) /\ Leads(u, q, z) /\ q \in Seq(CseEvent)
    BY <1>2, <1>3, <1>5, <2>2
  <2> HIDE DEF h, W, before, after
  <2>4. \E m, n \in 1..Len(q) :
          \A f, g : Leads(f, q, g) => f[k] = q[m].payload.before /\ g[k] = q[n].payload.after
    BY <2>3, ReplayEnds
  <2>5. PICK m, n \in 1..Len(q) :
          \A f, g : Leads(f, q, g) => f[k] = q[m].payload.before /\ g[k] = q[n].payload.after
    BY <2>4
  <2>6. before[k] = u[k] /\ after[k] = z[k]
    BY <2>3, <2>5
  <2>7. d.before[k] = u[k] /\ d.after[k] = z[k]
    BY <2>6 DEF before, after
  <2> QED BY <1>6, <1>8, <2>7 DEF SumsUp, t
<1>9. CASE k \notin DOMAIN t
  <2>1. \A j \in 1..Len(q) : ~Writes(q, j, k)
    BY <1>5, <1>7, <1>9
  <2>2. d.after[k] = d.before[k]
    BY <1>3, <2>1 DEF Leads, Yields
  <2> QED BY <1>9, <2>2 DEF SumsUp, t
<1> QED BY <1>8, <1>9

-----------------------------------------------------------------------------
(***************************************************************************)
(* A bucket that is reduced: the events it accounts for.                   *)
(***************************************************************************)

\* Counting on, and past a place of the type.
LEMMA UntilGrows ==
  ASSUME NEW E, NEW s \in Seq(E), NEW type, NEW a \in Int, NEW b \in Int, a <= b
  PROVE  /\ Until(s, type, a) <= Until(s, type, b)
         /\ a < b /\ b \in Places(s, type) => Until(s, type, a) < Until(s, type, b)
<1> DEFINE A == {i \in Places(s, type) : i <= a}
           B == {i \in Places(s, type) : i <= b}
<1>1. /\ IsFiniteSet(A) /\ Cardinality(A) \in Nat
      /\ IsFiniteSet(B) /\ Cardinality(B) \in Nat
  BY UntilNat DEF Until
<1>2. \A i \in Places(s, type) : i \in Int
  BY DEF Places
<1>3. A \in SUBSET B
  BY <1>2
<1>4. a < b /\ b \in Places(s, type) => b \in B /\ b \notin A
  BY <1>2
<1>5. Until(s, type, a) = Cardinality(A) /\ Until(s, type, b) = Cardinality(B)
  BY DEF Until
<1> HIDE DEF A, B
<1>6. Cardinality(A) <= Cardinality(B)
  BY <1>1, <1>3, FS_Subset
<1>7. ASSUME a < b, b \in Places(s, type)
      PROVE  Cardinality(A) < Cardinality(B)
  <2>1. A \cup {b} \in SUBSET B
    BY <1>3, <1>4, <1>7
  <2>2. Cardinality(A \cup {b}) = Cardinality(A) + 1
    BY <1>1, <1>4, <1>7, FS_AddElement
  <2>3. Cardinality(A \cup {b}) <= Cardinality(B)
    BY <1>1, <2>1, FS_Subset
  <2> QED BY <1>1, <2>2, <2>3
<1> QED BY <1>5, <1>6, <1>7

\* Between the boundaries of transaction i are the events of which i is the number of
\* transactions begun.
LEMMA BetweenBoundaries ==
  ASSUME NEW E, NEW s \in Seq(E), Bracketed(s), NEW i,
         NEW x \in 1..Len(s), s[x].payload.type = "BeginTransaction", TxBegun(s, x) = i,
         NEW y \in 1..Len(s), s[y].payload.type = "EndTransaction", TxEnded(s, y) = i,
         NEW j \in 1..Len(s), s[j].payload.type \notin TxBoundary
  PROVE  j \in x+1..y-1 <=> i = Until(s, "BeginTransaction", j)
<1>1. /\ x \in Int /\ y \in Int /\ j \in Int /\ Len(s) \in Nat /\ DOMAIN s = 1..Len(s)
      /\ j # x /\ j # y
  BY DEF TxBoundary
<1>2. x \in Places(s, "BeginTransaction") /\ y \in Places(s, "EndTransaction")
  BY <1>1 DEF Places
<1>3. TxBegun(s, j) - TxEnded(s, j) = 1
  BY <1>1 DEF Bracketed, Open, TxBegun, TxEnded, TxBoundary
<1>4. TxBegun(s, j) \in Nat /\ TxEnded(s, j) \in Nat /\ i \in Nat
  BY UntilNat DEF TxBegun, TxEnded
<1>5. ASSUME x < j, j < y
      PROVE  TxBegun(s, j) = i
  <2>1. i <= TxBegun(s, j)
    BY <1>1, <1>5, UntilGrows DEF TxBegun
  <2>2. TxEnded(s, j) < i
    BY <1>1, <1>2, <1>5, UntilGrows DEF TxEnded
  <2> QED BY <1>3, <1>4, <2>1, <2>2
<1>6. ASSUME TxBegun(s, j) = i
      PROVE  x < j /\ j < y
  <2>1. ~(j < x)
    BY <1>1, <1>2, <1>4, <1>6, UntilGrows DEF TxBegun
  <2>2. ~(y < j)
    <3>1. ASSUME y < j PROVE i <= TxEnded(s, j)
      BY <1>1, <3>1, UntilGrows DEF TxEnded
    <3> QED BY <1>3, <1>4, <1>6, <3>1
  <2> QED BY <1>1, <2>1, <2>2
<1> QED BY <1>1, <1>5, <1>6 DEF TxBegun

\* A reduced bucket accounts for the events between its boundaries, each by its
\* number.
LEMMA BucketAccounts ==
  ASSUME NEW s \in Seq(CseEvent), Numbered(s), NEW b,
         NEW x \in 1..Len(s), NEW y \in 1..Len(s), Holds(b, s, x, y - 1),
         NEW j \in 1..Len(s)
  PROVE  j - 1 \in AccountedBy(ReducedBucket(b)) <=>
           j \in x+1..y-1 /\ s[j].payload.type \notin TxBoundary
<1> DEFINE T == b.state_tables
           W(k) == WritesIn(s, k, x, y - 1)
           L == LifecycleIn(s, x, y - 1)
           r == ReducedBucket(b)
<1>1. /\ Len(s) \in Nat /\ \A m \in x+1..y-1 : m \in 1..Len(s)
      /\ \A m \in 1..Len(s) : s[m].sequence_number = m - 1 /\ m \in Int
  BY DEF Numbered
<1>2. /\ DOMAIN T = {k \in Key : W(k) # {}}
      /\ \A k \in DOMAIN T : Lists(T[k], s, W(k))
      /\ LifecycleIds(b.lifecycle_table) = {s[m].sequence_number : m \in L}
  BY KeepsIds DEF Holds, Observes
<1>3. /\ r.state_table = [k \in DOMAIN T |-> Reduced(T[k])]
      /\ r.lifecycle_table = b.lifecycle_table
  BY DEF ReducedBucket
<1>4. /\ \A k : W(k) \in SUBSET (x+1..y-1)
      /\ L \in SUBSET (x+1..y-1)
      /\ \A k : j \in W(k) <=> j \in x+1..y-1 /\ Writes(s, j, k)
      /\ j \in L <=> j \in x+1..y-1 /\ s[j].payload.type \in LifecycleType
  BY DEF WritesIn, LifecycleIn
<1>5. \A k : W(k) \in SUBSET Nat
  BY <1>1, <1>4
<1> HIDE DEF T, W, L, r
<1>6. ASSUME NEW k \in DOMAIN T
      PROVE  r.state_table[k].provenance = {s[m].sequence_number : m \in W(k)}
  <2> DEFINE V == W(k)
             h == T[k]
  <2>1. V \in SUBSET Nat /\ Lists(h, s, V) /\ r.state_table[k] = Reduced(h)
    BY <1>2, <1>3, <1>5
  <2> HIDE DEF V, h
  <2>2. Reduced(h).provenance = {s[m].sequence_number : m \in V}
    BY <2>1, TimelineReduced
  <2> QED BY <2>1, <2>2 DEF V
<1>7. \A V \in SUBSET (x+1..y-1) : j - 1 \in {s[m].sequence_number : m \in V} <=> j \in V
  <2> TAKE V \in SUBSET (x+1..y-1)
  <2>1. \A m \in V : m \in Int /\ s[m].sequence_number = m - 1
    BY <1>1
  <2>2. ASSUME j - 1 \in {s[m].sequence_number : m \in V} PROVE j \in V
    <3>1. PICK m \in V : j - 1 = s[m].sequence_number
      BY <2>2
    <3>2. m = j
      BY <1>1, <2>1, <3>1
    <3> QED BY <3>2
  <2>3. ASSUME j \in V PROVE j - 1 \in {s[m].sequence_number : m \in V}
    BY <2>1, <2>3
  <2> QED BY <2>2, <2>3
<1>8. AccountedBy(r) = (UNION {r.state_table[k].provenance : k \in DOMAIN T})
                         \cup LifecycleIds(b.lifecycle_table)
  <2>1. DOMAIN r.state_table = DOMAIN T
    BY <1>3
  <2> QED BY <1>3, <2>1 DEF AccountedBy, LifecycleIds
<1>9. j - 1 \in AccountedBy(r) <=> (\E k \in DOMAIN T : j \in W(k)) \/ j \in L
  <2>1. \A k \in DOMAIN T : j - 1 \in r.state_table[k].provenance <=> j \in W(k)
    BY <1>4, <1>6, <1>7
  <2>2. j - 1 \in LifecycleIds(b.lifecycle_table) <=> j \in L
    BY <1>2, <1>4, <1>7
  <2> QED BY <1>8, <2>1, <2>2
<1>10. s[j].payload \in Payload
  <2>1. s[j] \in CseEvent
    OBVIOUS
  <2> QED BY <2>1 DEF CseEvent
<1>11. s[j].payload.type \notin TxBoundary <=>
         (\E k \in Key : Writes(s, j, k)) \/ s[j].payload.type \in LifecycleType
  BY <1>10 DEF Payload, Writes, TxBoundary, LifecycleType
<1>12. (\E k \in DOMAIN T : j \in W(k)) <=> \E k \in Key : j \in W(k)
  BY <1>2
<1> QED BY <1>4, <1>9, <1>11, <1>12 DEF r

-----------------------------------------------------------------------------
(***************************************************************************)
(* The way of a block.                                                     *)
(***************************************************************************)

\* The bridge has read pos events, and is at the view of the execution there.
Bridging ==
  /\ pos \in 0..Len(events)
  /\ \E g : \E v \in View :
       Run(events, g) /\ g[Len(events)] = Now /\ g[pos] = v /\ BridgeAt(v)

\* What the bridge made of the block.
Translated ==
  final_output \in Seq(CseEvent) /\ Numbered(final_output) /\ Delivers(final_output, txLog)

\* The builder has read pos events of it, or all of them.
Building ==
  \/ /\ builder_result = "partition" /\ pos \in 0..Len(final_output)
     /\ Parted(SubSeq(final_output, 1, pos), buckets, current_bucket)
  \/ builder_result = "reduce" /\ Parted(final_output, buckets, << >>)

\* What the builder made of it.
Reduction ==
  /\ Parted(final_output, buckets, << >>)
  /\ \A i \in DOMAIN buckets : \A h \in Timelines(buckets[i]) : ~Discontinuous(h)
  /\ reduced_ir = [i \in DOMAIN buckets |-> ReducedBucket(buckets[i])]

\* The stages before one have not failed, and those after it have not begun.
WayRight ==
  /\ HostInvariant /\ Told
  /\ stage \in {"trace", "gate", "parse", "bridge", "builder", "done", "failed"}
  /\ stage \in {"gate", "parse", "bridge"} => ~panicked
  /\ stage \in {"trace", "gate", "parse"} => BridgeInit
  /\ stage \in {"trace", "gate", "parse", "bridge"} => BuilderInit
  /\ stage = "trace" => pos = 0
  /\ stage \in {"parse", "bridge"} => fixture = MarshalJSON(events)
  /\ stage = "parse" => pos = 0
  /\ stage = "bridge" => Bridging
  /\ stage \in {"builder", "done"} => Translated
  /\ stage = "builder" => Building
  /\ stage = "done" => Reduction

\* The execution, when no hook is called.
LEMMA HostRests ==
  ASSUME HostInvariant, Told, UNCHANGED hostVars
  PROVE  /\ HostInvariant' /\ Told' /\ Now' = Now
         /\ UNCHANGED <<events, panicked, txLog>>
<1>1. UNCHANGED <<world, snapshots, phase, txBase, txLog, events, panicked>>
  BY DEF hostVars, evmVars, tracerVars
<1>2. Now' = Now
  BY <1>1 DEF Now
<1> QED BY <1>1, <1>2, HostStays DEF Told

LEMMA BridgeRests ==
  ASSUME NEW v, BridgeAt(v), UNCHANGED bridgeVars
  PROVE  BridgeAt(v)'
<1> USE DEF bridgeVars, bridgeContext
<1>1. Bracketing'
  BY DEF BridgeAt, Bracketing
<1> QED BY <1>1 DEF BridgeAt

LEMMA TraceRight ==
  ASSUME WayRight, Trace
  PROVE  WayRight'
<1>1. /\ stage = "trace" /\ stage' = "trace" /\ pos' = 0
      /\ BridgeInit /\ BuilderInit /\ UNCHANGED <<bridgeVars, builderVars>>
  BY DEF WayRight, Trace
<1>2. BridgeInit' /\ BuilderInit'
  BY <1>1 DEF BridgeInit, BuilderInit, bridgeVars, bridgeContext, builderVars
<1>3. HostInvariant' /\ Told'
  BY HostStepTold DEF WayRight, Trace
<1> QED BY <1>1, <1>2, <1>3 DEF WayRight

LEMMA GateRight ==
  ASSUME WayRight, BeginGate \/ ReadGate \/ EndGate
  PROVE  WayRight'
<1>1. /\ HostInvariant' /\ Told' /\ UNCHANGED <<events, panicked>>
  BY HostRests DEF WayRight, BeginGate, ReadGate, EndGate
<1>2. /\ stage \in {"trace", "gate"} /\ stage' \in {"gate", "parse", "failed"}
      /\ BridgeInit /\ BuilderInit /\ UNCHANGED <<bridgeVars, builderVars>>
      /\ stage' # "failed" => ~panicked
      /\ stage' = "parse" => pos' = 0 /\ fixture' = MarshalJSON(events)
  BY DEF WayRight, BeginGate, ReadGate, EndGate
<1>3. BridgeInit' /\ BuilderInit'
  BY <1>2 DEF BridgeInit, BuilderInit, bridgeVars, bridgeContext, builderVars
<1> QED BY <1>1, <1>2, <1>3 DEF WayRight, MarshalJSON

LEMMA ParseRight ==
  ASSUME WayRight, ParseFixture
  PROVE  WayRight'
<1>1. /\ HostInvariant' /\ Told' /\ UNCHANGED <<events, panicked>> /\ Now' = Now
  BY HostRests DEF WayRight, ParseFixture
<1>2. /\ stage = "parse" /\ stage' \in {"bridge", "failed"}
      /\ BridgeInit /\ BuilderInit /\ UNCHANGED <<bridgeVars, builderVars>>
      /\ ~panicked /\ pos' = 0 /\ fixture' = MarshalJSON(events)
  BY DEF WayRight, ParseFixture
<1>3. BridgeInit' /\ BuilderInit'
  BY <1>2 DEF BridgeInit, BuilderInit, bridgeVars, bridgeContext, builderVars
<1>4. Bridging'
  <2>1. PICK g : Run(events, g) /\ g[Len(events)] = Now
    BY <1>2 DEF WayRight, Told, Tells
  <2>2. Len(events) \in Nat
    BY DEF WayRight, HostInvariant, HostTypeOK
  <2>3. g[0] \in View /\ Fresh(g[0])
    BY <2>1, <2>2 DEF Run
  <2>4. PICK v \in View : g[0] = v
    BY <2>3
  <2>5. BridgeAt(v)
    BY <1>2, <2>3, <2>4, InitAt
  <2>6. BridgeAt(v)'
    BY <1>2, <2>5, BridgeRests
  <2> QED BY <1>1, <1>2, <2>1, <2>2, <2>4, <2>6 DEF Bridging
<1> QED BY <1>1, <1>2, <1>3, <1>4 DEF WayRight, MarshalJSON

LEMMA ReadBridgeRight ==
  ASSUME WayRight, ReadBridge
  PROVE  WayRight'
<1>1. /\ HostInvariant' /\ Told' /\ UNCHANGED <<events, panicked>> /\ Now' = Now
  BY HostRests DEF WayRight, ReadBridge
<1>2. /\ stage = "bridge" /\ stage' \in {"bridge", "failed"}
      /\ stage' = "bridge" => bridge_result' = "running"
      /\ BuilderInit /\ UNCHANGED builderVars /\ Bridging /\ ~panicked
      /\ pos' = pos + 1 /\ fixture = MarshalJSON(events) /\ fixture' = fixture
      /\ pos < Len(fixture) /\ Translate(GoEvent(fixture[pos + 1]))
  BY DEF WayRight, ReadBridge
<1>3. BuilderInit'
  BY <1>2 DEF BuilderInit, builderVars
<1>4. events \in Seq(EmesEvent)
  BY DEF WayRight, HostInvariant, HostTypeOK
<1>5. Len(fixture) = Len(events) /\ pos \in Nat /\ pos + 1 \in 1..Len(events)
  <2>1. Len(events) \in Nat /\ DOMAIN fixture = 1..Len(events)
    BY <1>2, <1>4 DEF MarshalJSON
  <2>2. fixture \in Seq(Range(fixture)) /\ Len(fixture) = Len(events)
    BY <1>2, <1>4, <2>1 DEF MarshalJSON, Range
  <2> QED BY <1>2, <1>4, <2>1, <2>2 DEF Bridging
<1>6. ASSUME stage' = "bridge" PROVE Bridging'
  <2>1. PICK g : \E v \in View :
                Run(events, g) /\ g[Len(events)] = Now /\ g[pos] = v /\ BridgeAt(v)
    BY <1>2 DEF Bridging
  <2>2. PICK e \in EmesEvent : e = events[pos + 1]
    BY <1>4, <1>5
  <2>3. GoEvent(fixture[pos + 1]) = Reread(e)
    BY <1>2, <1>4, <1>5, <2>2 DEF MarshalJSON, Reread
  <2>4. PICK v \in View : g[pos] = v /\ BridgeAt(v)
    BY <2>1
  <2>5. PICK w \in View : g[pos + 1] = w /\ Ran(e, v, w)
    BY <1>4, <1>5, <2>1, <2>2, <2>4 DEF Run
  <2>6. Translate(e)
    BY <1>2, <2>2, <2>3, RereadTranslated
  <2>7. BridgeAt(w)'
    BY <1>2, <1>6, <2>4, <2>5, <2>6, TranslateAt
  <2>8. Run(events, g) /\ g[Len(events)] = Now /\ g[pos'] = w
    BY <1>2, <2>1, <2>5
  <2> QED BY <1>1, <1>2, <1>5, <2>7, <2>8 DEF Bridging
<1> QED BY <1>1, <1>2, <1>3, <1>6 DEF WayRight, MarshalJSON

LEMMA EndBridgeRight ==
  ASSUME WayRight, EndBridge
  PROVE  WayRight'
<1>1. /\ HostInvariant' /\ Told' /\ UNCHANGED <<events, panicked, txLog>>
  BY HostRests DEF WayRight, EndBridge
<1>2. /\ stage = "bridge" /\ stage' \in {"builder", "failed"}
      /\ stage' = "builder" => bridge_result' = "Ok"
      /\ BuilderInit /\ UNCHANGED builderVars /\ Bridging
      /\ pos = Len(fixture) /\ pos' = 0 /\ fixture = MarshalJSON(events)
      /\ TranslateFinish
  BY DEF WayRight, EndBridge
<1>3. ASSUME stage' = "builder" PROVE Translated' /\ Building'
  <2>1. PICK g : \E v \in View :
                Run(events, g) /\ g[Len(events)] = Now /\ g[pos] = v /\ BridgeAt(v)
    BY <1>2 DEF Bridging
  <2>2. PICK v \in View : g[Len(events)] = Now /\ g[pos] = v /\ BridgeAt(v)
    BY <2>1
  <2>3. pos = Len(events)
    <3>1. events \in Seq(EmesEvent)
      BY DEF WayRight, HostInvariant, HostTypeOK
    <3>2. Len(events) \in Nat /\ DOMAIN fixture = 1..Len(events)
      BY <1>2, <3>1 DEF MarshalJSON
    <3>3. fixture \in Seq(Range(fixture)) /\ Len(fixture) = Len(events)
      BY <1>2, <3>1, <3>2 DEF MarshalJSON, Range
    <3> QED BY <1>2, <3>3
  <2>4. v.log = txLog
    BY <2>2, <2>3 DEF Now
  <2>5. /\ final_output' \in Seq(CseEvent) /\ Numbered(final_output')
        /\ Delivers(final_output', v.log)
    BY <1>2, <1>3, <2>2, FinishAt
  <2>6. /\ buckets' = << >> /\ current_bucket' = << >> /\ builder_result' = "partition"
    BY <1>2 DEF BuilderInit, builderVars
  <2>7. SubSeq(final_output', 1, 0) = << >> /\ Len(final_output') \in Nat
    BY <2>5
  <2>8. Translated'
    BY <1>1, <2>4, <2>5 DEF Translated
  <2>9. /\ pos' = 0 /\ pos' \in 0..Len(final_output')
        /\ SubSeq(final_output', 1, pos') = << >>
    BY <1>2, <2>7
  <2>10. Parted(SubSeq(final_output', 1, pos'), buckets', current_bucket')
    BY <2>6, <2>9, PartedNone
  <2> QED BY <2>6, <2>8, <2>9, <2>10 DEF Building
<1> QED BY <1>1, <1>2, <1>3 DEF WayRight

\* The next event of a stream.
LEMMA PrefixNext ==
  ASSUME NEW E, NEW s \in Seq(E), NEW n \in Nat, n < Len(s)
  PROVE  /\ n + 1 \in 1..Len(s) /\ s[n + 1] \in E /\ SubSeq(s, 1, n) \in Seq(E)
         /\ SubSeq(s, 1, n + 1) = Append(SubSeq(s, 1, n), s[n + 1])
  OBVIOUS

LEMMA ReadBuilderRight ==
  ASSUME WayRight, ReadBuilder
  PROVE  WayRight'
<1> DEFINE s == final_output
           q == SubSeq(s, 1, pos)
<1>1. /\ HostInvariant' /\ Told' /\ UNCHANGED <<events, panicked, txLog>>
  BY HostRests DEF WayRight, ReadBuilder
<1>2. /\ stage = "builder" /\ stage' \in {"builder", "failed"}
      /\ stage' = "builder" => builder_result' \notin BuilderError
      /\ builder_result = "partition" /\ pos < Len(s) /\ pos' = pos + 1
      /\ Partition(s[pos + 1]) /\ UNCHANGED bridgeVars /\ Translated /\ Building
  BY DEF WayRight, ReadBuilder
<1>3. /\ s' = s /\ s \in Seq(CseEvent) /\ pos \in Nat
      /\ Parted(q, buckets, current_bucket)
  BY <1>2 DEF bridgeVars, Translated, Building
<1>4. Translated'
  BY <1>1, <1>2, <1>3 DEF Translated
<1>5. /\ q \in Seq(CseEvent) /\ pos' \in 0..Len(s)
      /\ SubSeq(s', 1, pos') = Append(q, s[pos + 1])
  BY <1>2, <1>3, PrefixNext
<1>6. PICK e \in CseEvent : e = s[pos + 1]
  BY <1>2, <1>3, PrefixNext
<1> HIDE DEF q
<1>7. ASSUME stage' = "builder"
      PROVE  builder_result' = "partition" /\ Parted(Append(q, e), buckets', current_bucket')
  <2>1. builder_result' \notin BuilderError
    BY <1>2, <1>7
  <2>2. current_bucket = << >> \/ current_bucket = <<current_bucket[1]>>
    BY <1>3 DEF Parted
  <2>3. \/ e.payload.type = "BeginTransaction" /\ PartitionBegin(e)
        \/ e.payload.type = "EndTransaction" /\ PartitionEnd(e)
        \/ e.payload.type \notin TxBoundary /\ PartitionOther(e)
    BY <1>2, <1>6 DEF Partition, TxBoundary
  <2>4. CASE e.payload.type = "BeginTransaction" /\ PartitionBegin(e)
    <3>1. /\ current_bucket = << >> /\ current_bucket' = <<EmptyBucket(e)>>
          /\ UNCHANGED <<buckets, builder_result>>
      BY <2>1, <2>4 DEF PartitionBegin, BuilderFail, BuilderError
    <3> QED BY <1>2, <1>3, <1>5, <2>4, <3>1, PartedBegin
  <2>5. CASE e.payload.type = "EndTransaction" /\ PartitionEnd(e)
    <3>1. /\ current_bucket # << >> /\ current_bucket' = << >>
          /\ buckets' = buckets \o current_bucket /\ UNCHANGED builder_result
      BY <2>1, <2>5 DEF PartitionEnd, BuilderFail, BuilderError
    <3>2. Parted(Append(q, e), buckets \o <<current_bucket[1]>>, << >>)
      BY <1>3, <1>5, <2>2, <2>5, <3>1, PartedEnd
    <3> QED BY <1>2, <2>2, <3>1, <3>2
  <2>6. CASE e.payload.type \notin TxBoundary /\ PartitionOther(e)
    <3>1. /\ current_bucket # << >> /\ current_bucket' = <<File(current_bucket[1], e)>>
          /\ UNCHANGED <<buckets, builder_result>>
      BY <2>1, <2>6 DEF PartitionOther, BuilderFail, BuilderError
    <3>2. e.payload.type = "StateChanged" => e.payload.key \in Key
      <4>1. e.payload \in Payload
        BY <1>6 DEF CseEvent
      <4> QED BY <4>1 DEF Payload
    <3>3. Parted(Append(q, e), buckets, <<File(current_bucket[1], e)>>)
      BY <1>3, <1>5, <2>2, <2>6, <3>1, <3>2, PartedOther
    <3> QED BY <1>2, <3>1, <3>3
  <2> QED BY <2>3, <2>4, <2>5, <2>6
<1>8. ASSUME stage' = "builder" PROVE Building'
  BY <1>3, <1>5, <1>6, <1>7, <1>8 DEF Building
<1> QED BY <1>1, <1>2, <1>4, <1>8 DEF WayRight

LEMMA EndPartitionRight ==
  ASSUME WayRight, EndPartition
  PROVE  WayRight'
<1>1. /\ HostInvariant' /\ Told' /\ UNCHANGED <<events, panicked, txLog>>
  BY HostRests DEF WayRight, EndPartition
<1>2. /\ stage = "builder" /\ stage' \in {"builder", "failed"}
      /\ stage' = "builder" => builder_result' \notin BuilderError
      /\ builder_result = "partition" /\ pos = Len(final_output)
      /\ PartitionFinish /\ UNCHANGED bridgeVars /\ Translated /\ Building
  BY DEF WayRight, EndPartition, PartitionFinish
<1>3. /\ UNCHANGED final_output /\ final_output \in Seq(CseEvent)
      /\ SubSeq(final_output, 1, pos) = final_output
      /\ Parted(SubSeq(final_output, 1, pos), buckets, current_bucket)
  BY <1>2 DEF bridgeVars, Translated, Building
<1>4. Translated'
  BY <1>1, <1>2, <1>3 DEF Translated
<1>5. ASSUME stage' = "builder" PROVE Building'
  <2>1. current_bucket = << >> /\ builder_result' = "reduce" /\ UNCHANGED buckets
    BY <1>2, <1>5 DEF PartitionFinish, BuilderFail, BuilderError
  <2> QED BY <1>3, <2>1 DEF Building
<1> QED BY <1>1, <1>2, <1>4, <1>5 DEF WayRight

LEMMA EndReduceRight ==
  ASSUME WayRight, EndReduce
  PROVE  WayRight'
<1>1. /\ HostInvariant' /\ Told' /\ UNCHANGED <<events, panicked, txLog>>
  BY HostRests DEF WayRight, EndReduce
<1>2. /\ stage = "builder" /\ stage' \in {"done", "failed"}
      /\ stage' = "done" => builder_result' \notin BuilderError
      /\ builder_result = "reduce" /\ Reduce
      /\ UNCHANGED bridgeVars /\ Translated /\ Building
  BY DEF WayRight, EndReduce, Reduce
<1>3. UNCHANGED <<final_output, buckets>> /\ Parted(final_output, buckets, << >>)
  BY <1>2 DEF bridgeVars, Building, Reduce, BuilderFail
<1>4. Translated'
  BY <1>1, <1>2, <1>3 DEF Translated
<1>5. ASSUME stage' = "done" PROVE Reduction'
  <2>1. /\ \A i \in DOMAIN buckets : \A h \in Timelines(buckets[i]) : ~Discontinuous(h)
        /\ reduced_ir' = [i \in DOMAIN buckets |-> ReducedBucket(buckets[i])]
    BY <1>2, <1>5 DEF Reduce, BuilderFail, BuilderError
  <2> QED BY <1>3, <2>1 DEF Reduction
<1> QED BY <1>1, <1>2, <1>4, <1>5 DEF WayRight

LEMMA OverRight ==
  ASSUME WayRight, UNCHANGED vars
  PROVE  WayRight'
<1>1. /\ UNCHANGED <<stage, pos, fixture>>
      /\ UNCHANGED <<hostVars, bridgeVars, builderVars>>
  BY DEF vars
<1>2. /\ HostInvariant' /\ Told' /\ UNCHANGED <<events, panicked, txLog>> /\ Now' = Now
  BY <1>1, HostRests DEF WayRight
<1>3. BridgeInit => BridgeInit'
  BY <1>1 DEF BridgeInit, bridgeVars, bridgeContext
<1>4. BuilderInit => BuilderInit'
  BY <1>1 DEF BuilderInit, builderVars
<1>5. ASSUME Bridging PROVE Bridging'
  <2>1. PICK g : \E v \in View :
                Run(events, g) /\ g[Len(events)] = Now /\ g[pos] = v /\ BridgeAt(v)
    BY <1>5 DEF Bridging
  <2>2. PICK v \in View :
          Run(events, g) /\ g[Len(events)] = Now /\ g[pos] = v /\ BridgeAt(v)
    BY <2>1
  <2>3. BridgeAt(v)'
    BY <1>1, <2>2, BridgeRests
  <2>4. Run(events, g) /\ g[Len(events)] = Now /\ g[pos'] = v
    BY <1>1, <2>2
  <2> QED BY <1>1, <1>2, <1>5, <2>3, <2>4 DEF Bridging
<1>6. UNCHANGED <<final_output, buckets, current_bucket, reduced_ir, builder_result>>
  BY <1>1 DEF bridgeVars, builderVars
<1>7. Translated => Translated'
  BY <1>2, <1>6 DEF Translated
<1>8. Building => Building'
  BY <1>1, <1>6 DEF Building
<1>9. Reduction => Reduction'
  BY <1>6 DEF Reduction
<1> QED BY <1>1, <1>2, <1>3, <1>4, <1>5, <1>7, <1>8, <1>9 DEF WayRight, MarshalJSON

\* Whatever the node executes, every stage is right about it.
LEMMA WayIsRight == Spec => []WayRight
<1>1. Init => WayRight
  BY InitTold DEF Init, WayRight
<1>2. WayRight /\ [Next]_vars => WayRight'
  <2> SUFFICES ASSUME WayRight, [Next]_vars PROVE WayRight'
    OBVIOUS
  <2>1. CASE Trace
    BY <2>1, TraceRight
  <2>2. CASE BeginGate \/ ReadGate \/ EndGate
    BY <2>2, GateRight
  <2>3. CASE ParseFixture
    BY <2>3, ParseRight
  <2>4. CASE ReadBridge
    BY <2>4, ReadBridgeRight
  <2>5. CASE EndBridge
    BY <2>5, EndBridgeRight
  <2>6. CASE ReadBuilder
    BY <2>6, ReadBuilderRight
  <2>7. CASE EndPartition
    BY <2>7, EndPartitionRight
  <2>8. CASE EndReduce
    BY <2>8, EndReduceRight
  <2>9. CASE Over \/ UNCHANGED vars
    BY <2>9, OverRight DEF Over
  <2> QED BY <2>1, <2>2, <2>3, <2>4, <2>5, <2>6, <2>7, <2>8, <2>9 DEF Next, Offline
<1> QED BY <1>1, <1>2, PTL DEF Spec

-----------------------------------------------------------------------------
(***************************************************************************)
(* What a block is reduced to.                                             *)
(***************************************************************************)

\* Bucket i is what transaction i did.
LEMMA BucketsLogged ==
  ASSUME WayRight, stage = "done"
  PROVE  /\ Len(reduced_ir) = Len(txLog) /\ DOMAIN txLog = 1..Len(txLog)
         /\ DOMAIN reduced_ir = 1..Len(txLog)
         /\ \A i \in 1..Len(txLog) :
              /\ reduced_ir[i] = ReducedBucket(buckets[i])
              /\ Complete(final_output, buckets[i], i)
              /\ \A h \in Timelines(buckets[i]) : ~Discontinuous(h)
<1>1. Translated /\ Reduction /\ txLog \in Seq(Effect)
  BY DEF WayRight, Told
<1>2. IsSequence(buckets) /\ Len(buckets) = Len(txLog)
  <2>1. Len(buckets) \in Nat /\ TxEnded(final_output, Len(final_output)) = Len(buckets)
    BY <1>1, LenProperties DEF Reduction, Parted, IsSequence
  <2> QED BY <1>1, <2>1 DEF Reduction, Parted, Translated, Delivers
<1>3. /\ DOMAIN buckets = 1..Len(txLog) /\ DOMAIN txLog = 1..Len(txLog)
      /\ Len(txLog) \in Nat
  BY <1>1, <1>2, LenProperties DEF IsSequence
<1>4. /\ DOMAIN reduced_ir = 1..Len(txLog)
      /\ \A i \in 1..Len(txLog) : reduced_ir[i] = ReducedBucket(buckets[i])
  BY <1>1, <1>3 DEF Reduction
<1>5. Len(reduced_ir) = Len(txLog)
  <2>1. reduced_ir \in Seq(Range(reduced_ir))
    BY <1>1, <1>3 DEF Reduction, Range
  <2> QED BY <1>3, <1>4, <2>1
<1>6. \A i \in 1..Len(txLog) :
        /\ Complete(final_output, buckets[i], i)
        /\ \A h \in Timelines(buckets[i]) : ~Discontinuous(h)
  BY <1>1, <1>2, <1>3 DEF Reduction, Parted, AllComplete
<1> QED BY <1>3, <1>4, <1>5, <1>6

\* The reduced representation of a block is the net effect of each of its
\* transactions (kaysentinel_tracer.go, wire.rs, bridge/src/lib.rs, partition.rs,
\* reduce.rs).
THEOREM BlocksAreReduced == Spec => []NetEffect
<1>1. ASSUME WayRight, stage = "done", NEW i \in DOMAIN txLog, NEW k \in Key
      PROVE  SumsUp(reduced_ir[i].state_table, txLog[i], k)
  <2>1. i \in 1..Len(txLog) /\ Translated
    BY <1>1, BucketsLogged DEF WayRight
  <2>2. /\ reduced_ir[i] = ReducedBucket(buckets[i])
        /\ Complete(final_output, buckets[i], i)
        /\ \A h \in Timelines(buckets[i]) : ~Discontinuous(h)
    BY <1>1, <2>1, BucketsLogged
  <2>3. /\ final_output \in Seq(CseEvent)
        /\ \E x, y \in 1..Len(final_output) : Stretch(final_output, x, y, i, txLog[i])
    BY <2>1 DEF Translated, Delivers
  <2> DEFINE b == buckets[i]
             d == txLog[i]
  <2>4. PICK x, y \in 1..Len(final_output) : Stretch(final_output, x, y, i, d)
    BY <2>3
  <2>5. \A h \in Timelines(b) : ~Discontinuous(h)
    BY <2>2
  <2>6. Complete(final_output, b, i)
    BY <2>2
  <2> HIDE DEF b, d
  <2>7. SumsUp(ReducedBucket(b).state_table, d, k)
    BY <1>1, <2>3, <2>4, <2>5, <2>6, EffectReduced
  <2> QED BY <2>2, <2>7 DEF b, d
<1>2. WayRight => NetEffect
  BY <1>1, BucketsLogged DEF NetEffect, SumsUp
<1> QED BY <1>2, WayIsRight, PTL

\* Every event that survived the bridge is accounted for by the bucket of its own
\* transaction and by no other, under its position in the stream
\* (bridge/src/lib.rs, partition.rs, ir/timeline.rs).
THEOREM ProvenanceIsExact == Spec => []ProvenanceExact
<1>1. ASSUME WayRight, stage = "done", NEW j \in DOMAIN final_output,
             NEW i \in DOMAIN reduced_ir
      PROVE  j - 1 \in AccountedBy(reduced_ir[i]) <=>
               /\ final_output[j].payload.type \notin TxBoundary
               /\ i = Until(final_output, "BeginTransaction", j)
  <2> DEFINE s == final_output
             b == buckets[i]
  <2>1. s \in Seq(CseEvent) /\ Numbered(s) /\ Bracketed(s)
    BY <1>1 DEF WayRight, Translated, Reduction, Parted
  <2>2. j \in 1..Len(s) /\ i \in 1..Len(txLog)
    BY <1>1, <2>1, BucketsLogged
  <2>3. reduced_ir[i] = ReducedBucket(b) /\ Complete(s, b, i)
    BY <1>1, <2>2, BucketsLogged
  <2> HIDE DEF s, b
  <2>4. PICK x, y \in 1..Len(s) :
          /\ s[x].payload.type = "BeginTransaction" /\ TxBegun(s, x) = i
          /\ s[y].payload.type = "EndTransaction" /\ TxEnded(s, y) = i
          /\ Holds(b, s, x, y - 1)
    BY <2>3 DEF Complete
  <2>5. j - 1 \in AccountedBy(ReducedBucket(b)) <=>
          j \in x+1..y-1 /\ s[j].payload.type \notin TxBoundary
    BY <2>1, <2>2, <2>4, BucketAccounts
  <2>6. s[j].payload.type \notin TxBoundary =>
          (j \in x+1..y-1 <=> i = Until(s, "BeginTransaction", j))
    BY <2>1, <2>2, <2>4, BetweenBoundaries
  <2>7. j - 1 \in AccountedBy(ReducedBucket(b)) <=>
          /\ s[j].payload.type \notin TxBoundary
          /\ i = Until(s, "BeginTransaction", j)
    BY <2>5, <2>6
  <2> QED BY <2>3, <2>7 DEF s
<1>2. ASSUME WayRight, stage = "done", NEW j \in DOMAIN final_output
      PROVE  final_output[j].sequence_number = j - 1
  BY <1>2 DEF WayRight, Translated, Numbered
<1>3. WayRight => ProvenanceExact
  BY <1>1, <1>2 DEF ProvenanceExact, TxBoundary
<1> QED BY <1>3, WayIsRight, PTL

=============================================================================
