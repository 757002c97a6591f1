-------------------------------- MODULE Gate1 --------------------------------
(***************************************************************************)
(* validation/gate1.go: VerifyGate1Invariants, the structural check a      *)
(* stream passes before the harness writes it out.  GateBegin is the part  *)
(* before the loop, which looks at both ends of the stream; GateRead is    *)
(* one iteration; GateEnd is the part after the loop.  An error is an      *)
(* early return that names the broken rule.                                *)
(***************************************************************************)
EXTENDS Emes

VARIABLES
  verdict,            \* "pending", "running", "ok", or the rule that is broken
  prevSeq,
  seqInitialized,
  txOpen,
  gateFrames,         \* frameStack of the source: ids of the open frames
  rootFrameCount,     \* root frames of the open transaction
  rootFrameReverted   \* Reverted of its last root frame exit

gateScan == <<prevSeq, seqInitialized, txOpen, gateFrames, rootFrameCount,
              rootFrameReverted>>
gateVars == <<verdict, gateScan>>

Rule == {"block-encapsulation", "sequence-monotonic", "tx-encapsulation",
         "frame-balance", "frame-topology", "t1-consistency"}

GateInit ==
  /\ verdict = "pending"
  /\ prevSeq = 0
  /\ seqInitialized = FALSE
  /\ txOpen = FALSE
  /\ gateFrames = << >>
  /\ rootFrameCount = 0
  /\ rootFrameReverted = FALSE

Reject(rule) ==
  /\ verdict' = rule
  /\ UNCHANGED gateScan

\* Mutant of Encapsulated: the end of the stream is not looked at.
EncapsulatedAtStart(stream) ==
  stream # << >> /\ stream[1].type = "BlockStart" /\ stream[1].sequence = 0

\* Both ends of the stream are right.
Encapsulated(stream) ==
  /\ stream # << >>
  /\ stream[1].type = "BlockStart"
  /\ stream[1].sequence = 0
  /\ stream[Len(stream)].type = "BlockCommit"

GateBegin(stream) ==
  /\ verdict = "pending"
  /\ \/ ~Encapsulated(stream) /\ Reject("block-encapsulation")
     \/ Encapsulated(stream) /\ verdict' = "running" /\ UNCHANGED gateScan

-----------------------------------------------------------------------------
(***************************************************************************)
(* The loop: event e = stream[i], counting from 1, of n.                   *)
(***************************************************************************)

Monotonic(e) == seqInitialized => e.sequence > prevSeq

\* Every accepted event moves the sequence check on.
Accept(e) ==
  /\ verdict' = verdict
  /\ prevSeq' = e.sequence
  /\ seqInitialized' = TRUE

GateBlockStart(e, i) ==
  \/ i # 1 /\ Reject("block-encapsulation")
  \/ i = 1 /\ Accept(e) /\ UNCHANGED <<txOpen, gateFrames, rootFrameCount,
                                       rootFrameReverted>>

GateBlockCommit(e, i, n) ==
  \/ i # n /\ Reject("block-encapsulation")
  \/ i = n /\ txOpen /\ Reject("tx-encapsulation")
  \/ i = n /\ ~txOpen /\ Accept(e) /\ UNCHANGED <<txOpen, gateFrames, rootFrameCount,
                                                  rootFrameReverted>>

GateTransactionStart(e) ==
  \/ txOpen /\ Reject("tx-encapsulation")
  \/ /\ ~txOpen
     /\ Accept(e)
     /\ txOpen' = TRUE
     /\ gateFrames' = << >>
     /\ rootFrameCount' = 0
     /\ rootFrameReverted' = FALSE

\* Mutant of T1Consistent: the outcome of the root frame is not compared.
T1CountOnly(e) == rootFrameCount <= 1

\* Invariant T1: at most one root frame, and the transaction's outcome is its.
T1Consistent(e) ==
  /\ rootFrameCount <= 1
  /\ rootFrameCount = 1 => e.reverted = rootFrameReverted

GateTransactionEnd(e) ==
  \/ ~txOpen /\ Reject("tx-encapsulation")
  \/ txOpen /\ gateFrames # << >> /\ Reject("frame-balance")
  \/ txOpen /\ gateFrames = << >> /\ ~T1Consistent(e) /\ Reject("t1-consistency")
  \/ /\ txOpen /\ gateFrames = << >> /\ T1Consistent(e)
     /\ Accept(e)
     /\ txOpen' = FALSE
     /\ UNCHANGED <<gateFrames, rootFrameCount, rootFrameReverted>>

InnermostFrame == gateFrames[Len(gateFrames)]

ParentMatches(e) ==
  e.parentFrameID = IF gateFrames = << >> THEN NO_FRAME ELSE InnermostFrame

GateFrameEnter(e) ==
  \/ ~txOpen /\ Reject("tx-encapsulation")
  \/ txOpen /\ ~ParentMatches(e) /\ Reject("frame-topology")
  \/ /\ txOpen /\ ParentMatches(e)
     /\ Accept(e)
     /\ rootFrameCount' = IF gateFrames = << >> THEN rootFrameCount + 1
                                                ELSE rootFrameCount
     /\ gateFrames' = Append(gateFrames, e.frameID)
     /\ UNCHANGED <<txOpen, rootFrameReverted>>

\* Mutant of ClosesInnermost: any exit closes the innermost frame.
ClosesAny(e) == gateFrames # << >>

ClosesInnermost(e) == gateFrames # << >> /\ e.frameID = InnermostFrame

GateFrameExit(e) ==
  \/ ~txOpen /\ Reject("tx-encapsulation")
  \/ txOpen /\ ~ClosesInnermost(e) /\ Reject("frame-balance")
  \/ /\ txOpen /\ ClosesInnermost(e)
     /\ Accept(e)
     /\ rootFrameReverted' = IF Len(gateFrames) = 1 THEN e.reverted
                                                    ELSE rootFrameReverted
     /\ gateFrames' = SubSeq(gateFrames, 1, Len(gateFrames) - 1)
     /\ UNCHANGED <<txOpen, rootFrameCount>>

\* Mutations have no case in the switch: only their sequence is checked.
GateMutation(e) ==
  Accept(e) /\ UNCHANGED <<txOpen, gateFrames, rootFrameCount, rootFrameReverted>>

GateRead(e, i, n) ==
  /\ verdict = "running"
  /\ \/ ~Monotonic(e) /\ Reject("sequence-monotonic")
     \/ /\ Monotonic(e)
        /\ \/ e.type = "BlockStart" /\ GateBlockStart(e, i)
           \/ e.type = "BlockCommit" /\ GateBlockCommit(e, i, n)
           \/ e.type = "TransactionStart" /\ GateTransactionStart(e)
           \/ e.type = "TransactionEnd" /\ GateTransactionEnd(e)
           \/ e.type = "FrameEnter" /\ GateFrameEnter(e)
           \/ e.type = "FrameExit" /\ GateFrameExit(e)
           \/ /\ e.type \in {"Mutation", "AccountCreated", "SelfDestruct"}
              /\ GateMutation(e)

GateEnd ==
  /\ verdict = "running"
  /\ verdict' = IF txOpen THEN "tx-encapsulation" ELSE "ok"
  /\ UNCHANGED gateScan

=============================================================================
