------------------------------- MODULE Tracer -------------------------------
(***************************************************************************)
(* tracer/kaysentinel_tracer.go: the EMES-V1 collector, one action per     *)
(* go-ethereum hook it registers.  Hooks are called synchronously by the   *)
(* node's single block-processing goroutine; the module that composes the  *)
(* tracer says in which order.                                             *)
(***************************************************************************)
EXTENDS Emes

VARIABLES
  globalSequence,       \* next sequence number, a uint64
  nextFrameID,          \* next frame id of the transaction
  frameStack,           \* ids of the open frames, innermost last
  events,               \* the stream of the current or most recent block
  errorLog,             \* structured diagnostics
  pendingSelfDestruct,  \* frame id -> address whose code a selfdestruct cleared
  panicked              \* emit hit the end of the sequence space

tracerVars == <<globalSequence, nextFrameID, frameStack, events, errorLog,
                pendingSelfDestruct, panicked>>

TracerInit ==
  /\ globalSequence = 0
  /\ nextFrameID = 0
  /\ frameStack = << >>
  /\ events = << >>
  /\ errorLog = << >>
  /\ pendingSelfDestruct = << >>
  /\ panicked = FALSE

currentFrameID == IF frameStack = << >> THEN NO_FRAME ELSE frameStack[Len(frameStack)]

Diagnostic(code, frame) == [code |-> code, frameID |-> frame]

\* Mutant of EmitAfter: the counter wraps without a panic.
EmitWrapping(stream, log, frame, es) ==
  /\ events' = stream \o [j \in 1..Len(es) |->
                 SetSequence(es[j], (globalSequence + j - 1) % (U64_MAX + 1))]
  /\ globalSequence' = (globalSequence + Len(es)) % (U64_MAX + 1)
  /\ errorLog' = log
  /\ UNCHANGED panicked

\* One emit per element of es, in order, after the events `stream` and the
\* diagnostics `log`; frame is the frame a diagnostic names.  emit stamps the
\* event, increments the counter, and panics when the counter wrapped to zero,
\* in which case the event is not appended and the hook goes no further.
EmitAfter(stream, log, frame, es) ==
  LET room    == U64_MAX - globalSequence
      count   == IF Len(es) <= room THEN Len(es) ELSE room
      stamped == [j \in 1..count |-> SetSequence(es[j], globalSequence + j - 1)]
  IN  /\ events' = stream \o stamped
      /\ panicked' = (Len(es) > room)
      /\ globalSequence' = IF Len(es) > room THEN 0 ELSE globalSequence + Len(es)
      /\ errorLog' = IF Len(es) > room
                     THEN Append(log, Diagnostic("SequenceOverflow", frame))
                     ELSE log

emit(es) == EmitAfter(events, errorLog, currentFrameID, es)

-----------------------------------------------------------------------------
(***************************************************************************)
(* Chain and VM hooks                                                      *)
(***************************************************************************)

\* Mutant of OnBlockStart: every block is numbered from 0.
OnBlockStartRestarts(number) ==
  /\ ~panicked
  /\ events' = <<BlockStartEvent(number)>>
  /\ globalSequence' = 1
  /\ errorLog' = << >>
  /\ UNCHANGED <<nextFrameID, frameStack, pendingSelfDestruct, panicked>>

\* The stream and the diagnostics start afresh; the sequence counter does not.
OnBlockStart(number) ==
  /\ ~panicked
  /\ EmitAfter(<< >>, << >>, currentFrameID, <<BlockStartEvent(number)>>)
  /\ UNCHANGED <<nextFrameID, frameStack, pendingSelfDestruct>>

OnBlockEnd ==
  /\ ~panicked
  /\ emit(<<BlockCommitEvent>>)
  /\ UNCHANGED <<nextFrameID, frameStack, pendingSelfDestruct>>

\* TxIndex is not filled in: it keeps the zero value of the struct.
OnTxStart(hash) ==
  /\ ~panicked
  /\ nextFrameID' = 0
  /\ frameStack' = << >>
  /\ EmitAfter(events, errorLog, NO_FRAME, <<TransactionStartEvent(hash, 0)>>)
  /\ UNCHANGED pendingSelfDestruct

\* Mutant of OnTxEnd: what is pending survives the transaction.
OnTxEndKeepsPending(failed) ==
  /\ ~panicked
  /\ emit(<<TransactionEndEvent(failed)>>)
  /\ frameStack' = << >>
  /\ UNCHANGED <<nextFrameID, pendingSelfDestruct>>

\* Mutant of OnTxEnd: frames left open are not reported.
OnTxEndSilent(failed) ==
  /\ ~panicked
  /\ emit(<<TransactionEndEvent(failed)>>)
  /\ frameStack' = << >>
  /\ pendingSelfDestruct' = << >>
  /\ UNCHANGED nextFrameID

\* Mutant of OnTxEnd: the receipt is not looked at.
OnTxEndIgnoresReceipt(failed) ==
  /\ ~panicked
  /\ emit(<<TransactionEndEvent(FALSE)>>)
  /\ frameStack' = << >>
  /\ pendingSelfDestruct' = << >>
  /\ UNCHANGED nextFrameID

\* failed is err # nil or a receipt with the failed status.  The statements
\* after emit do not run when it panics.
OnTxEnd(failed) ==
  /\ ~panicked
  /\ LET log == IF frameStack # << >> /\ globalSequence < U64_MAX
                THEN Append(errorLog, Diagnostic("UnexpectedExit", currentFrameID))
                ELSE errorLog
     IN  EmitAfter(events, log, currentFrameID, <<TransactionEndEvent(failed)>>)
  /\ IF panicked'
     THEN UNCHANGED <<frameStack, pendingSelfDestruct>>
     ELSE /\ frameStack' = << >>
          /\ pendingSelfDestruct' = << >>
  /\ UNCHANGED nextFrameID

OnEnter(depth) ==
  /\ ~panicked
  /\ frameStack' = Append(frameStack, nextFrameID)
  /\ nextFrameID' = (nextFrameID + 1) % (U64_MAX + 1)
  /\ EmitAfter(events, errorLog, nextFrameID,
               <<FrameEnterEvent(nextFrameID, currentFrameID, depth)>>)
  /\ UNCHANGED pendingSelfDestruct

\* Mutant of OnExit: the exit names the frame opened last, open or not.
OnExitNamesLatest(reverted) ==
  /\ ~panicked
  /\ frameStack # << >>
  /\ frameStack' = SubSeq(frameStack, 1, Len(frameStack) - 1)
  /\ emit(<<FrameExitEvent(nextFrameID - 1, reverted)>>)
  /\ UNCHANGED <<nextFrameID, pendingSelfDestruct>>

\* Mutant of OnExit: a reverted frame is not popped.
OnExitKeepsReverted(reverted) ==
  /\ ~panicked
  /\ frameStack # << >>
  /\ frameStack' = IF reverted THEN frameStack ELSE SubSeq(frameStack, 1, Len(frameStack) - 1)
  /\ emit(<<FrameExitEvent(currentFrameID, reverted)>>)
  /\ UNCHANGED <<nextFrameID, pendingSelfDestruct>>

OnExit(reverted) ==
  /\ ~panicked
  /\ \/ /\ frameStack = << >>
        /\ errorLog' = Append(errorLog, Diagnostic("EmptyFrameStack", NO_FRAME))
        /\ UNCHANGED <<globalSequence, frameStack, events, panicked>>
     \/ /\ frameStack # << >>
        /\ LET rest == SubSeq(frameStack, 1, Len(frameStack) - 1)
               top  == IF rest = << >> THEN NO_FRAME ELSE rest[Len(rest)]
           IN  /\ frameStack' = rest
               /\ EmitAfter(events, errorLog, top,
                            <<FrameExitEvent(currentFrameID, reverted)>>)
  /\ UNCHANGED <<nextFrameID, pendingSelfDestruct>>

-----------------------------------------------------------------------------
(***************************************************************************)
(* State mutation hooks.  selfdestruct says whether the reason argument is *)
(* BalanceIncreaseSelfdestruct, respectively CodeChangeSelfDestruct.       *)
(***************************************************************************)

Without(map, x) == [y \in DOMAIN map \ {x} |-> map[y]]

OnBalanceChange(address, prev, new, selfdestruct) ==
  LET frameID  == currentFrameID
      mutation == MutationEvent(frameID,
                    [kind |-> "Balance", address |-> address, slot |-> NoSlot], prev, new)
  IN
  /\ ~panicked
  /\ \/ /\ selfdestruct
        /\ frameID \in DOMAIN pendingSelfDestruct
        /\ emit(<<mutation, SelfDestructEvent(frameID, pendingSelfDestruct[frameID])>>)
        /\ pendingSelfDestruct' = IF panicked' THEN pendingSelfDestruct
                                  ELSE Without(pendingSelfDestruct, frameID)
     \/ /\ ~selfdestruct \/ frameID \notin DOMAIN pendingSelfDestruct
        /\ emit(<<mutation>>)
        /\ UNCHANGED pendingSelfDestruct
  /\ UNCHANGED <<nextFrameID, frameStack>>

OnNonceChangeV2(address, prev, new) ==
  /\ ~panicked
  /\ emit(<<MutationEvent(currentFrameID,
              [kind |-> "Nonce", address |-> address, slot |-> NoSlot], prev, new)>>)
  /\ UNCHANGED <<nextFrameID, frameStack, pendingSelfDestruct>>

OnCodeChangeV2(address, prev, new, selfdestruct) ==
  LET frameID == currentFrameID IN
  /\ ~panicked
  /\ emit(<<MutationEvent(frameID,
              [kind |-> "Code", address |-> address, slot |-> NoSlot], prev, new)>>)
  /\ pendingSelfDestruct' =
       IF selfdestruct /\ ~panicked'
       THEN [y \in DOMAIN pendingSelfDestruct \cup {frameID} |->
               IF y = frameID THEN address ELSE pendingSelfDestruct[y]]
       ELSE pendingSelfDestruct
  /\ UNCHANGED <<nextFrameID, frameStack>>

OnStorageChange(address, slot, prev, new) ==
  /\ ~panicked
  /\ emit(<<MutationEvent(currentFrameID,
              [kind |-> "Storage", address |-> address, slot |-> slot], prev, new)>>)
  /\ UNCHANGED <<nextFrameID, frameStack, pendingSelfDestruct>>

=============================================================================
