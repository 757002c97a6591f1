------------------------------- MODULE Fixture -------------------------------
(***************************************************************************)
(* Gate 1 and the bridge reading one and the same arbitrary stream, such   *)
(* as a fixture file holds: the bridge assumes that its input passed Gate  *)
(* 1 (translate.rs, module documentation), and this module asks whether    *)
(* passing is enough and what passing means.  A stream that is not gated,  *)
(* such as a file edited by hand, goes to the bridge as it is, any events  *)
(* in any order: the bridge must return an error or produce something that *)
(* the builder can read.                                                   *)
(*                                                                         *)
(* The length of a gated stream and its ends, which Gate 1 inspects first, *)
(* are chosen at the start; the events between them are chosen when they   *)
(* are read, since nothing looks at them earlier.  Both readers go from    *)
(* left to right without looking at each other, so reading in step shows   *)
(* the same outcomes as reading one after the other.                       *)
(***************************************************************************)
EXTENDS Gate1, Bridge, Streams

CONSTANTS
  FrameIDs,   \* frame ids that occur in a gated stream
  MaxLen,     \* its length
  WideIDs,    \* frame ids and depths that occur in a stream that is not gated
  Hashes,     \* transaction hashes that occur in it
  MaxUngated  \* its length

ASSUME FixtureAssumption ==
  /\ FrameIDs \subseteq 0..U32_MAX
  /\ MaxLen \in 1..U32_MAX   \* fewer than 2^32 events: depths fit the CSE context
  /\ WideIDs \subseteq 0..(U64_MAX - 1)
  /\ Hashes \subseteq Nat
  /\ MaxUngated \in Nat

VARIABLES
  gated,      \* whether the stream has to pass Gate 1
  stream,     \* the events; those not read yet are Unread
  pos         \* events read so far

vars == <<gateVars, bridgeVars, gated, stream, pos>>

Unread == [type |-> "Unread"]

\* Sequence numbers that do and do not increase at position i.
SequenceAt(i) == {i - 1} \cup (IF i > 1 THEN {i - 2} ELSE {1})

\* Frame events name any frame; depth is the number of open frames.
Structural ==
  {BlockStartEvent(1), BlockCommitEvent, TransactionStartEvent(1, 0)}
    \cup {TransactionEndEvent(r) : r \in BOOLEAN}
    \cup {FrameEnterEvent(f, p, Len(gateFrames)) : f \in FrameIDs,
                                                   p \in FrameIDs \cup {NO_FRAME}}
    \cup {FrameExitEvent(f, r) : f \in FrameIDs, r \in BOOLEAN}

\* Mutations as the tracer tags them: with the innermost frame, or frameless.
\* Gate 1 does not look at the tag.
TaggedMutations ==
  {AccountCreatedEvent(IF gateFrames = << >> THEN NO_FRAME ELSE InnermostFrame, a) :
     a \in Address}

Init ==
  /\ GateInit
  /\ BridgeInit
  /\ pos = 0
  /\ \/ /\ gated = TRUE
        /\ \E n \in 0..MaxLen, q \in {0, 1} :
             \E first \in {BlockStartEvent(1), TransactionStartEvent(1, 0)},
                last \in {BlockCommitEvent, TransactionEndEvent(FALSE)} :
               stream = [i \in 1..n |-> IF i = 1 THEN SetSequence(first, q)
                                        ELSE IF i = n THEN SetSequence(last, n - 1) ELSE Unread]
     \/ gated = FALSE /\ stream = << >>

Begin ==
  /\ gated
  /\ GateBegin(stream)
  /\ UNCHANGED <<bridgeVars, gated, stream, pos>>

\* Both read e.  The bridge only gets to see what Gate 1 let through, and
\* reads nothing after it returned an error.
Read(e) ==
  LET i == pos + 1 IN
  /\ pos < Len(stream)
  /\ GateRead(e, i, Len(stream))
  /\ IF verdict' = "running" /\ bridge_result = "running"
     THEN Translate(e)
     ELSE UNCHANGED bridgeVars
  /\ stream' = [stream EXCEPT ![i] = e]
  /\ pos' = i
  /\ UNCHANGED gated

\* What stands at the next position, given the events the middle may hold.
Offered(middle) ==
  LET i == pos + 1 IN
  IF stream[i] = Unread THEN {SetSequence(e, q) : q \in SequenceAt(i), e \in middle}
                        ELSE {stream[i]}

End ==
  /\ gated
  /\ pos = Len(stream)
  /\ GateEnd
  /\ IF verdict' = "ok" /\ bridge_result = "running"
     THEN TranslateFinish
     ELSE UNCHANGED bridgeVars
  /\ UNCHANGED <<gated, stream, pos>>

ReadNext ==
  /\ gated
  /\ pos < Len(stream)
  /\ \E e \in Offered(Structural \cup TaggedMutations) : Read(e)

-----------------------------------------------------------------------------
(***************************************************************************)
(* A stream that is not gated                                              *)
(***************************************************************************)

AnyBoundary ==
  {BlockStartEvent(1), BlockCommitEvent, TransactionEndEvent(FALSE)}
    \cup {TransactionStartEvent(h, 0) : h \in Hashes}

AnyFrame ==
  {FrameEnterEvent(f, NO_FRAME, d) : f \in WideIDs, d \in WideIDs}
    \cup {FrameExitEvent(f, r) : f \in WideIDs, r \in BOOLEAN}

AnyMutation ==
  {SelfDestructEvent(f, a) : f \in {NO_FRAME, 0}, a \in Address}
    \cup {AccountCreatedEvent(f, a) : f \in {NO_FRAME, 0}, a \in Address}

Anything == AnyBoundary \cup AnyFrame \cup AnyMutation

ReadUngated(e) ==
  /\ ~gated
  /\ pos < MaxUngated
  /\ Translate(e)
  /\ stream' = Append(stream, e)
  /\ pos' = pos + 1
  /\ UNCHANGED <<gateVars, gated>>

EndUngated ==
  /\ ~gated
  /\ TranslateFinish
  /\ UNCHANGED <<gateVars, gated, stream, pos>>

Judged ==
  /\ IF gated THEN verdict \notin {"pending", "running"} ELSE bridge_result # "running"
  /\ UNCHANGED vars

Next ==
  \/ Begin
  \/ ReadNext
  \/ End
  \/ \E e \in Anything : ReadUngated(e)
  \/ EndUngated
  \/ Judged

Spec == Init /\ [][Next]_vars

-----------------------------------------------------------------------------

\* The ways to close what is open in s: its open frames innermost first, then
\* the transaction, with one outcome for all of them, then the block.
Closings(s) ==
  LET n     == Len(s)
      open  == {i \in 1..n : s[i].type = "FrameEnter" /\ ~\E j \in 1..n : Closes(s, i, j)}
      depth == Cardinality(open)
      nth(k) == CHOOSE i \in open : Cardinality({h \in open : h <= i}) = k
      exits(r) == [k \in 1..depth |-> FrameExitEvent(s[nth(depth + 1 - k)].frameID, r)]
      tail(r) == exits(r) \o (IF TxDepth(s, n) > 0 THEN <<TransactionEndEvent(r)>>
                                                   ELSE << >>)
                 \o <<BlockCommitEvent>>
      stamped(q) == [k \in 1..Len(q) |-> SetSequence(q[k], s[n].sequence + k)]
  IN  {s \o stamped(tail(r)) : r \in BOOLEAN}

-----------------------------------------------------------------------------
(***************************************************************************)
(* Properties                                                              *)
(***************************************************************************)

\* Gate 1 passes exactly the streams that are well formed: the one scan with a
\* stack and two counters establishes what the counting definition asks of the
\* whole stream, T1 included, and it rejects nothing else.  A stream rejected at
\* its end is not well formed, and what was read of one rejected earlier cannot
\* be closed to a well-formed stream either.
GateExact ==
  /\ verdict = "ok" => WellFormed(stream)
  /\ (verdict \in Rule /\ pos > 0) =>
       IF pos = Len(stream) THEN ~WellFormed(stream)
       ELSE \A c \in Closings(SubSeq(stream, 1, pos)) : ~WellFormed(c)

\* A stream that passed Gate 1 and whose mutations are tagged with the innermost
\* frame is translated without an error: the defensive checks of the bridge are
\* a backstop that never fires.
GateSufficient == verdict = "ok" => bridge_result = "Ok"

\* Whatever the bridge returns without an error can be partitioned: its events
\* come in brackets that alternate and enclose all of them, and every event in
\* a bracket carries the hash of its transaction, so that no frameless event
\* read outside a transaction slips into the next one.
OutputBracketed ==
  bridge_result = "Ok" =>
    /\ final_output # << >> =>
         /\ final_output[1].payload.type = "BeginTransaction"
         /\ final_output[Len(final_output)].payload.type = "EndTransaction"
    /\ \A j \in 1..Len(final_output) - 1 :
         LET here  == final_output[j].payload.type
             there == final_output[j+1].payload.type
         IN  /\ here = "EndTransaction" <=> there = "BeginTransaction"
             /\ here # "EndTransaction" =>
                  final_output[j].transaction_hash = final_output[j+1].transaction_hash

\* The bridge's own checks are as strong as Gate 1's on transactions and frames:
\* a stream that is not balanced is refused, whatever else is wrong with it.
UnbalancedRefused == bridge_result = "Ok" => Balanced(stream)

\* Event e of the output was executed in a frame that s has by that id, at that
\* depth and in the transaction of that hash, and the frame did not revert.
ExecutedIn(s, e) ==
  \E h, i, j \in 1..Len(s) :
    /\ h < i /\ s[h].type = "TransactionStart" /\ s[h].hash = e.transaction_hash
    /\ \A m \in h+1..i : s[m].type # "TransactionStart"
    /\ s[i].type = "FrameEnter"
    /\ s[i].frameID = e.call_frame_id /\ s[i].depth = e.call_depth
    /\ Closes(s, i, j) /\ ~s[j].reverted

\* Narrowing an id or a depth to 32 bits never passes an event off as another
\* frame's: whatever the bridge returns without an error bears the context of no
\* frame, as boundaries and frameless mutations do, or the id and the depth, as
\* the stream has them, of a frame of its own transaction that committed
\* (append_mutation, u32::try_from).
FramesNamed ==
  bridge_result = "Ok" =>
    \A k \in DOMAIN final_output :
      LET e == final_output[k] IN
      \/ e.call_frame_id = U32_MAX /\ e.call_depth = 0
      \/ ExecutedIn(stream, e)

=============================================================================
