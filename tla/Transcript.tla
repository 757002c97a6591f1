----------------------------- MODULE Transcript -----------------------------
(***************************************************************************)
(* Sinks that record: raw/transcript/transcript.go as a sink of the        *)
(* multiplexer, validation/normalizer.go and validation/engine.go over     *)
(* what it recorded.  The repository has no type that is a HookSink and    *)
(* records a transcript; raw/transcript/README.md reports a run in which   *)
(* one did.  So how the two are put together here, the Append of a hook's  *)
(* name called when the sink's turn comes, is this module's own.           *)
(* Recording is for one worker (transcript.go: "single-threaded per        *)
(* block-worker execution model"), so one hook call ends before the next   *)
(* begins.                                                                 *)
(***************************************************************************)
EXTENDS Multiplexer, SequencesExt

CONSTANTS
  Recorders,   \* the sinks that record
  HookCalls,   \* the hooks called, with their arguments: raw events without a number
  LegacyCalls, \* what a legacy tracer may have seen at the same place
  MaxRecorded  \* hook calls in all

ASSUME TranscriptAssumption == Recorders \subseteq Sink /\ MaxRecorded \in Nat

VARIABLES
  transcript,  \* per recorder: its ExecutionTranscript's events
  called       \* all hook calls, that under way the last of them

transcriptVars == <<transcript, called>>

-----------------------------------------------------------------------------
(***************************************************************************)
(* transcript.go.  detail stands for the fields that only some kinds have  *)
(* (balances, nonces, code hashes, slots, the beneficiary), args for From, *)
(* To, Value and GasUsed, which all of Go's zero value leaves 0.           *)
(***************************************************************************)

RawEvent == [sequence |-> 0, kind |-> "TxStart", opcode |-> "STOP", depth |-> 0,
             args |-> 0, reverted |-> FALSE, errType |-> "", detail |-> 0]

\* A *uint256.Int is << >> when nil, which is recorded as zero.
Deref(pointer) == IF pointer = << >> THEN 0 ELSE pointer[1]

TxStart(gasLimit) == [RawEvent EXCEPT !.kind = "TxStart", !.detail = gasLimit]

TxEnd(gasUsed, reverted, errType) ==
  [RawEvent EXCEPT !.kind = "TxEnd", !.args = gasUsed, !.reverted = reverted,
                   !.errType = errType]

Enter(depth, opcode, value) ==
  [RawEvent EXCEPT !.kind = "Enter", !.opcode = opcode, !.depth = depth, !.args = Deref(value)]

Exit(depth, gasUsed, reverted, errType) ==
  [RawEvent EXCEPT !.kind = "Exit", !.depth = depth, !.args = gasUsed,
                   !.reverted = reverted, !.errType = errType]

Fault(depth, opcode, gasUsed, errType) ==
  [RawEvent EXCEPT !.kind = "Fault", !.depth = depth, !.opcode = opcode,
                   !.args = gasUsed, !.errType = errType]

\* AppendBalanceChange, AppendNonceChange, AppendCodeChange, AppendStorageChange,
\* AppendSelfDestruct and AppendAccountCreated.
Change(kind, address, detail) ==
  [RawEvent EXCEPT !.kind = kind, !.args = address, !.detail = Deref(detail)]

append(t, event) == Append(t, [event EXCEPT !.sequence = Len(t)])

-----------------------------------------------------------------------------
(***************************************************************************)
(* normalizer.go and engine.go.                                            *)
(***************************************************************************)

\* What String() calls the opcodes a frame is entered by; a SELFDESTRUCT is
\* entered from a frame.
FrameOpcodes ==
  {"CALL", "CALLCODE", "DELEGATECALL", "STATICCALL", "CREATE", "CREATE2", "SELFDESTRUCT"}

Labels ==
  [TxStart |-> "TX_START", TxEnd |-> "TX_END", Exit |-> "EXIT", Fault |-> "FAULT",
   BalanceChange |-> "BALANCE_CHANGE", NonceChange |-> "NONCE_CHANGE",
   CodeChange |-> "CODE_CHANGE", StorageChange |-> "STORAGE_CHANGE",
   SelfDestruct |-> "SELFDESTRUCT", AccountCreated |-> "ACCOUNT_CREATED"]

\* The hook calls there are, numbered or not.
RawEvents ==
  {e \in [sequence : Nat, kind : DOMAIN Labels \cup {"Enter"}, opcode : STRING, depth : Nat,
          args : Nat, reverted : BOOLEAN, errType : STRING, detail : Nat] :
     /\ e.kind = "Enter" => e.opcode \in FrameOpcodes
     /\ e.kind = "Enter" /\ e.opcode = "SELFDESTRUCT" => e.depth > 0
     /\ e.kind = "SelfDestruct" => e.depth = 0}

ASSUME HookCallsAssumption ==
  \A call \in HookCalls \cup LegacyCalls : call \in RawEvents /\ call.sequence = 0

\* Mutant of NormalizeRaw: a frame is entered, by whatever opcode.
NormalizeRawEnter(raw) ==
  [sequence |-> raw.sequence,
   opcode   |-> IF raw.kind = "Enter" THEN "ENTER" ELSE Labels[raw.kind],
   depth    |-> raw.depth, args |-> raw.args, reverted |-> raw.reverted,
   errType  |-> raw.errType]

NormalizeRaw(raw) ==
  [sequence |-> raw.sequence,
   opcode   |-> IF raw.kind = "Enter" THEN raw.opcode ELSE Labels[raw.kind],
   depth    |-> raw.depth, args |-> raw.args, reverted |-> raw.reverted,
   errType  |-> raw.errType]

\* The first field that differs, or "nil".
CompareSemanticFields(l, t) ==
  LET fields == <<"sequence", "opcode", "depth", "args", "reverted", "errType">>
      differ == {i \in DOMAIN fields : l[fields[i]] # t[fields[i]]}
  IN  IF differ = {} THEN "nil"
      ELSE fields[CHOOSE i \in differ : \A j \in differ : i <= j]

-----------------------------------------------------------------------------

TranscriptInit ==
  /\ transcript = [r \in Recorders |-> << >>]
  /\ called = << >>

\* A hook is called while no other call is under way.
RecordedCall(c) ==
  /\ busy = {}
  /\ CallHook(c)
  /\ Len(called) < MaxRecorded
  /\ \E call \in HookCalls : called' = Append(called, call)
  /\ UNCHANGED transcript

\* The sink whose turn it is records the call, if it is a recorder ...
Records(c) ==
  /\ SinkReturns(c)
  /\ LET sink == Foremost(walking[c])
     IN  transcript' = IF sink \in Recorders
                       THEN [transcript EXCEPT ![sink] = append(@, Last(called))]
                       ELSE transcript
  /\ UNCHANGED called

\* ... or panics, before or after it has recorded it.
Fails(c) ==
  /\ SinkPanics(c)
  /\ LET sink == Foremost(walking[c])
     IN  \/ UNCHANGED transcript
         \/ /\ sink \in Recorders
            /\ transcript' = [transcript EXCEPT ![sink] = append(@, Last(called))]
  /\ UNCHANGED called

TranscriptStep ==
  \/ \E c \in Caller :
       \/ RecordedCall(c)
       \/ Records(c)
       \/ Fails(c)
       \/ (Recovered(c) \/ Rethrown(c) \/ HookDone(c)) /\ UNCHANGED transcriptVars
  \/ Quiet /\ UNCHANGED transcriptVars
  \/ busy = {} /\ Len(called) = MaxRecorded /\ UNCHANGED <<vars, transcriptVars>>

TranscriptSpec == Init /\ TranscriptInit /\ [][TranscriptStep]_<<vars, transcriptVars>>

-----------------------------------------------------------------------------
(***************************************************************************)
(* Properties                                                              *)
(***************************************************************************)

\* The hook calls of transcript t, without their numbers.
CallsIn(t) == [i \in DOMAIN t |-> [t[i] EXCEPT !.sequence = 0]]

\* The calls s are those of t, in order, without n of them.
WithoutSome(s, t, n) ==
  /\ Len(s) = Len(t) - n
  /\ \E place \in [DOMAIN s -> DOMAIN t] :
       /\ \A i \in DOMAIN s : s[i] = t[place[i]]
       /\ \A i, j \in DOMAIN s : i < j => place[i] < place[j]

\* Sinks that fail beside a recorder cost it no event: between calls the
\* transcript of a sink whose name did not panic is all hook calls in order, and
\* that of one that did is a beginning of them.  In strict mode a panic may pass
\* the recorder by, and then its numbers are as dense as ever although calls
\* are missing: at most those that were thrown out of.
RecordedAll ==
  busy = {} =>
    \A r \in Recorders :
      LET t == transcript[r] IN
      /\ \A i \in DOMAIN t : t[i].sequence = i - 1
      /\ ~strictMode => /\ IsPrefix(CallsIn(t), called)
                        /\ Healthy(r) => Len(t) = Len(called)
      /\ strictMode /\ Healthy(r) =>
           \E n \in 0..Cardinality(thrown) : WithoutSome(CallsIn(t), called, n)

\* What a comparison of two recorded calls finds: nothing, exactly when they are
\* the same but for their detail, which SemanticEvent does not have, and, unless
\* they enter a frame, their opcode, for which SemanticEvent has the label of their
\* kind: two Faults at different opcodes compare equal.  Labels never confuse two
\* kinds, although a SELFDESTRUCT frame is labelled as the event of that name is
\* (normalizer.go, NormalizeRaw).
DriftFound ==
  \A r \in Recorders : \A i \in DOMAIN transcript[r] : \A legacy \in LegacyCalls :
    LET recorded == transcript[r][i]
        expected == [legacy EXCEPT !.sequence = i - 1]
        found == CompareSemanticFields(NormalizeRaw(expected), NormalizeRaw(recorded))
        same(f) == legacy[f] = recorded[f]
        sameCall == /\ same("kind") /\ same("depth") /\ same("args")
                    /\ same("reverted") /\ same("errType")
                    /\ legacy.kind = "Enter" => same("opcode")
    IN  found = "nil" <=> sameCall

=============================================================================
