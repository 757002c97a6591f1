------------------------------ MODULE Harness -------------------------------
(***************************************************************************)
(* harness/harness.go: ProcessAndSerialize, step by step, next to a node   *)
(* that goes on calling hooks meanwhile: nothing in the harness or in the  *)
(* tracer asks whether the block has ended.  The stream it works on is the *)
(* slice that Events() returned.  The tracer appends behind it, and its    *)
(* next OnBlockStart starts over in the same array (events[:0]) unless the *)
(* array was outgrown in between, so that the gate and the encoder may     *)
(* read events of the next block.  A crash takes the tracer and the call   *)
(* with it and leaves the file as it is.                                   *)
(***************************************************************************)
EXTENDS HookFaults, Gate1, Streams

CONSTANTS
  Capacity,    \* of the tracer's first array of events (256 in New)
  MaxAttempts, \* calls of ProcessAndSerialize
  MaxCrashes

ASSUME HarnessAssumption ==
  Capacity \in Nat \ {0} /\ MaxAttempts \in Nat /\ MaxCrashes \in Nat

VARIABLES
  step,        \* where ProcessAndSerialize is; "idle" outside of it
  stream,      \* what its slice shows
  shared,      \* the slice lies in the array that the tracer writes to
  capacity,    \* of that array
  errors,      \* the slice that ErrorLog() returned, the same way
  errorsShared,
  errorsCapacity,
  position,    \* events the gate, then the encoder, has read
  data,        \* the encoded envelope, as far as it is
  fixture,     \* the file under the final name
  outcome,     \* of the last call: "none", "nil", "error" or "crash"
  attempts,
  crashes,
  undisturbed, \* history: no block has started since Events()
  taken,       \* history: what the slice showed when Events() returned it
  diagnosable  \* history: the hooks of its block were not balanced

heldVars == <<stream, shared, capacity, errors, errorsShared, errorsCapacity>>
callVars == <<step, position, data, fixture, outcome, attempts, crashes, taken, diagnosable>>
vars == <<hookVars, gateVars, heldVars, callVars, undisturbed>>

NoFile  == [state |-> "absent"]
Partial == [state |-> "partial"]
NoData  == [state |-> "none", events |-> << >>]

Init ==
  /\ HooksInit
  /\ GateInit
  /\ step = "idle"
  /\ stream = << >> /\ shared = FALSE /\ capacity = Capacity
  /\ errors = << >> /\ errorsShared = FALSE /\ errorsCapacity = 0
  /\ position = 0
  /\ data = NoData
  /\ fixture = NoFile
  /\ outcome = "none"
  /\ attempts = 0
  /\ crashes = 0
  /\ undisturbed = TRUE
  /\ taken = << >>
  /\ diagnosable = FALSE

-----------------------------------------------------------------------------
(***************************************************************************)
(* Slices.                                                                 *)
(***************************************************************************)

\* append allocates a new array, at least twice as large, when the old is full.
Grown(cap, length) ==
  IF length <= cap THEN cap ELSE IF length <= 2 * cap THEN 2 * cap ELSE length

\* What a slice over the tracer's array shows after the tracer wrote `current`.
Overwritten(held, current) ==
  [i \in DOMAIN held |-> IF i <= Len(current) THEN current[i] ELSE held[i]]

\* A hook writes to the tracer's arrays, whoever holds slices of them.
Hook ==
  /\ HookStep
  /\ capacity' = Grown(capacity, Len(events'))
  /\ shared' = (shared /\ capacity' = capacity)
  /\ stream' = IF shared' THEN Overwritten(stream, events') ELSE stream
  /\ errorsCapacity' = Grown(errorsCapacity, Len(errorLog'))
  /\ errorsShared' = (errorsShared /\ errorsCapacity' = errorsCapacity)
  /\ errors' = IF errorsShared' THEN Overwritten(errors, errorLog') ELSE errors
  /\ undisturbed' = (undisturbed /\ blocks' = blocks)
  /\ UNCHANGED <<gateVars, callVars>>

-----------------------------------------------------------------------------
(***************************************************************************)
(* ProcessAndSerialize.                                                    *)
(***************************************************************************)

\* What a step of the call leaves alone: the tracer, its arrays, the counts.
Alongside == UNCHANGED <<hookVars, capacity, errorsCapacity, crashes>>

\* The call goes on, or returns and its locals are gone.
Continue(next) ==
  /\ step' = next
  /\ UNCHANGED <<outcome, undisturbed, taken, diagnosable, shared>>

Return(result) ==
  /\ step' = "idle"
  /\ outcome' = result
  /\ stream' = << >> /\ shared' = FALSE
  /\ errors' = << >> /\ errorsShared' = FALSE
  /\ position' = 0
  /\ data' = NoData
  /\ undisturbed' = TRUE /\ taken' = << >> /\ diagnosable' = FALSE

GateReset ==
  /\ verdict' = "pending"
  /\ prevSeq' = 0 /\ seqInitialized' = FALSE
  /\ txOpen' = FALSE /\ gateFrames' = << >>
  /\ rootFrameCount' = 0 /\ rootFrameReverted' = FALSE

\* stream := producer.Events(), at any time: a block may be under way, or none.
TakeEvents ==
  /\ step = "idle"
  /\ attempts < MaxAttempts
  /\ attempts' = attempts + 1
  /\ step' = "gate"
  /\ stream' = events /\ shared' = TRUE
  /\ undisturbed' = TRUE
  /\ taken' = events
  /\ diagnosable' = ~BalancedCalls(calls)
  /\ GateReset
  /\ Alongside
  /\ UNCHANGED <<errors, errorsShared, position, data, fixture, outcome>>

\* The gate reads the slice one event at a time; its error is returned.
ReadGate ==
  /\ step = "gate"
  /\ \/ /\ GateBegin(stream)
        /\ verdict' = "running" => UNCHANGED position
     \/ /\ position < Len(stream)
        /\ GateRead(stream[position + 1], position + 1, Len(stream))
        /\ verdict' = "running" => position' = position + 1
     \/ position = Len(stream) /\ GateEnd
  /\ \/ /\ verdict' = "running"
        /\ Continue("gate")
        /\ UNCHANGED <<stream, errors, errorsShared, data>>
     \/ /\ verdict' = "ok"
        /\ Continue("assemble")
        /\ position' = 0
        /\ UNCHANGED <<stream, errors, errorsShared, data>>
     \/ verdict' \in Rule /\ Return("error")
  /\ Alongside
  /\ UNCHANGED <<fixture, attempts>>

\* The envelope: the stream as verified, and producer.ErrorLog().
Assemble ==
  /\ step = "assemble"
  /\ Continue("directory")
  /\ errors' = errorLog /\ errorsShared' = TRUE
  /\ GateReset
  /\ Alongside
  /\ UNCHANGED <<stream, position, data, fixture, attempts>>

\* os.MkdirAll.
MakeDirectory ==
  /\ step = "directory"
  /\ \/ Continue("encode") /\ UNCHANGED <<stream, errors, errorsShared, position, data>>
     \/ Return("error")
  /\ Alongside
  /\ UNCHANGED <<gateVars, fixture, attempts>>

\* json.MarshalIndent reads through both slices, one event after the other and
\* then the diagnostics.
Encode ==
  /\ step = "encode"
  /\ \/ /\ position < Len(stream)
        /\ Continue("encode")
        /\ position' = position + 1
        /\ data' = [NoData EXCEPT !.events = Append(data.events, stream[position + 1])]
     \/ /\ position = Len(stream)
        /\ Continue("open")
        /\ position' = 0
        /\ data' = [state |-> "whole", events |-> data.events, errors |-> errors,
                    attempt |-> attempts, taken |-> taken,
                    undisturbed |-> undisturbed, diagnosable |-> diagnosable]
  /\ Alongside
  /\ UNCHANGED <<gateVars, stream, errors, errorsShared, fixture, attempts>>

\* os.WriteFile opens the file under its final name and truncates it ...
OpenFile ==
  /\ step = "open"
  /\ \/ /\ Continue("write")
        /\ fixture' = Partial
        /\ UNCHANGED <<stream, errors, errorsShared, position, data>>
     \/ Return("error") /\ UNCHANGED fixture
  /\ Alongside
  /\ UNCHANGED <<gateVars, attempts>>

\* Mutant of WriteData: the error of os.WriteFile is not looked at.
WriteDataUnchecked ==
  /\ step = "write"
  /\ fixture' \in {data, Partial}
  /\ Return("nil")
  /\ Alongside
  /\ UNCHANGED <<gateVars, attempts>>

\* ... and then writes, which may fail half way.
WriteData ==
  /\ step = "write"
  /\ \/ fixture' = data /\ Return("nil")
     \/ UNCHANGED fixture /\ Return("error")
  /\ Alongside
  /\ UNCHANGED <<gateVars, attempts>>

\* The process dies; a new one starts with a new tracer and the old file.
Crash ==
  /\ crashes < MaxCrashes
  /\ crashes' = crashes + 1
  /\ Return(IF step = "idle" THEN outcome ELSE "crash")
  /\ globalSequence' = 0 /\ nextFrameID' = 0 /\ frameStack' = << >>
  /\ events' = << >> /\ errorLog' = << >> /\ pendingSelfDestruct' = << >>
  /\ panicked' = FALSE
  /\ where' = "start" /\ calls' = << >>
  /\ capacity' = Capacity /\ errorsCapacity' = 0
  /\ GateReset
  /\ UNCHANGED <<blocks, fixture, attempts>>

\* Nothing is running, or a panic of emit has stopped the node.
Ended == step = "idle" /\ (where \in {"start", "end"} \/ panicked) /\ UNCHANGED vars

Next ==
  \/ Hook
  \/ TakeEvents
  \/ ReadGate
  \/ Assemble
  \/ MakeDirectory
  \/ Encode
  \/ OpenFile
  \/ WriteData
  \/ Crash
  \/ Ended

Spec == Init /\ [][Next]_vars

-----------------------------------------------------------------------------
(***************************************************************************)
(* Properties                                                              *)
(***************************************************************************)

\* The events of one block, as the first block of a tracer is numbered.
Numbered(s) == \A i \in DOMAIN s : s[i].sequence = i - 1

\* A whole file with the numbers of a first block holds a stream that Gate 1 has
\* verified, as Events() returned it.  It has these numbers unless the next block
\* starts before the envelope is encoded: a call that comes too early, hooks of the
\* block that go on while the harness works, failed attempts, crashes and what an
\* earlier process left cannot put anything else there.  If blocks do start and
\* write into the array that the gate and the encoder read, a file that holds one
\* event of theirs, or a stream that was not verified, does not have the numbers of
\* a first block: the tracer's counter goes on from block to block, which tells.
FixtureVerified ==
  fixture.state = "whole" =>
    /\ fixture.undisturbed => Numbered(fixture.events)
    /\ Numbered(fixture.events) => fixture.events = fixture.taken /\ WellFormed(fixture.events)

\* The diagnostics in the file are those of its stream, though they are fetched
\* after the gate has run: faults of a block whose events the file holds are not
\* lost to the next block's OnBlockStart, and while none came, nothing is
\* diagnosed that was balanced.
FixtureDiagnosed ==
  fixture.state = "whole" =>
    /\ Numbered(fixture.events) /\ fixture.diagnosable => fixture.errors # << >>
    /\ fixture.undisturbed /\ fixture.errors # << >> => fixture.diagnosable

\* After a call that returned nil the file is whole, and it is the file of that
\* call: no earlier one is taken for it.
NilMeansWritten ==
  step = "idle" /\ outcome = "nil" => fixture.state = "whole" /\ fixture.attempt = attempts

=============================================================================
