------------------------------ MODULE Pipeline ------------------------------
(***************************************************************************)
(* The whole way of a block: the node executes it under the tracer (Host), *)
(* the harness runs Gate 1 over the collected stream and writes it out     *)
(* (harness.go, ProcessAndSerialize), the bridge parses what it wrote      *)
(* (Wire) and translates it (Bridge), the builder partitions and reduces   *)
(* the result (Builder).                                                   *)
(* Each stage is a loop over the output of the one before it and an error  *)
(* of any stage ends the way.                                              *)
(***************************************************************************)
EXTENDS Host, Gate1, Bridge, Builder, Wire, Segments

VARIABLES
  stage,   \* "trace", "gate", "parse", "bridge", "builder", "done" or "failed"
  pos,     \* events the stage's loop has read
  fixture  \* the entries of the file that the harness wrote

vars == <<hostVars, gateVars, bridgeVars, builderVars, stage, pos, fixture>>

Init ==
  /\ HostInit
  /\ GateInit
  /\ BridgeInit
  /\ BuilderInit
  /\ stage = "trace"
  /\ pos = 0
  /\ fixture = << >>

-----------------------------------------------------------------------------

Trace ==
  /\ stage = "trace"
  /\ HostStep
  /\ UNCHANGED <<gateVars, bridgeVars, builderVars, stage, pos, fixture>>

\* ProcessAndSerialize is called on the stream of the block just ended.
BeginGate ==
  /\ stage = "trace"
  /\ phase = "end" /\ ~panicked
  /\ GateBegin(events)
  /\ stage' = IF verdict' = "running" THEN "gate" ELSE "failed"
  /\ UNCHANGED <<hostVars, bridgeVars, builderVars, pos, fixture>>

ReadGate ==
  /\ stage = "gate"
  /\ pos < Len(events)
  /\ GateRead(events[pos + 1], pos + 1, Len(events))
  /\ pos' = pos + 1
  /\ stage' = IF verdict' = "running" THEN "gate" ELSE "failed"
  /\ UNCHANGED <<hostVars, bridgeVars, builderVars, fixture>>

\* A stream that passed is written out, events and diagnostics alike.
EndGate ==
  /\ stage = "gate"
  /\ pos = Len(events)
  /\ GateEnd
  /\ fixture' = IF verdict' = "ok" THEN MarshalJSON(events) ELSE fixture
  /\ stage' = IF verdict' = "ok" THEN "parse" ELSE "failed"
  /\ pos' = 0
  /\ UNCHANGED <<hostVars, bridgeVars, builderVars>>

\* The whole document is parsed before translation begins.
ParseFixture ==
  /\ stage = "parse"
  /\ stage' = IF parse_event_stream(fixture).ok THEN "bridge" ELSE "failed"
  /\ UNCHANGED <<hostVars, gateVars, bridgeVars, builderVars, pos, fixture>>

ReadBridge ==
  /\ stage = "bridge"
  /\ pos < Len(fixture)
  /\ Translate(GoEvent(fixture[pos + 1]))
  /\ pos' = pos + 1
  /\ stage' = IF bridge_result' = "running" THEN "bridge" ELSE "failed"
  /\ UNCHANGED <<hostVars, gateVars, builderVars, fixture>>

EndBridge ==
  /\ stage = "bridge"
  /\ pos = Len(fixture)
  /\ TranslateFinish
  /\ stage' = IF bridge_result' = "Ok" THEN "builder" ELSE "failed"
  /\ pos' = 0
  /\ UNCHANGED <<hostVars, gateVars, builderVars, fixture>>

ReadBuilder ==
  /\ stage = "builder"
  /\ builder_result = "partition"
  /\ pos < Len(final_output)
  /\ Partition(final_output[pos + 1])
  /\ pos' = pos + 1
  /\ stage' = IF builder_result' \in BuilderError THEN "failed" ELSE "builder"
  /\ UNCHANGED <<hostVars, gateVars, bridgeVars, fixture>>

EndPartition ==
  /\ stage = "builder"
  /\ pos = Len(final_output)
  /\ PartitionFinish
  /\ stage' = IF builder_result' \in BuilderError THEN "failed" ELSE "builder"
  /\ UNCHANGED <<hostVars, gateVars, bridgeVars, pos, fixture>>

EndReduce ==
  /\ stage = "builder"
  /\ Reduce
  /\ stage' = IF builder_result' \in BuilderError THEN "failed" ELSE "done"
  /\ UNCHANGED <<hostVars, gateVars, bridgeVars, pos, fixture>>

Over ==
  /\ stage \in {"done", "failed"} \/ panicked
  /\ UNCHANGED vars

Offline ==
  \/ BeginGate
  \/ ReadGate
  \/ EndGate
  \/ ParseFixture
  \/ ReadBridge
  \/ EndBridge
  \/ ReadBuilder
  \/ EndPartition
  \/ EndReduce

Next == Trace \/ Offline \/ Over

\* The offline stages are loops of one thread: once begun they run on.
Spec == Init /\ [][Next]_vars /\ WF_vars(Offline)

-----------------------------------------------------------------------------
(***************************************************************************)
(* Properties                                                              *)
(***************************************************************************)

\* Once the harness is called on it, a tracer's first block is delivered as a
\* reduced representation: no stage rejects what the stages before it made of a
\* real execution, and each of them ends.  Of a later block nothing like it
\* holds: its numbers go on from the block before, and Gate 1 refuses it
\* (kaysentinel_tracer.go, OnBlockStart; Host, CountsFromZero).
Delivered == (blocks = 1 /\ stage # "trace") ~> stage = "done"

\* The reduced representation is the net effect of each transaction: its
\* buckets are the block's transactions in order, a cell in the table goes from
\* its value before the transaction to its value after it, and a cell that is
\* not there has not changed.  Across the tracer, Gate 1, the bridge's buffers
\* and the builder's timelines nothing is lost, and nothing reverted leaks in.
NetEffect ==
  stage = "done" =>
    /\ Len(reduced_ir) = Len(txLog)
    /\ \A i \in DOMAIN txLog : \A k \in Key :
         IF k \in DOMAIN reduced_ir[i].state_table
         THEN LET t == reduced_ir[i].state_table[k]
              IN  t.initial = txLog[i].before[k] /\ t.terminal = txLog[i].after[k]
         ELSE txLog[i].before[k] = txLog[i].after[k]

\* The ids that bucket b accounts for: its timelines' and its lifecycle events'.
AccountedBy(b) ==
  (UNION {b.state_table[k].provenance : k \in DOMAIN b.state_table})
    \cup (UNION {{b.lifecycle_table[a][i].event_id : i \in DOMAIN b.lifecycle_table[a]} :
                   a \in DOMAIN b.lifecycle_table})

\* Provenance is exact: an event that survived the bridge is accounted for by
\* the bucket of the transaction it happened in and by no other, and the ids
\* are the positions of the events in the translated stream.
ProvenanceExact ==
  stage = "done" =>
    \A j \in DOMAIN final_output :
      /\ final_output[j].sequence_number = j - 1
      /\ \A i \in DOMAIN reduced_ir :
           (j - 1 \in AccountedBy(reduced_ir[i])) <=>
             /\ final_output[j].payload.type \notin {"BeginTransaction", "EndTransaction"}
             /\ i = Until(final_output, "BeginTransaction", j)

=============================================================================
