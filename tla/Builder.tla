------------------------------- MODULE Builder -------------------------------
(***************************************************************************)
(* runtime/builder: partitioning of a CSE stream into one bucket of tables *)
(* per transaction (partition.rs, one action per arm of its match) and     *)
(* reduction of every timeline to its net transition (reduce.rs,           *)
(* ir/timeline.rs).  The module that composes the builder says where the   *)
(* events come from; it reads them from left to right.                     *)
(***************************************************************************)
EXTENDS Naturals, Sequences

VARIABLES
  buckets,          \* finished transactions
  current_bucket,   \* << >>, or the bucket of the open transaction in a 1-tuple
  reduced_ir,       \* one reduced bucket per transaction
  builder_result    \* "partition", "reduce", "Ok", or the BuilderError returned

builderVars == <<buckets, current_bucket, reduced_ir, builder_result>>

BuilderError ==
  {"EventOutsideTransaction", "UnexpectedTransactionBoundary",
   "DuplicateTransactionBoundary", "TimelineFailure"}

BuilderInit ==
  /\ buckets = << >>
  /\ current_bucket = << >>
  /\ reduced_ir = << >>
  /\ builder_result = "partition"

BuilderFail(error) ==
  /\ builder_result' = error
  /\ UNCHANGED <<buckets, current_bucket, reduced_ir>>

-----------------------------------------------------------------------------

EmptyBucket(e) ==
  [metadata |-> [block_number |-> e.block_number,
                 transaction_hash |-> e.transaction_hash,
                 transaction_index |-> e.transaction_index],
   state_tables |-> << >>,
   lifecycle_table |-> << >>,
   log_table |-> << >>,
   gas_refund_timeline |-> << >>]

\* entry(k).or_insert(empty).push(x)
Push(table, k, x) ==
  [y \in DOMAIN table \cup {k} |->
     IF y # k THEN table[y]
     ELSE Append(IF k \in DOMAIN table THEN table[k] ELSE << >>, x)]

\* Timeline::push
Transition(e) ==
  [before |-> e.payload.before, after |-> e.payload.after, event_id |-> e.sequence_number]

\* frame_ordinal is the placeholder 0.
trace_provenance_from(e) ==
  [trace_ordinal |-> e.sequence_number, tx_index |-> e.transaction_index,
   frame_id |-> e.call_frame_id, call_depth |-> e.call_depth, frame_ordinal |-> 0]

ObservedLifecycle(e) ==
  [payload |-> e.payload.type, event_id |-> e.sequence_number,
   trace_provenance |-> trace_provenance_from(e)]

PartitionBegin(e) ==
  \/ current_bucket # << >> /\ BuilderFail("DuplicateTransactionBoundary")
  \/ /\ current_bucket = << >>
     /\ current_bucket' = <<EmptyBucket(e)>>
     /\ UNCHANGED <<buckets, reduced_ir, builder_result>>

PartitionEnd(e) ==
  \/ current_bucket = << >> /\ BuilderFail("UnexpectedTransactionBoundary")
  \/ /\ current_bucket # << >>
     /\ buckets' = buckets \o current_bucket
     /\ current_bucket' = << >>
     /\ UNCHANGED <<reduced_ir, builder_result>>

\* The bucket b with the event filed in the table it belongs to.  Access list
\* touches are not tracked.
File(b, e) ==
  LET is(types) == e.payload.type \in types IN
  [metadata |-> b.metadata,
   state_tables |->
     IF is({"StateChanged"}) THEN Push(b.state_tables, e.payload.key, Transition(e))
     ELSE b.state_tables,
   lifecycle_table |->
     IF is({"ContractCreated", "ContractDestroyed"})
     THEN Push(b.lifecycle_table, e.payload.address, ObservedLifecycle(e))
     ELSE b.lifecycle_table,
   log_table |->
     IF is({"LogEmitted"}) THEN Push(b.log_table, e.payload.address, e.sequence_number)
     ELSE b.log_table,
   gas_refund_timeline |->
     IF is({"GasRefundChanged"}) THEN Append(b.gas_refund_timeline, Transition(e))
     ELSE b.gas_refund_timeline]

PartitionOther(e) ==
  \/ current_bucket = << >> /\ BuilderFail("EventOutsideTransaction")
  \/ /\ current_bucket # << >>
     /\ current_bucket' = <<File(current_bucket[1], e)>>
     /\ UNCHANGED <<buckets, reduced_ir, builder_result>>

Partition(e) ==
  /\ builder_result = "partition"
  /\ \/ e.payload.type = "BeginTransaction" /\ PartitionBegin(e)
     \/ e.payload.type = "EndTransaction" /\ PartitionEnd(e)
     \/ e.payload.type \notin {"BeginTransaction", "EndTransaction"} /\ PartitionOther(e)

\* Mutant of PartitionFinish: an open transaction is not noticed.
PartitionFinishUnchecked ==
  /\ builder_result = "partition"
  /\ builder_result' = "reduce"
  /\ UNCHANGED <<buckets, current_bucket, reduced_ir>>

PartitionFinish ==
  /\ builder_result = "partition"
  /\ \/ current_bucket # << >> /\ BuilderFail("UnexpectedTransactionBoundary")
     \/ /\ current_bucket = << >>
        /\ builder_result' = "reduce"
        /\ UNCHANGED <<buckets, current_bucket, reduced_ir>>

-----------------------------------------------------------------------------

\* Mutant of Discontinuous: current_after is not advanced.
DiscontinuousFromFirst(history) ==
  \E i \in 2..Len(history) : history[i].before # history[1].after

\* Some observation does not start where the previous one ended.
Discontinuous(history) ==
  \E i \in 2..Len(history) : history[i].before # history[i-1].after

Reduced(history) ==
  [initial |-> history[1].before,
   terminal |-> history[Len(history)].after,
   provenance |-> {history[i].event_id : i \in DOMAIN history}]

ReducedBucket(b) ==
  [metadata |-> b.metadata,
   state_table |-> [k \in DOMAIN b.state_tables |-> Reduced(b.state_tables[k])],
   lifecycle_table |-> b.lifecycle_table,
   log_table |-> b.log_table,
   gas_refund |-> IF b.gas_refund_timeline = << >> THEN << >>
                  ELSE <<Reduced(b.gas_refund_timeline)>>]

Timelines(b) ==
  {b.state_tables[k] : k \in DOMAIN b.state_tables} \cup {b.gas_refund_timeline}

\* One failing timeline fails the whole reduction.
Reduce ==
  /\ builder_result = "reduce"
  /\ \/ /\ \E i \in DOMAIN buckets : \E h \in Timelines(buckets[i]) : Discontinuous(h)
        /\ BuilderFail("TimelineFailure")
     \/ /\ \A i \in DOMAIN buckets : \A h \in Timelines(buckets[i]) : ~Discontinuous(h)
        /\ reduced_ir' = [i \in DOMAIN buckets |-> ReducedBucket(buckets[i])]
        /\ builder_result' = "Ok"
        /\ UNCHANGED <<buckets, current_bucket>>

=============================================================================
