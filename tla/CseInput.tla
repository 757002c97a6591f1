------------------------------ MODULE CseInput ------------------------------
(***************************************************************************)
(* The builder on any stream of canonical semantic events: partitioning,   *)
(* reduction and lifecycle resolution, compared with what the stream says  *)
(* when it is read as a whole.  A validator reads the same events.  Events *)
(* are chosen when they are read and numbered densely, as the bridge       *)
(* numbers them, or else all 0.                                            *)
(***************************************************************************)
EXTENDS Segments, Validator, Builder, Lifecycle

CONSTANTS
  Payloads,   \* payloads that occur in the stream
  Numberings, \* whether its events are numbered densely: TRUE, FALSE or both
  MaxLen      \* length of the stream

ASSUME CseInputAssumption ==
  /\ Address \subseteq Nat
  /\ \A payload \in Payloads : payload.type = "StateChanged" => payload.key \in Key
  /\ \A payload \in Payloads :
       payload.type \in {"ContractCreated", "ContractDestroyed"} => payload.address \in Address
  /\ Numberings \subseteq BOOLEAN
  /\ MaxLen \in Nat

VARIABLES
  input,        \* the events read
  pre_states,   \* which addresses the caller says existed before
  canonical,    \* the outcome of the lifecycle pass, one per transaction
  dense         \* whether the events are numbered

vars == <<builderVars, validatorVars, input, pre_states, canonical, dense>>

Init ==
  /\ BuilderInit
  /\ ValidatorInit
  /\ input = << >>
  /\ pre_states = << >>
  /\ canonical = << >>
  /\ dense \in Numberings

EventOf(payload) ==
  [payload |-> payload, sequence_number |-> IF dense THEN Len(input) ELSE 0, block_number |-> 1,
   transaction_hash |-> 1, transaction_index |-> 0, call_frame_id |-> 0, call_depth |-> 0]

Read(payload) ==
  /\ Len(input) < MaxLen
  /\ Partition(EventOf(payload))
  /\ IF validation = "ok" THEN validate_and_advance(EventOf(payload))
                          ELSE UNCHANGED validatorVars
  /\ input' = Append(input, EventOf(payload))
  /\ UNCHANGED <<pre_states, canonical, dense>>

EndOfInput == PartitionFinish /\ UNCHANGED <<validatorVars, input, pre_states, canonical, dense>>

ReduceTimelines == Reduce /\ UNCHANGED <<validatorVars, input, pre_states, canonical, dense>>

\* lifecycle::process, on a stream numbered as the bridge numbers it; the caller
\* supplies pre_states.
ResolveLifecycles ==
  /\ builder_result = "Ok"
  /\ dense
  /\ canonical = << >>
  /\ pre_states' \in [Address -> BOOLEAN]
  /\ canonical' = [i \in DOMAIN reduced_ir |->
                     LifecyclePass(reduced_ir[i].lifecycle_table, pre_states')]
  /\ UNCHANGED <<builderVars, validatorVars, input, dense>>

Built ==
  /\ builder_result \in BuilderError \cup {"Ok"}
  /\ UNCHANGED vars

Next ==
  \/ \E payload \in Payloads : Read(payload)
  \/ EndOfInput
  \/ ReduceTimelines
  \/ ResolveLifecycles
  \/ Built

Spec == Init /\ [][Next]_vars

-----------------------------------------------------------------------------
(***************************************************************************)
(* Partition and reduction                                                 *)
(***************************************************************************)

\* The events of transaction i.
Segment(i) == SegmentOf(input, i)

\* The partition accepts exactly the streams whose events all lie in
\* transactions that do not nest; a stream cut off inside one is refused.
PartitionExact ==
  /\ builder_result \in {"reduce", "Ok", "TimelineFailure"} =>
       Bracketed(input) /\ Open(input, Len(input)) = 0
  /\ builder_result \in BuilderError \ {"TimelineFailure"} =>
       ~Bracketed(input) \/ Open(input, Len(input)) # 0

\* Reduction is replay: a transaction's table names exactly the cells written
\* in it, each goes from the value its first write started from to the value
\* its last write left, with the writes chained in between and all of them in
\* the provenance; and when it fails, some transaction can be replayed on no
\* state at all, or its gas refund has a gap.
ReduceExact ==
  /\ builder_result = "Ok" =>
       \A i \in DOMAIN reduced_ir :
         LET q == Segment(i)
             t == reduced_ir[i].state_table
             any == CHOOSE v \in Value : TRUE
             s == [k \in Key |-> IF k \in DOMAIN t THEN t[k].initial ELSE any]
             z == [k \in Key |-> IF k \in DOMAIN t THEN t[k].terminal ELSE any]
         IN  /\ Continues(s, q) /\ Yields(s, q, z) /\ RefundContinues(q)
             /\ \A k \in Key : (k \in DOMAIN t) <=> \E j \in DOMAIN q : Writes(q, j, k)
             /\ \A k \in DOMAIN t :
                  t[k].provenance = {q[j].sequence_number :
                                       j \in {m \in DOMAIN q : Writes(q, m, k)}}
  /\ builder_result = "TimelineFailure" =>
       \E i \in DOMAIN buckets :
         \/ ~RefundContinues(Segment(i))
         \/ \A s \in World : ~Continues(s, Segment(i))

\* The validator and the partition agree on transactions although each keeps
\* its own account of them: a stream the validator has passed the partition can
\* refuse only for being cut off, and a boundary the validator refuses the
\* partition refuses too.
ValidatorAgrees ==
  /\ validation = "ok" =>
       /\ in_transaction <=> current_bucket # << >>
       /\ builder_result \in BuilderError \ {"TimelineFailure"} => in_transaction
  /\ validation = "InvalidBoundaryCondition" =>
       builder_result \in BuilderError \ {"TimelineFailure"}

-----------------------------------------------------------------------------
(***************************************************************************)
(* Lifecycles                                                              *)
(***************************************************************************)

\* The lifecycle events of address a in transaction i, in order.
Life(i, a) ==
  LET q == Segment(i)
  IN  Sublist(q, {j \in DOMAIN q : /\ q[j].payload.type \in {"ContractCreated",
                                                            "ContractDestroyed"}
                                   /\ q[j].payload.address = a})

Lived(i) == {a \in Address : Life(i, a) # << >>}

\* The address was created, then destroyed, then created again, and so on.
Alternates(q) ==
  \A j \in DOMAIN q :
    q[j].payload.type = IF j % 2 = 1 THEN "ContractCreated" ELSE "ContractDestroyed"

\* The generations of address a in the canonical form of transaction i.
GenerationsOf(i, a) ==
  LET gens == canonical[i].generations
  IN  Sublist(gens, {j \in DOMAIN gens : gens[j].key.address = a})

\* A transaction whose accounts were all absent before and are created and
\* destroyed in turn is valid, and generation g of an account spans from its
\* creation number g to its destruction number g, counting from 0.
AlternationResolved ==
  \A i \in DOMAIN canonical :
    (\A a \in Lived(i) : Alternates(Life(i, a)) /\ ~pre_states[a]) =>
      /\ is_valid(canonical[i])
      /\ \A a \in Lived(i) :
           LET q == Life(i, a)
               n == (Len(q) + 1) \div 2
           IN  GenerationsOf(i, a) =
                 [g \in 1..n |->
                    Generation(a, g - 1, q[2*g - 1].sequence_number,
                               IF 2*g <= Len(q) THEN q[2*g].sequence_number ELSE NoEnd)]

\* What the pass accepts, exactly: transactions in which every account with a
\* lifecycle event was absent before, is created first and is never destroyed
\* twice in a row.  Destroying an account that existed before the transaction is
\* thus refused, for its generation ends where it begins (resolve.rs takes the
\* first observation for the beginning), and so is creating it again after that.
\* Creating an account twice in a row is accepted: Collision is not diagnosed,
\* and the generation that was open begins anew.
AcceptedExactly ==
  \A i \in DOMAIN canonical :
    is_valid(canonical[i]) <=>
      \A a \in Lived(i) :
        LET q == Life(i, a) IN
        /\ ~pre_states[a]
        /\ q[1].payload.type = "ContractCreated"
        /\ \A j \in 2..Len(q) : ~(/\ q[j-1].payload.type = "ContractDestroyed"
                                  /\ q[j].payload.type = "ContractDestroyed")

=============================================================================
