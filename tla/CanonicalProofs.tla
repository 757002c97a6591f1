--------------------------- MODULE CanonicalProofs ---------------------------
(***************************************************************************)
(* Proofs about the builder on any stream of canonical semantic events:    *)
(* what the partition accepts, that the validator agrees with it, and that *)
(* reduction is replay; about the canonical form of lists of facts; and    *)
(* about canonical bytes: what the decoders accept, and what roots and     *)
(* commitments tell.                                                       *)
(***************************************************************************)
EXTENDS CseInput, CanonicalForm, CanonicalBytes, StreamFacts

InputEvent ==
  [payload : Payloads, sequence_number : Nat, block_number : Nat, transaction_hash : Nat,
   transaction_index : Nat, call_frame_id : Nat, call_depth : Nat]

\* The inductive invariant of the builder.
BuilderRight ==
  /\ input \in Seq(InputEvent) /\ dense \in BOOLEAN
  /\ PartitionExact
  /\ builder_result = "partition" => Parted(input, buckets, current_bucket)
  /\ builder_result \in {"reduce", "Ok", "TimelineFailure"} =>
       IsSequence(buckets) /\ AllComplete(input, buckets)
  /\ builder_result = "Ok" =>
       /\ reduced_ir = [i \in DOMAIN buckets |-> ReducedBucket(buckets[i])]
       /\ \A i \in DOMAIN buckets : \A h \in Timelines(buckets[i]) : ~Discontinuous(h)
  /\ builder_result = "TimelineFailure" =>
       \E i \in DOMAIN buckets : \E h \in Timelines(buckets[i]) : Discontinuous(h)

LEMMA EventTyped ==
  ASSUME BuilderRight, NEW payload \in Payloads
  PROVE  EventOf(payload) \in InputEvent /\ EventOf(payload).payload = payload
<1>1. Len(input) \in Nat
  BY DEF BuilderRight
<1> QED BY <1>1 DEF BuilderRight, EventOf, InputEvent

LEMMA ReadRight ==
  ASSUME BuilderRight, NEW payload \in Payloads, Read(payload)
  PROVE  BuilderRight'
<1> DEFINE e == EventOf(payload)
           t == Append(input, e)
<1>1. e \in InputEvent /\ input' = t /\ dense' = dense /\ t \in Seq(InputEvent)
  BY EventTyped DEF Read, BuilderRight
<1>2. builder_result = "partition" /\ Parted(input, buckets, current_bucket)
  BY DEF Read, Partition, BuilderRight
<1>3. input \in Seq(InputEvent) /\ dense' \in BOOLEAN
  BY <1>1 DEF BuilderRight
<1> HIDE DEF e
<1>4. CASE /\ e.payload.type = "BeginTransaction" <=> current_bucket # << >>
           /\ \E error \in BuilderError \ {"TimelineFailure"} : BuilderFail(error)
  <2>1. ~Bracketed(t)
    BY <1>1, <1>2, <1>3, <1>4, PartedRefuses
  <2>2. builder_result' \in BuilderError \ {"TimelineFailure"}
    BY <1>4 DEF BuilderFail
  <2>3. builder_result' \notin {"partition", "reduce", "Ok", "TimelineFailure"}
    BY <2>2 DEF BuilderError
  <2>4. PartitionExact'
    BY <1>1, <2>1, <2>3 DEF PartitionExact
  <2> QED BY <1>1, <1>3, <2>3, <2>4 DEF BuilderRight
<1>5. CASE builder_result' = "partition" /\ Parted(t, buckets', current_bucket')
  <2>1. PartitionExact'
    BY <1>5 DEF PartitionExact, BuilderError
  <2> QED BY <1>1, <1>3, <1>5, <2>1 DEF BuilderRight
<1>6. \/ e.payload.type = "BeginTransaction" /\ PartitionBegin(e)
      \/ e.payload.type = "EndTransaction" /\ PartitionEnd(e)
      \/ e.payload.type \notin TxBoundary /\ PartitionOther(e)
  BY DEF Read, Partition, TxBoundary, e
<1>7. current_bucket = << >> \/ current_bucket = <<current_bucket[1]>>
  BY <1>2 DEF Parted
<1>8. CASE e.payload.type = "BeginTransaction" /\ PartitionBegin(e)
  <2>1. CASE current_bucket # << >>
    BY <1>4, <1>8, <2>1 DEF PartitionBegin, BuilderError
  <2>2. CASE current_bucket = << >>
    <3>1. /\ current_bucket' = <<EmptyBucket(e)>> /\ buckets' = buckets
          /\ builder_result' = builder_result
      BY <1>8, <2>2 DEF PartitionBegin
    <3>2. Parted(t, buckets, <<EmptyBucket(e)>>)
      BY <1>1, <1>2, <1>3, <1>8, <2>2, PartedBegin
    <3> QED BY <1>2, <1>5, <3>1, <3>2
  <2> QED BY <2>1, <2>2
<1>9. CASE e.payload.type = "EndTransaction" /\ PartitionEnd(e)
  <2>1. CASE current_bucket = << >>
    BY <1>4, <1>9, <2>1 DEF PartitionEnd, BuilderError
  <2>2. CASE current_bucket # << >>
    <3>1. /\ current_bucket' = << >> /\ buckets' = buckets \o current_bucket
          /\ builder_result' = builder_result
      BY <1>9, <2>2 DEF PartitionEnd
    <3>2. Parted(t, buckets \o <<current_bucket[1]>>, << >>)
      BY <1>1, <1>2, <1>3, <1>7, <1>9, <2>2, PartedEnd
    <3> QED BY <1>2, <1>5, <1>7, <2>2, <3>1, <3>2
  <2> QED BY <2>1, <2>2
<1>10. CASE e.payload.type \notin TxBoundary /\ PartitionOther(e)
  <2>1. CASE current_bucket = << >>
    BY <1>4, <1>10, <2>1 DEF PartitionOther, BuilderError, TxBoundary
  <2>2. CASE current_bucket # << >>
    <3>1. /\ current_bucket' = <<File(current_bucket[1], e)>> /\ buckets' = buckets
          /\ builder_result' = builder_result
      BY <1>10, <2>2 DEF PartitionOther
    <3>2. e.payload.type = "StateChanged" => e.payload.key \in Key
      BY CseInputAssumption DEF e, EventOf
    <3>3. Parted(t, buckets, <<File(current_bucket[1], e)>>)
      BY <1>1, <1>2, <1>3, <1>7, <1>10, <2>2, <3>2, PartedOther
    <3> QED BY <1>2, <1>5, <3>1, <3>3
  <2> QED BY <2>1, <2>2
<1> QED BY <1>6, <1>8, <1>9, <1>10

LEMMA FinishRight ==
  ASSUME BuilderRight, EndOfInput
  PROVE  BuilderRight'
<1>1. /\ builder_result = "partition" /\ Parted(input, buckets, current_bucket)
      /\ UNCHANGED <<input, dense, buckets>>
      /\ input \in Seq(InputEvent) /\ dense \in BOOLEAN
  BY DEF EndOfInput, PartitionFinish, BuilderRight, BuilderFail
<1>2. Open(input, Len(input)) = IF current_bucket = << >> THEN 0 ELSE 1
  BY <1>1, PartedOpen
<1>3. CASE current_bucket # << >> /\ BuilderFail("UnexpectedTransactionBoundary")
  <2>1. builder_result' = "UnexpectedTransactionBoundary"
    BY <1>3 DEF BuilderFail
  <2>2. PartitionExact'
    BY <1>1, <1>2, <1>3, <2>1 DEF PartitionExact
  <2> QED BY <1>1, <2>1, <2>2 DEF BuilderRight
<1>4. CASE current_bucket = << >> /\ builder_result' = "reduce"
  <2>1. IsSequence(buckets) /\ AllComplete(input, buckets) /\ Bracketed(input)
    BY <1>1 DEF Parted
  <2>2. PartitionExact'
    BY <1>1, <1>2, <1>4, <2>1 DEF PartitionExact, BuilderError
  <2>3. IsSequence(buckets') /\ AllComplete(input', buckets')
    BY <1>1, <2>1
  <2> QED BY <1>1, <1>4, <2>2, <2>3 DEF BuilderRight
<1> QED BY <1>3, <1>4 DEF EndOfInput, PartitionFinish

LEMMA ReduceRight ==
  ASSUME BuilderRight, ReduceTimelines
  PROVE  BuilderRight'
<1>1. /\ builder_result = "reduce" /\ builder_result' \in {"Ok", "TimelineFailure"}
      /\ UNCHANGED <<input, dense, buckets>>
      /\ input \in Seq(InputEvent) /\ dense \in BOOLEAN
  BY DEF ReduceTimelines, Reduce, BuilderFail, BuilderRight
<1>2. PartitionExact'
  <2>1. Bracketed(input) /\ Open(input, Len(input)) = 0
    BY <1>1 DEF BuilderRight, PartitionExact
  <2> QED BY <1>1, <2>1 DEF PartitionExact, BuilderError
<1>3. IsSequence(buckets') /\ AllComplete(input', buckets')
  BY <1>1 DEF BuilderRight
<1>4. CASE builder_result' = "Ok"
  <2>1. /\ \A i \in DOMAIN buckets : \A h \in Timelines(buckets[i]) : ~Discontinuous(h)
        /\ reduced_ir' = [i \in DOMAIN buckets |-> ReducedBucket(buckets[i])]
    BY <1>4 DEF ReduceTimelines, Reduce, BuilderFail
  <2> QED BY <1>1, <1>2, <1>3, <1>4, <2>1 DEF BuilderRight
<1>5. CASE builder_result' = "TimelineFailure"
  <2>1. \E i \in DOMAIN buckets : \E h \in Timelines(buckets[i]) : Discontinuous(h)
    BY <1>5 DEF ReduceTimelines, Reduce
  <2> QED BY <1>1, <1>2, <1>3, <1>5, <2>1 DEF BuilderRight
<1> QED BY <1>1, <1>4, <1>5

LEMMA RestRight ==
  ASSUME BuilderRight, ResolveLifecycles \/ Built \/ UNCHANGED vars
  PROVE  BuilderRight'
<1>1. UNCHANGED <<input, dense, buckets, current_bucket, reduced_ir, builder_result>>
  BY DEF ResolveLifecycles, Built, vars, builderVars
<1>2. PartitionExact'
  BY <1>1 DEF BuilderRight, PartitionExact
<1> QED BY <1>1, <1>2 DEF BuilderRight

LEMMA BuilderIsRight == Spec => []BuilderRight
<1>1. Init => BuilderRight
  <2> SUFFICES ASSUME Init PROVE BuilderRight
    OBVIOUS
  <2>1. /\ input = << >> /\ buckets = << >> /\ current_bucket = << >>
        /\ builder_result = "partition" /\ dense \in BOOLEAN
    BY CseInputAssumption DEF Init, BuilderInit
  <2>2. PartitionExact
    BY <2>1 DEF PartitionExact, BuilderError
  <2>3. Parted(input, buckets, current_bucket)
    BY <2>1, PartedNone
  <2> QED BY <2>1, <2>2, <2>3, EmptySeq DEF BuilderRight
<1>2. BuilderRight /\ [Next]_vars => BuilderRight'
  BY ReadRight, FinishRight, ReduceRight, RestRight DEF Next
<1> QED BY <1>1, <1>2, PTL DEF Spec

\* The partition accepts exactly the streams of transactions that do not nest and
\* are not cut off (partition.rs).
THEOREM PartitionIsExact == Spec => []PartitionExact
<1>1. BuilderRight => PartitionExact
  BY DEF BuilderRight
<1> QED BY <1>1, BuilderIsRight, PTL

-----------------------------------------------------------------------------
(***************************************************************************)
(* Reduction.                                                              *)
(***************************************************************************)

\* Reduction is replay, and it fails only where there is nothing to replay
\* (reduce.rs, timeline.rs).
THEOREM ReduceIsReplay == Spec => []ReduceExact
<1>1. ASSUME BuilderRight PROVE ReduceExact
  <2>1. input \in Seq(InputEvent)
    BY <1>1 DEF BuilderRight
  <2>2. ASSUME builder_result \in {"Ok", "TimelineFailure"}, NEW i \in DOMAIN buckets
        PROVE  /\ Segment(i) \in Seq(InputEvent)
               /\ Holds(buckets[i], Segment(i), 0, Len(Segment(i)))
    <3>1. i \in 1..Len(buckets)
      BY <1>1, <2>2, LenProperties DEF BuilderRight, IsSequence
    <3>2. Complete(input, buckets[i], i)
      BY <1>1, <2>2, <3>1 DEF BuilderRight, AllComplete
    <3> QED BY <2>1, <3>2, SegmentHeld DEF Segment, SegmentOf
  <2>3. ASSUME builder_result = "Ok", NEW i \in DOMAIN reduced_ir
        PROVE  ReplaysTo(reduced_ir[i].state_table, Segment(i))
    <3>1. i \in DOMAIN buckets /\ reduced_ir[i] = ReducedBucket(buckets[i])
          /\ \A h \in Timelines(buckets[i]) : ~Discontinuous(h)
      BY <1>1, <2>3 DEF BuilderRight
    <3> QED BY <2>2, <2>3, <3>1, BucketReduced
  <2>4. ASSUME builder_result = "TimelineFailure"
        PROVE  \E i \in DOMAIN buckets :
                 \/ ~RefundContinues(Segment(i))
                 \/ \A s \in World : ~Continues(s, Segment(i))
    <3>1. PICK i \in DOMAIN buckets : \E h \in Timelines(buckets[i]) : Discontinuous(h)
      BY <1>1, <2>4 DEF BuilderRight
    <3> QED BY <2>2, <2>4, <3>1, BucketFails
  <2> QED BY <2>3, <2>4 DEF ReduceExact, ReplaysTo
<1> QED BY <1>1, BuilderIsRight, PTL

-----------------------------------------------------------------------------
(***************************************************************************)
(* The validator.                                                          *)
(***************************************************************************)

AgreementRight == in_transaction \in BOOLEAN /\ ValidatorAgrees

\* What the partition does with an event depends on the open bucket alone.
LEMMA PartitionDecides ==
  ASSUME NEW e, Partition(e)
  PROVE  /\ builder_result = "partition"
         /\ (e.payload.type = "BeginTransaction" <=> current_bucket # << >>) =>
              /\ builder_result' \in BuilderError \ {"TimelineFailure"}
              /\ current_bucket' = current_bucket
         /\ ~(e.payload.type = "BeginTransaction" <=> current_bucket # << >>) =>
              /\ builder_result' = "partition"
              /\ current_bucket' # << >> <=> e.payload.type # "EndTransaction"
<1>1. \A b : <<b>> # << >>
  OBVIOUS
<1>2. builder_result = "partition"
  BY DEF Partition
<1>3. CASE e.payload.type = "BeginTransaction" /\ PartitionBegin(e)
  BY <1>1, <1>2, <1>3 DEF PartitionBegin, BuilderFail, BuilderError
<1>4. CASE e.payload.type = "EndTransaction" /\ PartitionEnd(e)
  BY <1>2, <1>4 DEF PartitionEnd, BuilderFail, BuilderError
<1>5. CASE /\ e.payload.type \notin {"BeginTransaction", "EndTransaction"}
           /\ PartitionOther(e)
  BY <1>1, <1>2, <1>5 DEF PartitionOther, BuilderFail, BuilderError
<1> QED BY <1>3, <1>4, <1>5 DEF Partition

\* So does what the validator does with it, once its payload and number are right.
LEMMA ValidatorDecides ==
  ASSUME NEW e, validate_and_advance(e), in_transaction \in BOOLEAN
  PROVE  /\ in_transaction' \in BOOLEAN
         /\ validation' = "ok" =>
              /\ ~(e.payload.type = "BeginTransaction" <=> in_transaction)
              /\ in_transaction' <=> e.payload.type # "EndTransaction"
         /\ validation' = "InvalidBoundaryCondition" =>
              (e.payload.type = "BeginTransaction" <=> in_transaction)
<1>1. CASE Refuse("InvalidPayloadState") \/ Refuse("SequenceBreakage")
  BY <1>1 DEF Refuse
<1>2. CASE ~InEnvelope(e.payload) /\ Refuse("InvalidBoundaryCondition")
  BY <1>2 DEF Refuse, InEnvelope
<1>3. CASE /\ InEnvelope(e.payload) /\ validation' = "ok"
           /\ in_transaction' = (e.payload.type # "EndTransaction")
  <2>1. in_transaction' \in BOOLEAN /\ (in_transaction' <=> e.payload.type # "EndTransaction")
    BY <1>3, Zenon
  <2> QED BY <1>3, <2>1 DEF InEnvelope
<1> QED BY <1>1, <1>2, <1>3 DEF validate_and_advance

LEMMA ReadAgreement ==
  ASSUME AgreementRight, NEW payload, Read(payload)
  PROVE  AgreementRight'
<1> DEFINE e == EventOf(payload)
<1>1. /\ Partition(e) /\ in_transaction \in BOOLEAN
      /\ validation = "ok" => validate_and_advance(e)
      /\ validation # "ok" => UNCHANGED <<in_transaction, validation>>
  BY DEF Read, AgreementRight, validatorVars
<1>2. /\ validation = "ok" => (in_transaction <=> current_bucket # << >>)
      /\ validation # "InvalidBoundaryCondition"
  <2>1. builder_result = "partition"
    BY <1>1 DEF Partition
  <2> QED BY <2>1 DEF AgreementRight, ValidatorAgrees, BuilderError
<1> HIDE DEF e
<1>3. CASE validation # "ok"
  BY <1>1, <1>2, <1>3 DEF AgreementRight, ValidatorAgrees
<1>4. CASE validation = "ok"
  <2>1. in_transaction' \in BOOLEAN
    BY <1>1, <1>4, ValidatorDecides
  <2>2. ASSUME validation' = "ok"
        PROVE  /\ in_transaction' <=> current_bucket' # << >>
               /\ builder_result' = "partition"
    BY <1>1, <1>2, <1>4, <2>2, ValidatorDecides, PartitionDecides
  <2>3. validation' = "InvalidBoundaryCondition" =>
          builder_result' \in BuilderError \ {"TimelineFailure"}
    BY <1>1, <1>2, <1>4, ValidatorDecides, PartitionDecides
  <2>4. ValidatorAgrees'
    BY <2>2, <2>3 DEF ValidatorAgrees, BuilderError
  <2> QED BY <2>1, <2>4 DEF AgreementRight
<1> QED BY <1>3, <1>4

\* What the validator passes the partition takes, and a boundary that it refuses
\* the partition refuses too (validator.rs, partition.rs).
THEOREM ValidatorIsRight == Spec => []ValidatorAgrees
<1>1. Init => AgreementRight
  BY DEF Init, BuilderInit, ValidatorInit, AgreementRight, ValidatorAgrees, BuilderError
<1>2. AgreementRight /\ [Next]_vars => AgreementRight'
  <2> SUFFICES ASSUME AgreementRight, [Next]_vars PROVE AgreementRight'
    OBVIOUS
  <2>1. CASE \E payload \in Payloads : Read(payload)
    BY <2>1, ReadAgreement
  <2>2. CASE EndOfInput
    <3>1. /\ UNCHANGED <<in_transaction, validation, current_bucket>>
          /\ builder_result = "partition"
          /\ current_bucket # << >> \/ builder_result' = "reduce"
      BY <2>2 DEF EndOfInput, PartitionFinish, BuilderFail, validatorVars
    <3> QED BY <3>1 DEF AgreementRight, ValidatorAgrees, BuilderError
  <2>3. CASE ReduceTimelines
    <3>1. /\ UNCHANGED <<in_transaction, validation, current_bucket>>
          /\ builder_result = "reduce" /\ builder_result' \in {"Ok", "TimelineFailure"}
      BY <2>3 DEF ReduceTimelines, Reduce, BuilderFail, validatorVars
    <3> QED BY <3>1 DEF AgreementRight, ValidatorAgrees, BuilderError
  <2>4. CASE ResolveLifecycles \/ Built \/ UNCHANGED vars
    <3>1. UNCHANGED <<in_transaction, validation, current_bucket, builder_result>>
      BY <2>4 DEF ResolveLifecycles, Built, vars, builderVars, validatorVars
    <3> QED BY <3>1 DEF AgreementRight, ValidatorAgrees
  <2> QED BY <2>1, <2>2, <2>3, <2>4 DEF Next
<1>3. AgreementRight => ValidatorAgrees
  BY DEF AgreementRight
<1> QED BY <1>1, <1>2, <1>3, PTL DEF Spec

-----------------------------------------------------------------------------
(***************************************************************************)
(* The canonical form of any facts.                                        *)
(***************************************************************************)

BalanceFact == [key : Keys, location : Nat]

\* What process has returned is the form of what it was handed.
FormRight ==
  /\ generations \in Seq(GenerationFact) /\ balances \in Seq(BalanceFact)
  /\ output # << >> => output[1] = canonicalize(<< >>, generations, balances)

LEMMA FormKeeps == FormRight /\ [FormStep]_formVars => FormRight'
<1> SUFFICES ASSUME FormRight, [FormStep]_formVars PROVE FormRight'
  OBVIOUS
<1>1. ASSUME NEW g \in GenerationFacts, AddGeneration(g) PROVE FormRight'
  <2>1. g \in GenerationFact
    BY CanonicalFormAssumption
       DEF GenerationFacts, GenerationFact, Generation, GenerationKey, Keys
  <2> QED BY <1>1, <2>1 DEF AddGeneration, FormRight
<1>2. ASSUME NEW b \in BalanceFacts, AddBalance(b) PROVE FormRight'
  <2>1. b \in BalanceFact
    BY CanonicalFormAssumption DEF BalanceFacts, BalanceFact, GenerationKey, Keys
  <2> QED BY <1>2, <2>1 DEF AddBalance, FormRight
<1>3. CASE Process
  BY <1>3 DEF Process, FormRight
<1>4. CASE UNCHANGED formVars
  BY <1>4 DEF formVars, FormRight
<1> QED BY <1>1, <1>2, <1>3, <1>4 DEF FormStep, Processed

LEMMA FormIsRight == FormSpec => []FormRight
<1>1. FormInit => FormRight
  BY DEF FormInit, FormRight
<1> QED BY <1>1, FormKeeps, PTL DEF FormSpec

\* The generations in a form: the facts, sorted, and without a key twice in a row.
LEMMA FormIs ==
  ASSUME NEW s \in Seq(GenerationFact), NEW t, t = Dedup(StableSort(s, GenerationLess))
  PROVE  /\ t \in Seq(GenerationFact) /\ Ascends(t, GenerationOrder)
         /\ From(t, s) /\ KeysChange(t)
<1> DEFINE u == StableSort(s, GenerationLess)
           W == GenerationOrder
<1>1. Sorts(u, W, s) /\ Compares(W, GenerationFact)
  BY GenerationsSorted, GenerationsCompare
<1>2. t = Dedup(u)
  OBVIOUS
<1> HIDE DEF u, W
<1>3. u \in Seq(GenerationFact) /\ Ascends(u, W) /\ From(u, s)
  BY <1>1, SortedFacts
<1>4. t \in Seq(GenerationFact) /\ Ascends(t, W) /\ From(t, u) /\ KeysChange(t)
  BY <1>2, <1>3, DedupFacts
<1>5. From(t, s)
  BY <1>3, <1>4 DEF From
<1> QED BY <1>4, <1>5 DEF W

\* The keys in the form of keyed facts are all keys of the facts.
LEMMA KeysKept ==
  ASSUME NEW T, \A x \in T : x.key \in Keys, NEW s \in Seq(T), NEW t,
         t = Dedup(StableSort(s, KeyLess))
  PROVE  t \in Seq(T) /\ Ascends(t, KeyOrder(T)) /\ KeysFrom(s, t) /\ KeysChange(t)
<1> DEFINE u == StableSort(s, KeyLess)
           W == KeyOrder(T)
<1>1. Sorts(u, W, s) /\ Compares(W, T)
  BY KeysSorted, KeysCompare
<1>2. t = Dedup(u)
  OBVIOUS
<1> HIDE DEF u, W
<1>3. u \in Seq(T) /\ Ascends(u, W) /\ From(s, u)
  BY <1>1, SortedFacts
<1>4. t \in Seq(T) /\ Ascends(t, W) /\ KeysFrom(u, t) /\ KeysChange(t)
  BY <1>2, <1>3, DedupFacts
<1>5. KeysFrom(s, t)
  <2>1. ASSUME NEW i \in 1..Len(s) PROVE \E k \in 1..Len(t) : s[i].key = t[k].key
    <3>1. PICK j \in 1..Len(u) : s[i] = u[j]
      BY <1>3 DEF From
    <3>2. PICK k \in 1..Len(t) : u[j].key = t[k].key
      BY <1>4 DEF KeysFrom
    <3> QED BY <3>1, <3>2
  <2> QED BY <2>1 DEF KeysFrom
<1> QED BY <1>4, <1>5 DEF W

\* A list in order, whose neighbours are neither alike nor overlap.
LEMMA NeighboursSuffice ==
  ASSUME NEW t \in Seq(GenerationFact), Ascends(t, GenerationOrder), Overlaps(t) = {},
         NEW i \in DOMAIN t, NEW j \in DOMAIN t, i < j,
         t[i].key.address = t[j].key.address, t[i].end # NoEnd
  PROVE  t[i].end < t[j].begin
<1>1. i \in 1..Len(t) /\ j \in 1..Len(t) /\ i + 1 \in 1..Len(t) /\ i + 1 <= j
  OBVIOUS
<1> DEFINE x == t[i]
           y == t[i+1]
           z == t[j]
<1>2. x \in GenerationFact /\ y \in GenerationFact /\ z \in GenerationFact
  BY <1>1
<1>3. <<y, x>> \notin GenerationOrder /\ (z = y \/ <<z, y>> \notin GenerationOrder)
  <2>1. i + 1 = j \/ i + 1 < j
    BY <1>1
  <2> QED BY <1>1, <2>1 DEF Ascends
<1>4. y.key.address = x.key.address => ~(x.end >= y.begin)
  <2>1. i + 1 \in DOMAIN t \ {1} /\ t[(i+1)-1] = x
    BY <1>1
  <2>2. ~(/\ t[(i+1)-1].key.address = t[i+1].key.address
          /\ t[(i+1)-1].end # NoEnd
          /\ t[(i+1)-1].end >= t[i+1].begin)
    BY <2>1 DEF Overlaps
  <2> QED BY <2>1, <2>2
<1>5. x.key.address = z.key.address /\ x.end # NoEnd
  OBVIOUS
<1> HIDE DEF x, y, z
<1>6. ~GenerationLess(y, x) /\ (z = y \/ ~GenerationLess(z, y))
  BY <1>2, <1>3 DEF GenerationOrder
<1>7. y.key.address = x.key.address /\ y.begin <= z.begin
  <2>1. /\ x.key.address \in Nat /\ y.key.address \in Nat /\ z.key.address \in Nat
        /\ y.begin \in Nat /\ z.begin \in Nat
    BY <1>2 DEF GenerationFact, Keys
  <2>2. /\ ~(y.key.address < x.key.address)
        /\ z = y \/ ~(z.key.address < y.key.address)
    BY <1>6 DEF GenerationLess
  <2>3. y.key.address = x.key.address
    BY <1>5, <2>1, <2>2
  <2>4. z = y \/ ~(z.key.address = y.key.address /\ z.begin < y.begin)
    BY <1>6 DEF GenerationLess
  <2> QED BY <1>5, <2>1, <2>3, <2>4
<1>8. x.end < z.begin
  BY <1>2, <1>4, <1>5, <1>7 DEF GenerationFact, Keys
<1> QED BY <1>8 DEF x, z

LEMMA KeysDistinct ==
  ASSUME NEW t \in Seq(GenerationFact), DuplicateKeys(t) = {},
         NEW i \in DOMAIN t, NEW j \in DOMAIN t, i < j
  PROVE  t[i].key # t[j].key
<1>1. i \in 1..j-1
  OBVIOUS
<1> QED BY <1>1 DEF DuplicateKeys

\* Each balance that is kept has its generation, and a balance that is not has
\* the key of one that is.
LEMMA BalancesHaveGenerations ==
  ASSUME NEW s \in Seq(GenerationFact), NEW t \in Seq(GenerationFact), From(t, s),
         NEW b \in Seq(BalanceFact), NEW c \in Seq(BalanceFact), KeysFrom(b, c),
         IntegrityBreaches(t, c) = {}, NEW i \in DOMAIN b
  PROVE  \E j \in DOMAIN s : s[j].key = b[i].key
<1>1. PICK k \in 1..Len(c) : b[i].key = c[k].key
  <2>1. i \in 1..Len(b)
    OBVIOUS
  <2> QED BY <2>1 DEF KeysFrom
<1>2. PICK m \in DOMAIN t : t[m].key = c[k].key
  BY <1>1 DEF IntegrityBreaches
<1>3. PICK j \in 1..Len(s) : t[m] = s[j]
  BY <1>2 DEF From
<1> QED BY <1>1, <1>2, <1>3

LEMMA NothingReported ==
  ASSUME NEW gens, NEW bals, NEW pass,
         pass = canonicalize(<< >>, gens, bals), is_valid(pass)
  PROVE  LET t == Dedup(StableSort(gens, GenerationLess))
             c == Dedup(StableSort(bals, KeyLess))
         IN  /\ DuplicateKeys(t) = {} /\ Overlaps(t) = {}
             /\ IntegrityBreaches(t, c) = {}
<1> DEFINE t == Dedup(StableSort(gens, GenerationLess))
           c == Dedup(StableSort(bals, KeyLess))
<1>1. pass.diagnostics = DuplicateKeys(t) \cup InvalidIntervals(t)
                           \cup IntegrityBreaches(t, c)
                           \cup OrderBreaches(t) \cup Overlaps(t)
  BY DEF canonicalize
<1>2. pass.diagnostics = {}
  BY DEF is_valid
<1> HIDE DEF t, c
<1>3. DuplicateKeys(t) = {} /\ Overlaps(t) = {} /\ IntegrityBreaches(t, c) = {}
  BY <1>1, <1>2
<1> QED BY <1>3 DEF t, c

\* canonicalize.rs: a report without a violation means what it says, though
\* verify_global_schema compares neighbours only.
THEOREM ReportIsSound == FormSpec => []ReportSound
<1>1. FormRight => ReportSound
  <2> SUFFICES ASSUME FormRight, output # << >>, is_valid(output[1]) PROVE ReportSound
    BY DEF ReportSound
  <2> DEFINE t == Dedup(StableSort(generations, GenerationLess))
             c == Dedup(StableSort(balances, KeyLess))
  <2>1. /\ generations \in Seq(GenerationFact) /\ balances \in Seq(BalanceFact)
        /\ output[1] = canonicalize(<< >>, generations, balances)
    BY DEF FormRight
  <2>2. output[1].generations = t
    BY <2>1 DEF canonicalize
  <2>3. DuplicateKeys(t) = {} /\ Overlaps(t) = {} /\ IntegrityBreaches(t, c) = {}
    BY <2>1, NothingReported
  <2>4. t \in Seq(GenerationFact) /\ Ascends(t, GenerationOrder) /\ From(t, generations)
    BY <2>1, FormIs
  <2>5. c \in Seq(BalanceFact) /\ KeysFrom(balances, c)
    <3>1. \A x \in BalanceFact : x.key \in Keys
      BY DEF BalanceFact
    <3> QED BY <2>1, <3>1, KeysKept
  <2> HIDE DEF t, c
  <2>6. ASSUME NEW i \in DOMAIN t, NEW j \in DOMAIN t, i # j
        PROVE  /\ t[i].key # t[j].key
               /\ (/\ t[i].key.address = t[j].key.address
                   /\ NoEnd \notin {t[i].end, t[j].end})
                  => t[i].end < t[j].begin \/ t[j].end < t[i].begin
    <3>1. i < j \/ j < i
      BY <2>4, <2>6
    <3> QED BY <2>3, <2>4, <3>1, KeysDistinct, NeighboursSuffice
  <2>7. ASSUME NEW b \in DOMAIN balances
        PROVE  \E i \in DOMAIN generations : generations[i].key = balances[b].key
    BY <2>1, <2>3, <2>4, <2>5, BalancesHaveGenerations
  <2> QED BY <2>2, <2>6, <2>7 DEF ReportSound
<1> QED BY <1>1, FormIsRight, PTL

-----------------------------------------------------------------------------
(***************************************************************************)
(* The canonical form is a normal form.                                    *)
(***************************************************************************)

\* An ordering by p is one that uses every place.
LEMMA EveryPlace ==
  ASSUME NEW n \in Nat, NEW p \in [1..n -> 1..n],
         \A i, j \in 1..n : p[i] = p[j] => i = j
  PROVE  \A x \in 1..n : \E i \in 1..n : p[i] = x
<1>1. IsFiniteSet(1..n)
  BY CountTo
<1>2. p \in Injection(1..n, 1..n)
  BY DEF Injection, IsInjective
<1>3. p \in Surjection(1..n, 1..n)
  BY <1>1, <1>2, FS_Injection
<1> QED BY <1>3 DEF Surjection

\* Facts with distinct keys are all different, and the order decides between them.
LEMMA KeysDecide ==
  ASSUME NEW s \in Seq(GenerationFact), DistinctKeys(s)
  PROVE  Different(s) /\ Decides(GenerationOrder, Elements(s))
<1>1. Different(s)
  BY DEF DistinctKeys, Different
<1>2. ASSUME NEW x \in Elements(s), NEW y \in Elements(s), x # y
      PROVE  <<x, y>> \in GenerationOrder \/ <<y, x>> \in GenerationOrder
  <2>1. x \in GenerationFact /\ y \in GenerationFact
    BY DEF Elements
  <2>2. x.key # y.key
    <3>1. PICK i \in 1..Len(s), j \in 1..Len(s) : x = s[i] /\ y = s[j]
      BY DEF Elements
    <3> QED BY <1>2, <3>1 DEF DistinctKeys
  <2>3. /\ x.key.address \in Nat /\ y.key.address \in Nat
        /\ x.key.generation_id \in Nat /\ y.key.generation_id \in Nat
        /\ x.begin \in Nat /\ y.begin \in Nat
    BY <2>1 DEF GenerationFact, Keys
  <2>4. x.key.address # y.key.address \/ x.key.generation_id # y.key.generation_id
    <3>1. x.key \in Keys /\ y.key \in Keys
      BY <2>1 DEF GenerationFact
    <3> DEFINE k == x.key
               l == y.key
    <3>2. k \in Keys /\ l \in Keys /\ k # l
      BY <2>2, <3>1
    <3> HIDE DEF k, l
    <3>3. k.address # l.address \/ k.generation_id # l.generation_id
      BY <3>2 DEF Keys
    <3> QED BY <3>3 DEF k, l
  <2>5. GenerationLess(x, y) \/ GenerationLess(y, x)
    BY <2>3, <2>4 DEF GenerationLess
  <2> QED BY <2>1, <2>5 DEF GenerationOrder
<1> QED BY <1>1, <1>2 DEF Decides

\* The same facts in another order.
Permutes(t, s) ==
  \E p \in [1..Len(s) -> 1..Len(s)] :
    /\ t = [i \in 1..Len(s) |-> s[p[i]]]
    /\ \A i, j \in 1..Len(s) : p[i] = p[j] => i = j

LEMMA SameElements ==
  ASSUME NEW T, NEW s \in Seq(T), NEW t, Permutes(t, s), Different(s)
  PROVE  t \in Seq(T) /\ Len(t) = Len(s) /\ Elements(t) = Elements(s) /\ Different(t)
<1> DEFINE n == Len(s)
<1>1. n \in Nat
  OBVIOUS
<1>2. PICK p \in [1..n -> 1..n] :
        /\ t = [i \in 1..n |-> s[p[i]]]
        /\ \A i, j \in 1..n : p[i] = p[j] => i = j
  BY DEF Permutes
<1>3. \A x \in 1..n : \E i \in 1..n : p[i] = x
  BY <1>1, <1>2, EveryPlace
<1>4. t \in Seq(T) /\ Len(t) = n
  BY <1>1, <1>2
<1>5. Different(t)
  <2>1. ASSUME NEW i \in 1..n, NEW j \in 1..n, t[i] = t[j] PROVE i = j
    <3>1. t[i] = s[p[i]] /\ t[j] = s[p[j]] /\ p[i] \in 1..n /\ p[j] \in 1..n
      BY <1>2
    <3>2. p[i] = p[j]
      BY <2>1, <3>1 DEF Different
    <3> QED BY <1>2, <3>2
  <2> QED BY <1>4, <2>1 DEF Different
<1>6. Elements(t) \subseteq Elements(s)
  BY <1>2, <1>4 DEF Elements
<1>7. ASSUME NEW x \in Elements(s) PROVE x \in Elements(t)
  <2>1. PICK k \in 1..n : x = s[k]
    BY DEF Elements
  <2>2. PICK i \in 1..n : p[i] = k
    BY <1>3
  <2>3. x = t[i] /\ i \in 1..Len(t)
    BY <1>2, <1>4, <2>1, <2>2
  <2> QED BY <2>3 DEF Elements
<1> QED BY <1>4, <1>5, <1>6, <1>7

LEMMA SortedAlike ==
  ASSUME NEW s \in Seq(GenerationFact), DistinctKeys(s), NEW t, Permutes(t, s)
  PROVE  StableSort(t, GenerationLess) = StableSort(s, GenerationLess)
<1>1. Different(s) /\ Decides(GenerationOrder, Elements(s))
  BY KeysDecide
<1>2. /\ t \in Seq(GenerationFact) /\ Len(t) = Len(s)
      /\ Elements(t) = Elements(s) /\ Different(t)
  BY <1>1, SameElements
<1> DEFINE u == StableSort(s, GenerationLess)
           v == StableSort(t, GenerationLess)
           W == GenerationOrder
<1>3. Sorts(u, W, s) /\ Sorts(v, W, t) /\ Compares(W, GenerationFact)
  BY <1>2, GenerationsSorted, GenerationsCompare
<1>4. Decides(W, Elements(s))
  BY <1>1
<1> HIDE DEF u, v, W
<1>5. u = v
  BY <1>1, <1>2, <1>3, <1>4, SortedOnce
<1> QED BY <1>5 DEF u, v

\* What is in the form already stays as it is.
LEMMA KeyedStay ==
  ASSUME NEW T, \A x \in T : x.key \in Keys, NEW t \in Seq(T),
         Ascends(t, KeyOrder(T)), KeysChange(t)
  PROVE  Dedup(StableSort(t, KeyLess)) = t
<1> DEFINE u == StableSort(t, KeyLess)
           W == KeyOrder(T)
<1>1. Sorts(u, W, t) /\ Compares(W, T) /\ Ascends(t, W)
  BY KeysSorted, KeysCompare
<1> HIDE DEF u, W
<1>2. u = t
  BY <1>1, SortedStays
<1>3. Dedup(u) = t
  BY <1>2, DedupStays
<1> QED BY <1>3 DEF u

\* canonicalize.rs: the form of a form is the form; and the order in which facts
\* with distinct keys are handed in leaves no trace in it.
THEOREM FormIsNormal == FormSpec => []NormalForm
<1>1. FormRight => NormalForm
  <2> SUFFICES ASSUME FormRight, output # << >> PROVE NormalForm
    BY DEF NormalForm
  <2> DEFINE t == Dedup(StableSort(generations, GenerationLess))
             c == Dedup(StableSort(balances, KeyLess))
             pre == Dedup(StableSort(<< >>, KeyLess))
  <2>1. /\ generations \in Seq(GenerationFact) /\ balances \in Seq(BalanceFact)
        /\ output[1] = canonicalize(<< >>, generations, balances)
    BY DEF FormRight
  <2>2. output[1] = FormOf(pre, t, c)
    BY <2>1, FormMade
  <2>3. t \in Seq(GenerationFact) /\ Ascends(t, GenerationOrder) /\ KeysChange(t)
    BY <2>1, FormIs
  <2>4. \A x \in BalanceFact : x.key \in Keys
    BY DEF BalanceFact
  <2>5. c \in Seq(BalanceFact) /\ Ascends(c, KeyOrder(BalanceFact)) /\ KeysChange(c)
    BY <2>1, <2>4, KeysKept
  <2>6. output[1].generations = t /\ output[1].balances = c
    BY <2>2 DEF FormOf
  <2>7. ASSUME NEW s, Permutes(s, generations), DistinctKeys(generations)
        PROVE  canonicalize(<< >>, s, balances) = output[1]
    <3>1. StableSort(s, GenerationLess) = StableSort(generations, GenerationLess)
      BY <2>1, <2>7, SortedAlike
    <3>2. canonicalize(<< >>, s, balances)
            = FormOf(pre, Dedup(StableSort(s, GenerationLess)), c)
      BY FormMade
    <3> QED BY <2>2, <3>1, <3>2
  <2> HIDE DEF t, c
  <2>8. Dedup(StableSort(t, GenerationLess)) = t /\ Dedup(StableSort(c, KeyLess)) = c
    BY <2>3, <2>4, <2>5, GenerationsStay, KeyedStay
  <2>9. canonicalize(<< >>, t, c) = output[1]
    <3>1. canonicalize(<< >>, t, c) = FormOf(pre, Dedup(StableSort(t, GenerationLess)),
                                                  Dedup(StableSort(c, KeyLess)))
      BY FormMade
    <3> QED BY <2>2, <2>8, <3>1
  <2>10. ASSUME \A i, j \in DOMAIN generations :
                  generations[i].key = generations[j].key => i = j,
                NEW s \in Rearranged(generations)
         PROVE  canonicalize(<< >>, s, balances) = output[1]
    <3>1. DOMAIN generations = 1..Len(generations)
      BY <2>1
    <3>2. DistinctKeys(generations)
      BY <2>10, <3>1 DEF DistinctKeys
    <3>3. Permutes(s, generations)
      BY <3>1 DEF Rearranged, Permutes
    <3> QED BY <2>7, <3>2, <3>3
  <2> QED BY <2>6, <2>9, <2>10 DEF NormalForm
<1> QED BY <1>1, FormIsRight, PTL

-----------------------------------------------------------------------------
(***************************************************************************)
(* The lifecycle pass.                                                     *)
(***************************************************************************)

LEMMA NothingDuplicate ==
  ASSUME NEW table, NEW pre, Chronicled(table, pre), NEW G, ListsAll(G, FactsOf(table, pre))
  PROVE  DuplicateKeys(G) = {} /\ OrderBreaches(G) = {}
<1>1. /\ G \in Seq(GenerationFact) /\ DOMAIN G = 1..Len(G) /\ Len(G) \in Nat
      /\ DistinctKeys(G)
  BY ListedOnce
<1>2. ASSUME NEW j \in DOMAIN G, NEW m \in 1..j-1 PROVE G[m].key # G[j].key
  <2>1. j \in 1..Len(G) /\ m \in 1..Len(G) /\ m # j
    BY <1>1
  <2> QED BY <1>1, <2>1 DEF DistinctKeys
<1>3. ASSUME NEW j \in DOMAIN G \ {1} PROVE ~GenerationLess(G[j], G[j-1])
  <2>1. j \in 1..Len(G) /\ j - 1 \in 1..Len(G) /\ ~(j < j - 1)
    BY <1>1
  <2> QED BY <2>1, PlacesCompare
<1> QED BY <1>2, <1>3 DEF DuplicateKeys, OrderBreaches

\* No interval of the list is reported exactly if none of an address is.
LEMMA IntervalsReported ==
  ASSUME NEW table, NEW pre, Chronicled(table, pre), NEW G, ListsAll(G, FactsOf(table, pre))
  PROVE  InvalidIntervals(G) = {} <=>
           \A a \in DOMAIN table : ~Backward(Resolved(table, pre, a).generations)
<1>1. /\ G \in Seq(GenerationFact) /\ DOMAIN G = 1..Len(G)
      /\ \A x \in FactsOf(table, pre) : \E p \in 1..Len(G) : G[p] = x
      /\ \A p \in 1..Len(G) : G[p] \in FactsOf(table, pre)
  BY DEF ListsAll, Elements
<1>2. InvalidIntervals(G) = {} <=>
        \A p \in 1..Len(G) : ~(G[p].end # NoEnd /\ G[p].begin >= G[p].end)
  BY <1>1 DEF InvalidIntervals
<1>3. ASSUME NEW a \in DOMAIN table, Backward(Resolved(table, pre, a).generations)
      PROVE  \E p \in 1..Len(G) : G[p].end # NoEnd /\ G[p].begin >= G[p].end
  <2> DEFINE R == Resolved(table, pre, a).generations
  <2>1. PICK k \in 1..Len(R) : R[k].end # NoEnd /\ R[k].begin >= R[k].end
    BY <1>3 DEF Backward
  <2>2. R[k] \in FactsOf(table, pre)
    BY DEF FactsOf, Made, Elements
  <2>3. PICK p \in 1..Len(G) : G[p] = R[k]
    BY <1>1, <2>2
  <2> HIDE DEF R
  <2> QED BY <2>1, <2>3
<1>4. ASSUME NEW p \in 1..Len(G), G[p].end # NoEnd /\ G[p].begin >= G[p].end
      PROVE  \E a \in DOMAIN table : Backward(Resolved(table, pre, a).generations)
  <2>1. PICK a \in DOMAIN table : G[p] \in Made(table, pre, a)
    BY <1>1 DEF FactsOf
  <2> DEFINE R == Resolved(table, pre, a).generations
  <2>2. PICK k \in 1..Len(R) : G[p] = R[k]
    BY <2>1 DEF Made, Elements
  <2> HIDE DEF R
  <2>3. Backward(R)
    BY <1>4, <2>2 DEF Backward
  <2> QED BY <2>3 DEF R
<1> QED BY <1>2, <1>3, <1>4

LEMMA OverlapsReported ==
  ASSUME NEW table, NEW pre, Chronicled(table, pre), NEW G, ListsAll(G, FactsOf(table, pre))
  PROVE  Overlaps(G) = {} <=>
           \A a \in DOMAIN table : ~Crowded(Resolved(table, pre, a).generations)
<1>1. G \in Seq(GenerationFact) /\ DOMAIN G = 1..Len(G) /\ Len(G) \in Nat
  BY DEF ListsAll
<1> DEFINE Bad(p) == /\ G[p-1].key.address = G[p].key.address
                     /\ G[p-1].end # NoEnd /\ G[p-1].end >= G[p].begin
<1>2. Overlaps(G) = {} <=> \A p \in 1..Len(G) : p > 1 => ~Bad(p)
  <2> DEFINE bad == {j \in DOMAIN G \ {1} : Bad(j)}
             D(i) == Diagnosed("OverlapDetected", G[i].key, G[i].begin)
  <2>1. Overlaps(G) = {D(i) : i \in bad}
    BY DEF Overlaps
  <2>2. bad = {} <=> \A p \in 1..Len(G) : p > 1 => ~Bad(p)
    <3>1. \A p : p \in DOMAIN G \ {1} <=> p \in 1..Len(G) /\ p > 1
      BY <1>1
    <3> HIDE DEF Bad
    <3> QED BY <3>1
  <2> HIDE DEF bad, D
  <2> QED BY <2>1, <2>2
<1>3. ASSUME NEW a \in DOMAIN table, Crowded(Resolved(table, pre, a).generations)
      PROVE  \E p \in 1..Len(G) : p > 1 /\ Bad(p)
  <2> DEFINE R == Resolved(table, pre, a).generations
  <2>0. Generated(R, a)
    BY ResolvedFacts
  <2>a. R = Resolved(table, pre, a).generations
    OBVIOUS
  <2> HIDE DEF R
  <2>1. PICK k \in 1..Len(R) : k > 1 /\ R[k-1].end # NoEnd /\ R[k-1].end >= R[k].begin
    BY <1>3 DEF Crowded, R
  <2>2. PICK p \in 1..Len(G) : p > 1 /\ G[p] = R[k] /\ G[p-1] = R[k-1]
    BY <2>1, <2>a, NeighboursStay
  <2>3. R[k].key.address = a /\ R[k-1].key.address = a
    <3>1. k - 1 \in 1..Len(R)
      BY <2>0, <2>1 DEF Generated
    <3>2. R[k].key = GenerationKey(a, k - 1) /\ R[k-1].key = GenerationKey(a, (k - 1) - 1)
      BY <2>0, <3>1 DEF Generated
    <3> QED BY <3>2 DEF GenerationKey
  <2> QED BY <2>1, <2>2, <2>3
<1>4. ASSUME NEW p \in 1..Len(G), p > 1, Bad(p)
      PROVE  \E a \in DOMAIN table : Crowded(Resolved(table, pre, a).generations)
  <2>1. PICK a \in DOMAIN table :
          LET R == Resolved(table, pre, a).generations
          IN  \E k \in 1..Len(R) : k > 1 /\ G[p] = R[k] /\ G[p-1] = R[k-1]
    BY <1>4, NeighboursWere
  <2> DEFINE R == Resolved(table, pre, a).generations
  <2>2. PICK k \in 1..Len(R) : k > 1 /\ G[p] = R[k] /\ G[p-1] = R[k-1]
    BY <2>1
  <2> HIDE DEF R
  <2>3. Crowded(R)
    BY <1>4, <2>2 DEF Crowded
  <2> QED BY <2>3 DEF R
<1> HIDE DEF Bad
<1> QED BY <1>2, <1>3, <1>4

LEMMA BalancesReported ==
  ASSUME NEW G
  PROVE  IntegrityBreaches(G, Dedup(StableSort(<< >>, KeyLess))) = {}
<1> DEFINE c == Dedup(StableSort(<< >>, KeyLess))
<1>1. << >> \in Seq({})
  OBVIOUS
<1>2. c \in Seq({})
  BY <1>1, KeysKept
<1> HIDE DEF c
<1>3. DOMAIN c = {}
  <2>1. \A i \in 1..Len(c) : c[i] \in {}
    BY <1>2
  <2> QED BY <1>2, <2>1
<1>4. IntegrityBreaches(G, c) = {}
  BY <1>3 DEF IntegrityBreaches
<1> QED BY <1>4 DEF c

LEMMA PassIsValid ==
  ASSUME NEW table, NEW pre, Chronicled(table, pre)
  PROVE  is_valid(LifecyclePass(table, pre)) <=>
           \A a \in DOMAIN table :
             /\ ~Backward(Resolved(table, pre, a).generations)
             /\ ~Crowded(Resolved(table, pre, a).generations)
             /\ Resolved(table, pre, a).diagnostics = {}
<1> DEFINE r == resolve(table, pre)
           G == r.generations
           P == [i \in DOMAIN r.pre_states |->
                   [key |-> GenerationKey(r.pre_states[i].address, 0),
                    existed_before_tx |-> r.pre_states[i].existed_before_tx]]
           c == canonicalize(P, r.generations, << >>)
           pass == LifecyclePass(table, pre)
           b == Dedup(StableSort(<< >>, KeyLess))
<1>1. pass = [c EXCEPT !.diagnostics = @ \cup r.diagnostics]
  BY DEF LifecyclePass
<1>2. ListsAll(G, FactsOf(table, pre))
  BY PushedInOrder
<1>3. c = FormOf(Dedup(StableSort(P, KeyLess)), G, b)
  <2>1. c = FormOf(Dedup(StableSort(P, KeyLess)), Dedup(StableSort(G, GenerationLess)), b)
    BY FormMade
  <2>2. G \in Seq(GenerationFact) /\ Ascends(G, GenerationOrder) /\ KeysChange(G)
    BY <1>2, ListedOnce
  <2>3. Dedup(StableSort(G, GenerationLess)) = G
    <3> HIDE DEF G
    <3> QED BY <2>2, GenerationsStay
  <2> QED BY <2>1, <2>3
<1>4. r.diagnostics = UNION {Resolved(table, pre, a).diagnostics : a \in DOMAIN table}
  BY DEF resolve
<1> HIDE DEF r, c, pass
<1>5. pass.diagnostics = c.diagnostics \cup r.diagnostics
  <2>1. DOMAIN c = DOMAIN FormOf(<< >>, << >>, << >>)
    BY <1>3 DEF FormOf
  <2>2. "diagnostics" \in DOMAIN c
    BY <1>3 DEF FormOf
  <2> QED BY <1>1, <2>2
<1> DEFINE g == r.generations
<1>6. c.diagnostics = DuplicateKeys(g) \cup InvalidIntervals(g) \cup IntegrityBreaches(g, b)
                        \cup OrderBreaches(g) \cup Overlaps(g)
  BY <1>3 DEF FormOf
<1> HIDE DEF g, b
<1>7. DuplicateKeys(g) = {} /\ OrderBreaches(g) = {}
  BY <1>2, NothingDuplicate DEF g
<1>8. IntegrityBreaches(g, b) = {}
  BY BalancesReported DEF b
<1>9. /\ InvalidIntervals(g) = {} <=>
           \A a \in DOMAIN table : ~Backward(Resolved(table, pre, a).generations)
      /\ Overlaps(g) = {} <=>
           \A a \in DOMAIN table : ~Crowded(Resolved(table, pre, a).generations)
  BY <1>2, IntervalsReported, OverlapsReported DEF g
<1>10. r.diagnostics = {} <=>
         \A a \in DOMAIN table : Resolved(table, pre, a).diagnostics = {}
  BY <1>4
<1>11. is_valid(pass) <=> /\ InvalidIntervals(g) = {} /\ Overlaps(g) = {}
                          /\ r.diagnostics = {}
  BY <1>5, <1>6, <1>7, <1>8 DEF is_valid
<1> QED BY <1>9, <1>10, <1>11 DEF pass

\* What the pass accepts, said of the histories.
LEMMA PassAccepts ==
  ASSUME NEW table, NEW pre, Chronicled(table, pre)
  PROVE  is_valid(LifecyclePass(table, pre)) <=>
           \A a \in DOMAIN table :
             /\ ~Existed(pre, a) /\ table[a][1].payload = "ContractCreated"
             /\ ~DestroyedTwice(table[a])
<1>1. ASSUME NEW a \in DOMAIN table
      PROVE  (/\ ~Backward(Resolved(table, pre, a).generations)
              /\ ~Crowded(Resolved(table, pre, a).generations)
              /\ Resolved(table, pre, a).diagnostics = {})
             <=> /\ ~Existed(pre, a) /\ table[a][1].payload = "ContractCreated"
                 /\ ~DestroyedTwice(table[a])
  <2> DEFINE h == table[a]
             res == Resolved(table, pre, a)
  <2>1. /\ a \in Nat /\ Spans(res.generations, a, h)
        /\ res.diagnostics = {} <=> ~(Existed(pre, a) /\ h[1].payload = "ContractCreated")
    BY ResolvedFacts
  <2>2. History(h) /\ Existed(pre, a) \in BOOLEAN
    BY DEF Chronicled
  <2> HIDE DEF h, res
  <2>3. /\ Backward(res.generations) <=> DestroyedFirst(h)
        /\ Crowded(res.generations) <=> DestroyedTwice(h)
    BY <2>1, <2>2, BackwardIs, CrowdedIs
  <2>4. DestroyedFirst(h) <=> h[1].payload # "ContractCreated"
    <3>1. h[1].payload \in LifecycleType
      <4>1. 1 \in 1..Len(h)
        BY <2>2 DEF History
      <4> QED BY <2>2, <4>1 DEF History
    <3> QED BY <3>1 DEF DestroyedFirst, LifecycleType
  <2>5. (/\ ~Backward(res.generations) /\ ~Crowded(res.generations) /\ res.diagnostics = {})
        <=> /\ ~Existed(pre, a) /\ h[1].payload = "ContractCreated"
            /\ ~DestroyedTwice(h)
    BY <2>1, <2>3, <2>4, Zenon
  <2> QED BY <2>5 DEF h, res
<1> QED BY <1>1, PassIsValid

-----------------------------------------------------------------------------
(***************************************************************************)
(* The lifecycles in a stream.                                             *)
(***************************************************************************)

\* The events are numbered as the bridge numbers them, and the outcome is that of
\* the pass over the table of every transaction.
Numbered(s) == \A j \in 1..Len(s) : s[j].sequence_number = j - 1

LifecycleRight ==
  /\ dense => Numbered(input)
  /\ canonical # << >> =>
       /\ dense /\ builder_result = "Ok"
       /\ pre_states \in [Address -> BOOLEAN]
       /\ canonical = [i \in DOMAIN reduced_ir |->
                         LifecyclePass(reduced_ir[i].lifecycle_table, pre_states)]

LEMMA LifecycleIsRight == Spec => []LifecycleRight
<1>1. Init => LifecycleRight
  BY DEF Init, LifecycleRight, Numbered
<1>2. BuilderRight /\ LifecycleRight /\ [Next]_vars => LifecycleRight'
  <2> SUFFICES ASSUME BuilderRight, LifecycleRight, [Next]_vars PROVE LifecycleRight'
    OBVIOUS
  <2>1. input \in Seq(InputEvent)
    BY DEF BuilderRight
  <2>2. ASSUME NEW payload \in Payloads, Read(payload) PROVE LifecycleRight'
    <3> DEFINE e == EventOf(payload)
    <3>1. /\ input' = Append(input, e) /\ UNCHANGED <<canonical, dense>>
          /\ builder_result = "partition"
      BY <2>2 DEF Read, Partition
    <3>2. canonical' = << >>
      BY <3>1 DEF LifecycleRight
    <3>3. e \in InputEvent /\ (dense => e.sequence_number = Len(input))
      BY EventTyped DEF EventOf
    <3> HIDE DEF e
    <3>4. ASSUME dense PROVE Numbered(Append(input, e))
      <4>1. Numbered(input) /\ e.sequence_number = Len(input)
        BY <3>3, <3>4 DEF LifecycleRight
      <4> QED BY <2>1, <3>3, <4>1, AppendProperties DEF Numbered
    <3> QED BY <3>1, <3>2, <3>4 DEF LifecycleRight
  <2>3. CASE EndOfInput \/ ReduceTimelines
    <3>1. UNCHANGED <<input, canonical, dense>> /\ builder_result # "Ok"
      BY <2>3 DEF EndOfInput, PartitionFinish, ReduceTimelines, Reduce
    <3> QED BY <3>1 DEF LifecycleRight
  <2>4. CASE ResolveLifecycles
    <3>1. /\ UNCHANGED <<input, dense, builder_result, reduced_ir>>
          /\ dense /\ builder_result = "Ok" /\ pre_states' \in [Address -> BOOLEAN]
          /\ canonical' = [i \in DOMAIN reduced_ir |->
                             LifecyclePass(reduced_ir[i].lifecycle_table, pre_states')]
      BY <2>4 DEF ResolveLifecycles, builderVars
    <3>2. DOMAIN reduced_ir' = DOMAIN reduced_ir
      BY <3>1
    <3> QED BY <3>1, <3>2 DEF LifecycleRight
  <2>5. CASE Built \/ UNCHANGED vars
    <3>1. UNCHANGED <<input, dense, builder_result, reduced_ir, canonical, pre_states>>
      BY <2>5 DEF Built, vars, builderVars
    <3> QED BY <3>1 DEF LifecycleRight
  <2> QED BY <2>2, <2>3, <2>4, <2>5 DEF Next
<1> QED BY <1>1, <1>2, BuilderIsRight, PTL DEF Spec

\* The life of an address in a transaction is the history that its table keeps.
LEMMA LifeRecorded ==
  ASSUME NEW q \in Seq(InputEvent), NEW table, Keeps(table, q, LifecycleIn(q, 0, Len(q))),
         NEW a, NEW life, life = Sublist(q, About(q, LifecycleIn(q, 0, Len(q)), a))
  PROVE  /\ a \in DOMAIN table <=> life # << >>
         /\ life \in Seq(InputEvent)
         /\ a \in DOMAIN table =>
              /\ Len(table[a]) = Len(life)
              /\ \A k \in 1..Len(life) : /\ table[a][k].payload = life[k].payload.type
                                         /\ Ordinal(table[a][k]) = life[k].sequence_number
                                         /\ life[k].payload.type \in LifecycleType
<1> DEFINE V == LifecycleIn(q, 0, Len(q))
           W == About(q, V, a)
<1>1. V \in SUBSET (1..Len(q)) /\ \A j \in V : q[j].payload.type \in LifecycleType
  BY DEF LifecycleIn
<1>2. W \in SUBSET (1..Len(q)) /\ \A j \in W : j \in V
  BY <1>1 DEF About
<1>3. a \in DOMAIN table <=> W # {}
  BY DEF Keeps, About
<1>4. a \in DOMAIN table => Records(table[a], q, W)
  BY DEF Keeps
<1> HIDE DEF V, W
<1>5. life \in Seq(InputEvent) /\ (life = << >> <=> W = {})
  <2>1. life = Sublist(q, W)
    BY DEF W, V
  <2> QED BY <1>2, <2>1, SublistAlong
<1>6. ASSUME a \in DOMAIN table
      PROVE  /\ Len(table[a]) = Len(life)
             /\ \A k \in 1..Len(life) : /\ table[a][k] = ObservedLifecycle(life[k])
                                        /\ \E j \in W : life[k] = q[j]
  <2>1. life = Sublist(q, W)
    BY DEF W, V
  <2> QED BY <1>2, <1>4, <1>6, <2>1, RecordsSublist
<1>7. \A e : /\ ObservedLifecycle(e).payload = e.payload.type
             /\ Ordinal(ObservedLifecycle(e)) = e.sequence_number
  BY DEF ObservedLifecycle, trace_provenance_from, Ordinal
<1>8. ASSUME a \in DOMAIN table, NEW k \in 1..Len(life)
      PROVE  /\ table[a][k].payload = life[k].payload.type
             /\ Ordinal(table[a][k]) = life[k].sequence_number
             /\ life[k].payload.type \in LifecycleType
  BY <1>1, <1>2, <1>6, <1>7, <1>8
<1> QED BY <1>3, <1>5, <1>6, <1>8

\* The transaction i and the table that the pass resolved for it.
TransactionPass(i, table) ==
  LET q == Segment(i) IN
  /\ q \in Seq(InputEvent) /\ NumbersGrow(q)
  /\ Keeps(table, q, LifecycleIn(q, 0, Len(q)))
  /\ DOMAIN table \subseteq Address
  /\ pre_states \in [Address -> BOOLEAN]
  /\ Chronicled(table, pre_states)
  /\ canonical[i] = LifecyclePass(table, pre_states)

LEMMA PassOfTransaction ==
  ASSUME BuilderRight, LifecycleRight, NEW i \in DOMAIN canonical
  PROVE  \E table : TransactionPass(i, table)
<1> DEFINE q == Segment(i)
           V == LifecycleIn(q, 0, Len(q))
           table == buckets[i].lifecycle_table
<1>1. input \in Seq(InputEvent)
  BY DEF BuilderRight
<1>2. canonical # << >>
  OBVIOUS
<1>3. /\ dense /\ Numbered(input) /\ builder_result = "Ok"
      /\ pre_states \in [Address -> BOOLEAN]
      /\ canonical = [k \in DOMAIN reduced_ir |->
                        LifecyclePass(reduced_ir[k].lifecycle_table, pre_states)]
  BY <1>2 DEF LifecycleRight
<1>4. /\ reduced_ir = [k \in DOMAIN buckets |-> ReducedBucket(buckets[k])]
      /\ IsSequence(buckets) /\ AllComplete(input, buckets)
  BY <1>3 DEF BuilderRight
<1>5. i \in DOMAIN reduced_ir /\ i \in DOMAIN buckets
  BY <1>3, <1>4
<1>6. Complete(input, buckets[i], i)
  BY <1>4, <1>5, LenProperties DEF AllComplete, IsSequence
<1>7. canonical[i] = LifecyclePass(table, pre_states)
  BY <1>3, <1>4, <1>5 DEF ReducedBucket
<1>8. q \in Seq(InputEvent) /\ Holds(buckets[i], q, 0, Len(q))
  BY <1>1, <1>6, SegmentHeld DEF Segment, SegmentOf
<1>9. Keeps(table, q, V)
  BY <1>8 DEF Holds
<1>10. NumbersGrow(q)
  <2>1. NumbersGrow(input)
    BY <1>1, <1>3 DEF Numbered, NumbersGrow
  <2> QED BY <1>1, <1>6, <2>1, SegmentNumbered DEF Segment
<1> HIDE DEF table, q
<1>11. ASSUME NEW j \in V
       PROVE  /\ q[j].payload.type \in LifecycleType /\ q[j].payload.address \in Address
              /\ q[j].sequence_number \in Nat
  <2>1. q[j] \in InputEvent /\ q[j].payload.type \in LifecycleType
    BY <1>8, <1>11 DEF LifecycleIn
  <2>2. q[j].payload \in Payloads /\ q[j].sequence_number \in Nat
    BY <2>1 DEF InputEvent
  <2> QED BY <2>1, <2>2, CseInputAssumption DEF LifecycleType
<1>12. V \in SUBSET (1..Len(q)) /\ Len(q) \in Nat
  BY <1>8 DEF LifecycleIn
<1> HIDE DEF V
<1>13. Dated(q, V)
  <2>1. Address \subseteq Nat
    BY CseInputAssumption
  <2>2. \A j, k \in V : j < k => q[j].sequence_number < q[k].sequence_number
    BY <1>10, <1>12 DEF NumbersGrow
  <2> QED BY <1>11, <2>1, <2>2 DEF Dated
<1>14. DOMAIN table \subseteq Address
  BY <1>9, <1>11 DEF Keeps
<1>15. \A a \in DOMAIN table : Existed(pre_states, a) \in BOOLEAN
  BY <1>3, <1>14 DEF Existed
<1>16. Chronicled(table, pre_states)
  BY <1>9, <1>12, <1>13, <1>15, KeepsChronicled
<1>17. TransactionPass(i, table)
  BY <1>3, <1>7, <1>8, <1>9, <1>10, <1>14, <1>16 DEF TransactionPass, V, q
<1> QED BY <1>17

\* The lives in a transaction are the histories in its table.
LEMMA LivesRecorded ==
  ASSUME NEW i, NEW table, TransactionPass(i, table)
  PROVE  /\ Lived(i) = DOMAIN table
         /\ \A a \in DOMAIN table :
              /\ Existed(pre_states, a) = pre_states[a] /\ pre_states[a] \in BOOLEAN
              /\ Life(i, a) \in Seq(InputEvent) /\ Len(Life(i, a)) = Len(table[a])
              /\ \A k \in 1..Len(table[a]) :
                   /\ table[a][k].payload = Life(i, a)[k].payload.type
                   /\ Ordinal(table[a][k]) = Life(i, a)[k].sequence_number
<1> DEFINE q == Segment(i)
           V == LifecycleIn(q, 0, Len(q))
<1>1. /\ q \in Seq(InputEvent) /\ Keeps(table, q, V) /\ DOMAIN table \subseteq Address
      /\ pre_states \in [Address -> BOOLEAN]
  BY DEF TransactionPass
<1>2. ASSUME NEW a PROVE Life(i, a) = Sublist(q, About(q, V, a))
  <2>1. {j \in DOMAIN q : /\ q[j].payload.type \in {"ContractCreated", "ContractDestroyed"}
                          /\ q[j].payload.address = a}
        = About(q, V, a)
    BY <1>1 DEF About, LifecycleIn, LifecycleType
  <2> QED BY <2>1 DEF Life
<1> HIDE DEF q
<1>3. ASSUME NEW a
      PROVE  /\ a \in DOMAIN table <=> Life(i, a) # << >>
             /\ Life(i, a) \in Seq(InputEvent)
             /\ a \in DOMAIN table =>
                  /\ Len(table[a]) = Len(Life(i, a))
                  /\ \A k \in 1..Len(Life(i, a)) :
                       /\ table[a][k].payload = Life(i, a)[k].payload.type
                       /\ Ordinal(table[a][k]) = Life(i, a)[k].sequence_number
  BY <1>1, <1>2, LifeRecorded
<1>4. Lived(i) = DOMAIN table
  BY <1>1, <1>3 DEF Lived
<1>5. ASSUME NEW a \in DOMAIN table
      PROVE  Existed(pre_states, a) = pre_states[a] /\ pre_states[a] \in BOOLEAN
  <2>1. a \in Address /\ DOMAIN pre_states = Address
    BY <1>1
  <2> QED BY <1>1, <2>1, Zenon DEF Existed
<1> QED BY <1>3, <1>4, <1>5

\* What the pass accepts, whatever the stream (resolve.rs, canonicalize.rs).
THEOREM AcceptanceIsExact == Spec => []AcceptedExactly
<1>1. ASSUME BuilderRight, LifecycleRight PROVE AcceptedExactly
  <2>1. ASSUME NEW i \in DOMAIN canonical
        PROVE  is_valid(canonical[i]) <=>
                 \A a \in Lived(i) :
                   /\ ~pre_states[a]
                   /\ Life(i, a)[1].payload.type = "ContractCreated"
                   /\ \A j \in 2..Len(Life(i, a)) :
                        ~(/\ Life(i, a)[j-1].payload.type = "ContractDestroyed"
                          /\ Life(i, a)[j].payload.type = "ContractDestroyed")
    <3>1. PICK table : TransactionPass(i, table)
      BY <1>1, PassOfTransaction
    <3>2. /\ canonical[i] = LifecyclePass(table, pre_states)
          /\ Chronicled(table, pre_states)
      BY <3>1 DEF TransactionPass
    <3>3. Lived(i) = DOMAIN table
      BY <3>1, LivesRecorded
    <3>4. ASSUME NEW a \in DOMAIN table
          PROVE  (/\ ~Existed(pre_states, a) /\ table[a][1].payload = "ContractCreated"
                  /\ ~DestroyedTwice(table[a]))
                 <=> /\ ~pre_states[a]
                     /\ Life(i, a)[1].payload.type = "ContractCreated"
                     /\ \A j \in 2..Len(Life(i, a)) :
                          ~(/\ Life(i, a)[j-1].payload.type = "ContractDestroyed"
                            /\ Life(i, a)[j].payload.type = "ContractDestroyed")
      <4> DEFINE h == table[a]
                 life == Life(i, a)
      <4>1. /\ Existed(pre_states, a) = pre_states[a]
            /\ Len(life) = Len(h)
            /\ \A k \in 1..Len(h) : h[k].payload = life[k].payload.type
        BY <3>1, LivesRecorded
      <4>2. Len(h) \in Nat /\ 1 \in 1..Len(h)
        BY <3>2 DEF Chronicled, History
      <4> HIDE DEF h, life
      <4>3. DestroyedTwice(h) <=>
              \E j \in 2..Len(life) : /\ life[j-1].payload.type = "ContractDestroyed"
                                      /\ life[j].payload.type = "ContractDestroyed"
        <5>1. \A j : j \in 1..Len(h) /\ j > 1 <=> j \in 2..Len(life)
          BY <4>1, <4>2
        <5>2. \A j \in 2..Len(life) : j \in 1..Len(h) /\ j - 1 \in 1..Len(h)
          BY <4>1, <4>2
        <5>3. ASSUME NEW j \in 2..Len(life)
              PROVE  /\ h[j-1].payload = life[j-1].payload.type
                     /\ h[j].payload = life[j].payload.type
          BY <4>1, <5>2
        <5> QED BY <5>1, <5>3 DEF DestroyedTwice
      <4>4. h[1].payload = life[1].payload.type
        BY <4>1, <4>2
      <4>5. (~Existed(pre_states, a) /\ h[1].payload = "ContractCreated" /\ ~DestroyedTwice(h))
            <=> /\ ~pre_states[a]
                /\ life[1].payload.type = "ContractCreated"
                /\ \A j \in 2..Len(life) : ~(/\ life[j-1].payload.type = "ContractDestroyed"
                                             /\ life[j].payload.type = "ContractDestroyed")
        BY <4>1, <4>3, <4>4, Zenon
      <4> QED BY <4>5 DEF h, life
    <3>5. is_valid(canonical[i]) <=>
            \A a \in DOMAIN table :
              /\ ~Existed(pre_states, a) /\ table[a][1].payload = "ContractCreated"
              /\ ~DestroyedTwice(table[a])
      BY <3>2, PassAccepts
    <3> QED BY <3>3, <3>4, <3>5
  <2> QED BY <2>1 DEF AcceptedExactly
<1> QED BY <1>1, BuilderIsRight, LifecycleIsRight, PTL

\* A transaction whose accounts are absent before it and are created and destroyed
\* in turn is valid, and each creation and the destruction after it make one
\* generation (resolve.rs, canonicalize.rs).
THEOREM AlternationIsResolved == Spec => []AlternationResolved
<1>1. ASSUME BuilderRight, LifecycleRight, AcceptedExactly PROVE AlternationResolved
  <2> SUFFICES ASSUME NEW i \in DOMAIN canonical,
                      \A a \in Lived(i) : Alternates(Life(i, a)) /\ ~pre_states[a]
               PROVE  /\ is_valid(canonical[i])
                      /\ \A a \in Lived(i) :
                           GenerationsOf(i, a) =
                             [g \in 1..(Len(Life(i, a)) + 1) \div 2 |->
                                Generation(a, g - 1, Life(i, a)[2*g - 1].sequence_number,
                                           IF 2*g <= Len(Life(i, a))
                                           THEN Life(i, a)[2*g].sequence_number ELSE NoEnd)]
    BY DEF AlternationResolved
  <2>1. PICK table : TransactionPass(i, table)
    BY <1>1, PassOfTransaction
  <2>2. /\ canonical[i] = LifecyclePass(table, pre_states)
        /\ Chronicled(table, pre_states)
    BY <2>1 DEF TransactionPass
  <2>3. Lived(i) = DOMAIN table
    BY <2>1, LivesRecorded
  <2>4. ASSUME NEW a \in Lived(i), NEW life, life = Life(i, a), NEW h, h = table[a]
        PROVE  /\ History(h) /\ InTurn(h) /\ Alternates(life) /\ a \in Nat
               /\ Len(life) = Len(h) /\ DOMAIN life = 1..Len(h) /\ life \in Seq(InputEvent)
               /\ \A k \in 1..Len(h) : /\ h[k].payload = life[k].payload.type
                                       /\ Ordinal(h[k]) = life[k].sequence_number
    <3>1. /\ Len(life) = Len(h) /\ life \in Seq(InputEvent)
          /\ \A k \in 1..Len(h) : /\ h[k].payload = life[k].payload.type
                                  /\ Ordinal(h[k]) = life[k].sequence_number
      BY <2>1, <2>3, <2>4, LivesRecorded
    <3>2. History(h) /\ a \in Nat
      BY <2>2, <2>3, <2>4 DEF Chronicled
    <3>3. Alternates(life) /\ DOMAIN life = 1..Len(h)
      BY <2>4, <3>1
    <3>4. InTurn(h)
      BY <3>1, <3>3 DEF InTurn, Alternates
    <3> QED BY <3>1, <3>2, <3>3, <3>4
  <2>5. is_valid(canonical[i])
    <3>1. ASSUME NEW a \in Lived(i)
          PROVE  /\ ~pre_states[a]
                 /\ Life(i, a)[1].payload.type = "ContractCreated"
                 /\ \A j \in 2..Len(Life(i, a)) :
                      ~(/\ Life(i, a)[j-1].payload.type = "ContractDestroyed"
                        /\ Life(i, a)[j].payload.type = "ContractDestroyed")
      <4> DEFINE life == Life(i, a)
                 n == Len(life)
      <4>1. Alternates(life) /\ life \in Seq(InputEvent) /\ n \in Nat /\ n > 0
        BY <2>4 DEF History
      <4> HIDE DEF life
      <4>2. \A j \in 1..n : life[j].payload.type =
                              IF j % 2 = 1 THEN "ContractCreated" ELSE "ContractDestroyed"
        BY <4>1 DEF Alternates
      <4>3. life[1].payload.type = "ContractCreated"
        BY <4>1, <4>2
      <4>4. ASSUME NEW j \in 2..n
            PROVE  ~(/\ life[j-1].payload.type = "ContractDestroyed"
                     /\ life[j].payload.type = "ContractDestroyed")
        <5>1. j \in 1..n /\ j - 1 \in 1..n /\ (j % 2 = 1 \/ (j - 1) % 2 = 1)
          BY <4>1
        <5> QED BY <4>2, <5>1
      <4> QED BY <4>3, <4>4 DEF life
    <3> QED BY <1>1, <3>1 DEF AcceptedExactly
  <2>6. ASSUME NEW a \in Lived(i), NEW life, life = Life(i, a)
        PROVE  GenerationsOf(i, a) =
                 [g \in 1..(Len(life) + 1) \div 2 |->
                    Generation(a, g - 1, life[2*g - 1].sequence_number,
                               IF 2*g <= Len(life) THEN life[2*g].sequence_number ELSE NoEnd)]
    <3> DEFINE h == table[a]
               R == Resolved(table, pre_states, a).generations
               N == (Len(h) + 1) \div 2
    <3>1. /\ History(h) /\ InTurn(h) /\ a \in Nat /\ Len(life) = Len(h)
          /\ \A k \in 1..Len(h) : Ordinal(h[k]) = life[k].sequence_number
      BY <2>4, <2>6
    <3>2. GenerationsOf(i, a) = R
      BY <2>2, <2>3, <2>6, OwnGenerations DEF GenerationsOf
    <3>3. Spans(R, a, h)
      BY <2>2, <2>3, <2>6, ResolvedFacts
    <3> HIDE DEF h, R
    <3>4. R = [g \in 1..N |->
                 Generation(a, g - 1, Ordinal(h[2*g - 1]),
                            IF 2*g <= Len(h) THEN Ordinal(h[2*g]) ELSE NoEnd)]
      BY <3>1, <3>3, ResolvedInTurn
    <3>5. ASSUME NEW g \in 1..N
          PROVE  /\ Ordinal(h[2*g - 1]) = life[2*g - 1].sequence_number
                 /\ 2*g <= Len(h) => Ordinal(h[2*g]) = life[2*g].sequence_number
      <4>1. Len(h) \in Nat
        BY <3>1 DEF History
      <4>2. PICK m \in Nat : \/ Len(h) = 2*m /\ N = m
                             \/ Len(h) = 2*m + 1 /\ N = m + 1
        BY <4>1, Halves
      <4>3. 2*g - 1 \in 1..Len(h) /\ (2*g <= Len(h) => 2*g \in 1..Len(h))
        BY <4>1, <4>2
      <4> QED BY <3>1, <4>3
    <3> HIDE DEF N
    <3>6. R = [g \in 1..N |->
                 Generation(a, g - 1, life[2*g - 1].sequence_number,
                            IF 2*g <= Len(h) THEN life[2*g].sequence_number ELSE NoEnd)]
      BY <3>4, <3>5
    <3> QED BY <3>1, <3>2, <3>6 DEF N
  <2> QED BY <2>5, <2>6
<1> QED BY <1>1, AcceptanceIsExact, BuilderIsRight, LifecycleIsRight, PTL

-----------------------------------------------------------------------------
(***************************************************************************)
(* Results, numbers and hexadecimal strings.                               *)
(***************************************************************************)

LEMMA ResultIs ==
  ASSUME NEW v
  PROVE  Ok(v).ok = TRUE /\ Ok(v).value = v /\ Err(v).ok = FALSE
BY DEF Ok, Err

LEMMA DivMod ==
  ASSUME NEW x \in Nat, NEW y \in Nat \ {0}
  PROVE  /\ x \div y \in Nat /\ x % y \in 0..y - 1
         /\ (x \div y) * y + (x % y) = x
OBVIOUS

LEMMA OddEven ==
  ASSUME NEW n \in Nat, NEW i \in 1..n
  PROVE  /\ 2*i - 1 \in 1..2 * n /\ 2*i \in 1..2 * n /\ (2*i - 1) % 2 = 1 /\ (2*i) % 2 # 1
         /\ (2*i - 1 + 1) \div 2 = i /\ (2*i + 1) \div 2 = i
OBVIOUS

-----------------------------------------------------------------------------
(***************************************************************************)
(* Results, numbers and hexadecimal strings.                               *)
(***************************************************************************)

\* The characters that the model writes.
Character == {Lower(d) : d \in Nat} \cup {Upper(d) : d \in Nat} \cup {Plus, Other, <<"x">>}

PlainSign(ch) == IF ch = Plus THEN Lower(0) ELSE ch

LEMMA DigitIs ==
  ASSUME NEW ch \in Character
  PROVE  /\ IsDigit(ch) => ch # Plus
         /\ IsDigit(PlainSign(ch)) <=> ch = Plus \/ IsDigit(ch)
         /\ PlainSign(ch) \in Character /\ PlainSign(ch) # Plus
         /\ IsDigit(ch) => ch[2] \in Nat
         /\ ch # Plus => PlainSign(ch) = ch
<1>1. IsDigit(Lower(0)) /\ ~IsDigit(Plus) /\ Lower(0) \in Character
  BY DEF IsDigit, Lower, Plus, Character
<1>2. IsDigit(ch) => ch[2] \in Nat
  BY DEF IsDigit, Lower, Upper, Plus, Other, Character
<1> QED BY <1>1, <1>2 DEF PlainSign

\* One byte, as either language reads it.
LEMMA PairRead ==
  ASSUME NEW x \in Character, NEW y \in Character
  PROVE  /\ DecodeString(<<x, y>>).ok <=> IsDigit(x) /\ IsDigit(y)
         /\ DecodeString(<<x, y>>).ok =>
              DecodeString(<<x, y>>).value[1] = x[2] * HexBase + y[2]
         /\ from_str_radix(<<x, y>>).ok <=> IsDigit(PlainSign(x)) /\ IsDigit(y)
         /\ from_str_radix(<<x, y>>).ok =>
              from_str_radix(<<x, y>>).value[1] = PlainSign(x)[2] * HexBase + y[2]
<1>1. ASSUME NEW u \in Character
      PROVE  /\ DecodeString(<<u, y>>).ok <=> IsDigit(u) /\ IsDigit(y)
             /\ DecodeString(<<u, y>>).ok =>
                  DecodeString(<<u, y>>).value[1] = u[2] * HexBase + y[2]
  <2> DEFINE s == <<u, y>>
  <2>1. Len(s) = 2 /\ DOMAIN s = 1..2 /\ s[1] = u /\ s[2] = y
    OBVIOUS
  <2>2. Pairs(s) = [i \in 1..1 |-> <<s[2*i - 1], s[2*i]>>]
    BY <2>1 DEF Pairs
  <2>3. DOMAIN Pairs(s) = 1..1 /\ Pairs(s)[1][1] = u /\ Pairs(s)[1][2] = y
    BY <2>1, <2>2
  <2>4. (\E i \in DOMAIN s : ~IsDigit(s[i])) <=> ~(IsDigit(u) /\ IsDigit(y))
    BY <2>1
  <2>5. Len(s) % 2 = 0
    BY <2>1
  <2>6. CASE IsDigit(u) /\ IsDigit(y)
    <3>1. DecodeString(s) =
            Ok([i \in DOMAIN Pairs(s) |-> Pairs(s)[i][1][2] * HexBase + Pairs(s)[i][2][2]])
      BY <2>4, <2>5, <2>6 DEF DecodeString
    <3> QED BY <2>3, <2>6, <3>1 DEF Ok
  <2>7. CASE ~(IsDigit(u) /\ IsDigit(y))
    <3>1. DecodeString(s) = Err("hex")
      BY <2>4, <2>7 DEF DecodeString
    <3> QED BY <2>7, <3>1 DEF Err
  <2> QED BY <2>6, <2>7
<1>2. Lower(0) \in Character
  BY DEF Character
<1>3. from_str_radix(<<x, y>>) = DecodeString(<<PlainSign(x), y>>)
  BY DEF from_str_radix, PlainSign
<1> QED BY <1>1, <1>3, DigitIs

\* What the readers make of a string of pairs.
Numbers(s) == [i \in 1..(Len(s) \div 2) |-> s[2*i - 1][2] * HexBase + s[2*i][2]]

EvenDigits(s) == Len(s) % 2 = 0 /\ \A i \in DOMAIN s : IsDigit(s[i])

LEMMA DecodeStringIs ==
  ASSUME NEW s \in Seq(Character)
  PROVE  /\ DecodeString(s).ok <=> EvenDigits(s)
         /\ EvenDigits(s) => DecodeString(s) = Ok(Numbers(s))
         /\ DecodeString(s).ok \in BOOLEAN
<1> DEFINE n == Len(s) \div 2
<1>1. CASE EvenDigits(s)
  <2>1. DecodeString(s) =
          Ok([i \in DOMAIN Pairs(s) |-> Pairs(s)[i][1][2] * HexBase + Pairs(s)[i][2][2]])
    BY <1>1 DEF DecodeString, EvenDigits
  <2>2. /\ DOMAIN Pairs(s) = 1..n
        /\ \A i \in 1..n : Pairs(s)[i][1] = s[2*i - 1] /\ Pairs(s)[i][2] = s[2*i]
    BY DEF Pairs
  <2>3. [i \in DOMAIN Pairs(s) |-> Pairs(s)[i][1][2] * HexBase + Pairs(s)[i][2][2]] = Numbers(s)
    BY <2>2 DEF Numbers
  <2>4. DecodeString(s) = Ok(Numbers(s))
    BY <2>1, <2>3
  <2>5. DecodeString(s).ok = TRUE
    BY <2>4 DEF Ok
  <2> QED BY <1>1, <2>4, <2>5
<1>2. CASE ~EvenDigits(s)
  <2>1. DecodeString(s) = Err("hex")
    BY <1>2 DEF DecodeString, EvenDigits
  <2>2. DecodeString(s).ok = FALSE
    BY <2>1, ResultIs
  <2> QED BY <1>2, <2>2
<1> QED BY <1>1, <1>2

\* Where a pair begins and ends.
LEMMA PairPlaces ==
  ASSUME NEW s \in Seq(Character), Len(s) % 2 = 0
  PROVE  /\ \A i \in 1..(Len(s) \div 2) :
              /\ 2*i - 1 \in DOMAIN s /\ 2*i \in DOMAIN s
              /\ s[2*i - 1] \in Character /\ s[2*i] \in Character
         /\ \A j \in DOMAIN s : j % 2 = 1 => \E i \in 1..(Len(s) \div 2) : j = 2*i - 1
         /\ \A j \in DOMAIN s : j % 2 = 0 => \E i \in 1..(Len(s) \div 2) : j = 2*i
<1>1. DOMAIN s = 1..Len(s) /\ Len(s) \in Nat /\ \A j \in 1..Len(s) : s[j] \in Character
  OBVIOUS
<1>2. ASSUME NEW i \in 1..(Len(s) \div 2) PROVE 2*i - 1 \in 1..Len(s) /\ 2*i \in 1..Len(s)
  BY <1>1
<1>3. ASSUME NEW j \in 1..Len(s), j % 2 = 1
      PROVE  (j + 1) \div 2 \in 1..(Len(s) \div 2) /\ j = 2 * ((j + 1) \div 2) - 1
  BY <1>1, <1>3
<1>4. ASSUME NEW j \in 1..Len(s), j % 2 = 0
      PROVE  j \div 2 \in 1..(Len(s) \div 2) /\ j = 2 * (j \div 2)
  BY <1>1, <1>4
<1> QED BY <1>1, <1>2, <1>3, <1>4

\* Rust reads a string as Go reads it with zeros for the signs, as long as each
\* sign is the first character of a byte.
LEMMA HexDecodeIs ==
  ASSUME NEW s \in Seq(Character)
  PROVE  /\ hex_decode(s).ok \in BOOLEAN
         /\ hex_decode(s).ok <=> /\ EvenDigits(Plain(s))
                                 /\ \A i \in DOMAIN s : s[i] = Plus => i % 2 = 1
         /\ hex_decode(s).ok => hex_decode(s) = Ok(Numbers(Plain(s)))
<1> DEFINE n == Len(s) \div 2
           byte(i) == from_str_radix(Pairs(s)[i])
           p == Plain(s)
           signed == \A i \in DOMAIN s : s[i] = Plus => i % 2 = 1
<1>1. /\ DOMAIN s = 1..Len(s) /\ Len(s) \in Nat /\ \A j \in DOMAIN s : s[j] \in Character
      /\ n \in Nat
  OBVIOUS
<1>2. DOMAIN p = DOMAIN s /\ \A j \in DOMAIN s : p[j] = PlainSign(s[j])
  BY DEF Plain, PlainSign
<1>3. Len(p) = Len(s) /\ p \in Seq(Character)
  <2>1. p = [j \in 1..Len(s) |-> PlainSign(s[j])]
    BY <1>1 DEF Plain, PlainSign
  <2>2. \A j \in 1..Len(s) : PlainSign(s[j]) \in Character
    BY <1>1, DigitIs
  <2> QED BY <1>1, <2>1, <2>2
<1>4. CASE Len(s) % 2 # 0
  <2>1. hex_decode(s) = Err("odd length")
    BY <1>4 DEF hex_decode
  <2>2. hex_decode(s).ok = FALSE
    BY <2>1, ResultIs
  <2>3. ~EvenDigits(p)
    BY <1>3, <1>4 DEF EvenDigits
  <2> QED BY <2>2, <2>3
<1>5. CASE Len(s) % 2 = 0
  <2>1. /\ DOMAIN Pairs(s) = 1..n
        /\ \A i \in 1..n : Pairs(s)[i] = <<s[2*i - 1], s[2*i]>>
    BY DEF Pairs
  <2>2. ASSUME NEW i \in 1..n
        PROVE  /\ byte(i).ok <=> IsDigit(p[2*i - 1]) /\ IsDigit(s[2*i])
               /\ byte(i).ok => byte(i).value[1] = p[2*i - 1][2] * HexBase + s[2*i][2]
    <3>1. /\ 2*i - 1 \in DOMAIN s /\ 2*i \in DOMAIN s
          /\ s[2*i - 1] \in Character /\ s[2*i] \in Character
      BY <1>5, PairPlaces
    <3>2. Pairs(s)[i] = <<s[2*i - 1], s[2*i]>> /\ p[2*i - 1] = PlainSign(s[2*i - 1])
      BY <1>2, <2>1, <3>1
    <3>3. byte(i) = from_str_radix(<<s[2*i - 1], s[2*i]>>)
      BY <3>2
    <3> QED BY <3>1, <3>2, <3>3, PairRead
  <2>3. (\A i \in 1..n : byte(i).ok) <=> EvenDigits(p) /\ signed
    <3>1. ASSUME \A i \in 1..n : byte(i).ok PROVE EvenDigits(p) /\ signed
      <4>1. ASSUME NEW j \in DOMAIN s PROVE IsDigit(p[j]) /\ (s[j] = Plus => j % 2 = 1)
        <5>1. CASE j % 2 = 1
          <6>1. PICK i \in 1..n : j = 2*i - 1
            BY <1>5, <5>1, PairPlaces
          <6> QED BY <2>2, <3>1, <5>1, <6>1
        <5>2. CASE j % 2 = 0
          <6>1. PICK i \in 1..n : j = 2*i
            BY <1>5, <5>2, PairPlaces
          <6>2. IsDigit(s[j])
            BY <2>2, <3>1, <6>1
          <6> QED BY <1>1, <1>2, <6>2, DigitIs
        <5>3. j \in Nat
          BY <1>1
        <5> QED BY <5>1, <5>2, <5>3
      <4> QED BY <1>2, <1>3, <1>5, <4>1 DEF EvenDigits
    <3>2. ASSUME EvenDigits(p), signed, NEW i \in 1..n PROVE byte(i).ok
      <4>1. /\ 2*i - 1 \in DOMAIN s /\ 2*i \in DOMAIN s /\ s[2*i] \in Character
        BY <1>5, PairPlaces
      <4>2. (2*i) % 2 # 1
        BY <1>1
      <4>3. s[2*i] # Plus
        BY <3>2, <4>1, <4>2
      <4>4. IsDigit(p[2*i - 1]) /\ IsDigit(p[2*i]) /\ p[2*i] = s[2*i]
        BY <1>2, <3>2, <4>1, <4>3 DEF EvenDigits, PlainSign
      <4> QED BY <2>2, <4>4
    <3> QED BY <3>1, <3>2
  <2>4. CASE \A i \in 1..n : byte(i).ok
    <3>1. hex_decode(s) = Ok([i \in 1..n |-> byte(i).value[1]])
      BY <1>5, <2>1, <2>4 DEF hex_decode
    <3>2. ASSUME NEW i \in 1..n
          PROVE  byte(i).value[1] = p[2*i - 1][2] * HexBase + p[2*i][2]
      <4>1. 2*i \in DOMAIN s /\ s[2*i] \in Character
        BY <1>5, PairPlaces
      <4>2. IsDigit(s[2*i])
        BY <2>2, <2>4
      <4>3. p[2*i] = s[2*i]
        BY <1>2, <4>1, <4>2, DigitIs
      <4> QED BY <2>2, <2>4, <4>3
    <3>3. [i \in 1..n |-> byte(i).value[1]] = Numbers(p)
      <4> HIDE DEF byte, p
      <4> QED BY <1>3, <3>2 DEF Numbers
    <3>4. hex_decode(s) = Ok(Numbers(p))
      BY <3>1, <3>3
    <3>5. hex_decode(s).ok = TRUE
      BY <3>4 DEF Ok
    <3> HIDE DEF byte
    <3> QED BY <2>3, <2>4, <3>4, <3>5
  <2>5. CASE ~(\A i \in 1..n : byte(i).ok)
    <3>1. hex_decode(s) = Err("digit")
      BY <1>5, <2>1, <2>5 DEF hex_decode
    <3>2. hex_decode(s).ok = FALSE
      BY <3>1 DEF Err
    <3> HIDE DEF byte
    <3> QED BY <2>3, <2>5, <3>2
  <2> QED BY <2>4, <2>5
<1> QED BY <1>1, <1>4, <1>5

\* What follows the prefix.
Rest(s) == SubSeq(s, 3, Len(s))

LEMMA RestIs ==
  ASSUME NEW s \in Seq(Character)
  PROVE  /\ Rest(s) \in Seq(Character)
         /\ Len(Rest(s)) = IF Len(s) < 2 THEN 0 ELSE Len(s) - 2
         /\ \A i \in 1..Len(Rest(s)) : i + 2 \in 1..Len(s) /\ Rest(s)[i] = s[i + 2]
         /\ \A j \in 1..Len(s) : j > 2 => j - 2 \in 1..Len(Rest(s)) /\ Rest(s)[j - 2] = s[j]
<1>1. Len(s) \in Nat /\ \A i \in 3..Len(s) : s[i] \in Character
  OBVIOUS
<1>2. /\ Rest(s) \in Seq(Character)
      /\ Len(Rest(s)) = IF 3 <= Len(s) THEN Len(s) - 3 + 1 ELSE 0
      /\ \A i \in 1..Len(s) - 3 + 1 : Rest(s)[i] = s[3 + i - 1]
  BY <1>1, SubSeqProperties DEF Rest
<1>3. ASSUME NEW i \in 1..Len(Rest(s)) PROVE i + 2 \in 1..Len(s) /\ Rest(s)[i] = s[i + 2]
  <2>1. i \in 1..Len(s) - 3 + 1 /\ 3 + i - 1 = i + 2 /\ i + 2 \in 1..Len(s)
    BY <1>1, <1>2
  <2> QED BY <1>2, <2>1
<1>4. ASSUME NEW j \in 1..Len(s), j > 2
      PROVE  j - 2 \in 1..Len(Rest(s)) /\ Rest(s)[j - 2] = s[j]
  <2>1. j - 2 \in 1..Len(Rest(s)) /\ (j - 2) + 2 = j
    BY <1>1, <1>2, <1>4
  <2> QED BY <1>3, <2>1
<1> QED BY <1>1, <1>2, <1>3, <1>4

\* There is no sign in the prefix.
Prefixed(s) == Len(s) >= 2 /\ SubSeq(s, 1, 2) = Prefix

LEMMA PrefixedIs ==
  ASSUME NEW s \in Seq(Character)
  PROVE  /\ Prefixed(s) <=> Len(s) >= 2 /\ s[1] = Lower(0) /\ s[2] = <<"x">>
         /\ Prefixed(s) => s[1] # Plus /\ s[2] # Plus
<1>1. Len(s) \in Nat /\ \A i \in 1..Len(s) : s[i] \in Character
  OBVIOUS
<1>2. Lower(0) # Plus /\ <<"x">> # Plus
  BY DEF Lower, Plus
<1>3. Prefix = <<Lower(0), <<"x">>>> /\ Prefix[1] = Lower(0) /\ Prefix[2] = <<"x">>
  BY DEF Prefix
<1>4. CASE Len(s) >= 2
  <2>1. SubSeq(s, 1, 2) = [i \in 1..2 |-> s[i]] /\ Prefix = [i \in 1..2 |-> Prefix[i]]
    BY <1>3
  <2>2. Prefixed(s) => s[1] = Prefix[1] /\ s[2] = Prefix[2]
    BY <2>1 DEF Prefixed
  <2>3. ASSUME s[1] = Prefix[1], s[2] = Prefix[2] PROVE Prefixed(s)
    <3>1. \A i \in 1..2 : s[i] = Prefix[i]
      BY <2>3
    <3> QED BY <1>4, <2>1, <3>1 DEF Prefixed
  <2> QED BY <1>2, <1>3, <1>4, <2>2, <2>3
<1>5. CASE Len(s) < 2
  BY <1>1, <1>5 DEF Prefixed
<1> QED BY <1>1, <1>4, <1>5

LEMMA GoReads ==
  ASSUME NEW s \in Seq(Character), NEW n, NEW r, r = decodeFixedHex(s, n)
  PROVE  /\ r.ok \in BOOLEAN
         /\ r.ok <=> Prefixed(s) /\ EvenDigits(Rest(s)) /\ Len(Numbers(Rest(s))) = n
         /\ r.ok => r = Ok(Numbers(Rest(s)))
<1> DEFINE decoded == DecodeString(Rest(s))
<1>1. /\ decoded.ok <=> EvenDigits(Rest(s))
      /\ EvenDigits(Rest(s)) => decoded = Ok(Numbers(Rest(s)))
  BY RestIs, DecodeStringIs
<1>2. Len(s) \in Nat
  OBVIOUS
<1>3. r = IF Len(s) < 2 \/ SubSeq(s, 1, 2) # Prefix THEN Err("0x")
          ELSE IF decoded.ok /\ Len(decoded.value) # n THEN Err("length") ELSE decoded
  BY DEF decodeFixedHex, Rest
<1> HIDE DEF decoded
<1>4. CASE ~Prefixed(s)
  <2>1. r = Err("0x")
    BY <1>2, <1>3, <1>4 DEF Prefixed
  <2>2. r.ok = FALSE
    BY <2>1, ResultIs
  <2> QED BY <1>4, <2>2
<1>5. CASE Prefixed(s) /\ ~EvenDigits(Rest(s))
  <2>1. r = decoded /\ decoded.ok = FALSE
    <3>1. decoded = Err("hex")
      BY <1>5 DEF decoded, DecodeString, EvenDigits
    <3>2. decoded.ok = FALSE
      BY <3>1, ResultIs
    <3> QED BY <1>2, <1>3, <1>5, <3>2 DEF Prefixed
  <2> QED BY <1>5, <2>1
<1>6. CASE Prefixed(s) /\ EvenDigits(Rest(s)) /\ Len(Numbers(Rest(s))) # n
  <2>1. decoded.ok = TRUE /\ decoded.value = Numbers(Rest(s))
    BY <1>1, <1>6, ResultIs
  <2>2. r = Err("length")
    BY <1>2, <1>3, <1>6, <2>1 DEF Prefixed
  <2> QED BY <1>6, <2>2, ResultIs
<1>7. CASE Prefixed(s) /\ EvenDigits(Rest(s)) /\ Len(Numbers(Rest(s))) = n
  <2>1. decoded.ok = TRUE /\ decoded.value = Numbers(Rest(s)) /\ decoded = Ok(Numbers(Rest(s)))
    BY <1>1, <1>7, ResultIs
  <2>2. r = Ok(Numbers(Rest(s)))
    BY <1>2, <1>3, <1>7, <2>1 DEF Prefixed
  <2> QED BY <1>7, <2>2, ResultIs
<1> QED BY <1>4, <1>5, <1>6, <1>7

LEMMA RustReads ==
  ASSUME NEW s \in Seq(Character), NEW n, NEW r, r = decode_fixed_hex(s, n)
  PROVE  /\ r.ok \in BOOLEAN
         /\ r.ok <=> /\ Prefixed(s) /\ EvenDigits(Plain(Rest(s)))
                     /\ \A i \in DOMAIN Rest(s) : Rest(s)[i] = Plus => i % 2 = 1
                     /\ Len(Numbers(Plain(Rest(s)))) = n
         /\ r.ok => r = Ok(Numbers(Plain(Rest(s))))
<1> DEFINE decoded == hex_decode(Rest(s))
           readable == /\ EvenDigits(Plain(Rest(s)))
                       /\ \A i \in DOMAIN Rest(s) : Rest(s)[i] = Plus => i % 2 = 1
           value == Numbers(Plain(Rest(s)))
<1>1. /\ decoded.ok \in BOOLEAN
      /\ decoded.ok <=> readable
      /\ decoded.ok => decoded = Ok(value)
  BY RestIs, HexDecodeIs
<1>2. Len(s) \in Nat
  OBVIOUS
<1>3. r = IF Len(s) < 2 \/ SubSeq(s, 1, 2) # Prefix THEN Err("0x")
          ELSE IF decoded.ok /\ Len(decoded.value) # n THEN Err("length") ELSE decoded
  BY DEF decode_fixed_hex, Rest
<1> HIDE DEF decoded, readable, value
<1>4. CASE ~Prefixed(s)
  <2>1. r = Err("0x")
    BY <1>2, <1>3, <1>4 DEF Prefixed
  <2>2. r.ok = FALSE
    BY <2>1, ResultIs
  <2> QED BY <1>4, <2>2
<1>5. CASE Prefixed(s) /\ ~readable
  <2>1. decoded.ok = FALSE
    BY <1>1, <1>5
  <2>2. r = decoded
    BY <1>2, <1>3, <1>5, <2>1 DEF Prefixed
  <2> QED BY <1>5, <2>1, <2>2 DEF readable
<1>6. CASE Prefixed(s) /\ readable /\ Len(value) # n
  <2>1. decoded.ok = TRUE /\ decoded.value = value
    BY <1>1, <1>6, ResultIs
  <2>2. r = Err("length")
    BY <1>2, <1>3, <1>6, <2>1 DEF Prefixed
  <2>3. r.ok = FALSE
    BY <2>2, ResultIs
  <2> QED BY <1>6, <2>3 DEF value
<1>7. CASE Prefixed(s) /\ readable /\ Len(value) = n
  <2>1. decoded.ok = TRUE /\ decoded.value = value /\ decoded = Ok(value)
    BY <1>1, <1>7, ResultIs
  <2>2. r = Ok(value)
    BY <1>2, <1>3, <1>7, <2>1 DEF Prefixed
  <2>3. r.ok = TRUE
    BY <2>2, ResultIs
  <2> QED BY <1>7, <2>2, <2>3 DEF readable, value
<1> QED BY <1>4, <1>5, <1>6, <1>7

LEMMA PlainIs ==
  ASSUME NEW s \in Seq(Character)
  PROVE  /\ Plain(s) \in Seq(Character) /\ Len(Plain(s)) = Len(s)
         /\ \A j \in 1..Len(s) : Plain(s)[j] = PlainSign(s[j])
         /\ Rest(Plain(s)) = Plain(Rest(s))
         /\ Prefixed(s) => Prefixed(Plain(s))
<1>1. Len(s) \in Nat /\ DOMAIN s = 1..Len(s) /\ \A j \in 1..Len(s) : s[j] \in Character
  OBVIOUS
<1>2. ASSUME NEW q \in Seq(Character)
      PROVE  /\ Plain(q) \in Seq(Character) /\ Len(Plain(q)) = Len(q)
             /\ \A j \in 1..Len(q) : Plain(q)[j] = PlainSign(q[j])
  <2>1. Plain(q) = [j \in 1..Len(q) |-> PlainSign(q[j])]
    BY DEF Plain, PlainSign
  <2>2. \A j \in 1..Len(q) : q[j] \in Character
    OBVIOUS
  <2>3. \A j \in 1..Len(q) : PlainSign(q[j]) \in Character
    BY <2>2, DigitIs
  <2> QED BY <2>1, <2>3
<1>3. Rest(Plain(s)) = Plain(Rest(s))
  <2> DEFINE p == Rest(Plain(s))
             q == Plain(Rest(s))
  <2>1. /\ p \in Seq(Character) /\ Len(p) = IF Len(s) < 2 THEN 0 ELSE Len(s) - 2
        /\ \A i \in 1..Len(p) : i + 2 \in 1..Len(s) /\ p[i] = Plain(s)[i + 2]
    BY <1>2, RestIs
  <2>2. /\ q \in Seq(Character) /\ Len(q) = IF Len(s) < 2 THEN 0 ELSE Len(s) - 2
        /\ \A i \in 1..Len(q) : q[i] = PlainSign(s[i + 2])
    <3>1. /\ Rest(s) \in Seq(Character) /\ Len(Rest(s)) = IF Len(s) < 2 THEN 0 ELSE Len(s) - 2
          /\ \A i \in 1..Len(Rest(s)) : Rest(s)[i] = s[i + 2]
      BY RestIs
    <3>2. /\ q \in Seq(Character) /\ Len(q) = Len(Rest(s))
          /\ \A i \in 1..Len(Rest(s)) : q[i] = PlainSign(Rest(s)[i])
      BY <1>2, <3>1
    <3> HIDE DEF q
    <3> QED BY <3>1, <3>2
  <2> HIDE DEF p, q
  <2>3. \A i \in 1..Len(p) : p[i] = q[i]
    BY <1>2, <2>1, <2>2
  <2> QED BY <2>1, <2>2, <2>3, SeqEqual DEF p, q
<1>4. Prefixed(s) => Prefixed(Plain(s))
  <2>1. Prefixed(s) => s[1] # Plus /\ s[2] # Plus /\ Len(s) >= 2
    BY PrefixedIs
  <2>2. Prefixed(s) => Plain(s)[1] = s[1] /\ Plain(s)[2] = s[2]
    BY <1>1, <1>2, <2>1 DEF PlainSign
  <2> QED BY <1>2, <2>1, <2>2, PrefixedIs
<1> QED BY <1>2, <1>3, <1>4

\* HexReadersAgree, of any string.
LEMMA ReadersAgree ==
  ASSUME NEW s \in Seq(Character), NEW n,
         NEW go, go = decodeFixedHex(s, n), NEW rust, rust = decode_fixed_hex(s, n)
  PROVE  /\ go.ok => rust = go
         /\ rust.ok /\ ~go.ok =>
              LET signs == {i \in DOMAIN s : s[i] = Plus}
              IN  signs # {} /\ (\A i \in signs : i % 2 = 1)
                  /\ rust = decodeFixedHex(Plain(s), n)
<1> DEFINE q == Rest(s)
           p == Plain(q)
<1>1. /\ Len(s) \in Nat /\ DOMAIN s = 1..Len(s)
      /\ q \in Seq(Character) /\ DOMAIN q = 1..Len(q)
      /\ \A i \in 1..Len(q) : i + 2 \in 1..Len(s) /\ q[i] = s[i + 2]
      /\ \A j \in 1..Len(s) : j > 2 => j - 2 \in 1..Len(q) /\ q[j - 2] = s[j]
  BY RestIs
<1>2. /\ p \in Seq(Character) /\ Len(p) = Len(q)
      /\ \A j \in 1..Len(q) : p[j] = PlainSign(q[j])
  BY <1>1, PlainIs
<1>3. ASSUME \A i \in 1..Len(q) : q[i] # Plus PROVE p = q
  <2>1. \A j \in 1..Len(q) : q[j] = p[j]
    BY <1>2, <1>3 DEF PlainSign
  <2> QED BY <1>1, <1>2, <2>1, SeqEqual
<1>4. /\ go.ok \in BOOLEAN
      /\ go.ok <=> Prefixed(s) /\ EvenDigits(q) /\ Len(Numbers(q)) = n
      /\ go.ok => go = Ok(Numbers(q))
  BY GoReads
<1>5. /\ rust.ok \in BOOLEAN
      /\ rust.ok <=> /\ Prefixed(s) /\ EvenDigits(p)
                     /\ \A i \in DOMAIN q : q[i] = Plus => i % 2 = 1
                     /\ Len(Numbers(p)) = n
      /\ rust.ok => rust = Ok(Numbers(p))
  BY RustReads
<1> HIDE DEF p, q
<1>6. ASSUME go.ok PROVE rust = go
  <2>1. \A i \in 1..Len(q) : q[i] # Plus
    <3> TAKE i \in 1..Len(q)
    <3>1. q[i] \in Character /\ IsDigit(q[i])
      BY <1>1, <1>4, <1>6 DEF EvenDigits
    <3> QED BY <3>1, DigitIs
  <2>2. p = q
    BY <1>3, <2>1
  <2>3. rust.ok
    BY <1>1, <1>4, <1>5, <1>6, <2>1, <2>2
  <2> QED BY <1>4, <1>5, <1>6, <2>2, <2>3
<1>7. ASSUME rust.ok, ~go.ok
      PROVE  LET signs == {i \in DOMAIN s : s[i] = Plus}
             IN  signs # {} /\ (\A i \in signs : i % 2 = 1)
                 /\ rust = decodeFixedHex(Plain(s), n)
  <2> DEFINE signs == {i \in DOMAIN s : s[i] = Plus}
  <2>1. PICK i \in 1..Len(q) : q[i] = Plus
    <3>1. p # q
      BY <1>4, <1>5, <1>7
    <3> QED BY <1>3, <3>1
  <2>2. signs # {}
    BY <1>1, <2>1
  <2>3. ASSUME NEW j \in signs PROVE j % 2 = 1
    <3>1. s[1] # Plus /\ s[2] # Plus
      BY <1>5, <1>7, PrefixedIs
    <3>2. j \in 1..Len(s) /\ j > 2 /\ s[j] = Plus
      BY <1>1, <2>3, <3>1
    <3>3. (j - 2) % 2 = 1
      BY <1>1, <1>5, <1>7, <3>2
    <3> QED BY <3>2, <3>3
  <2>4. rust = decodeFixedHex(Plain(s), n)
    <3>1. Plain(s) \in Seq(Character) /\ Rest(Plain(s)) = p /\ Prefixed(Plain(s))
      BY <1>5, <1>7, PlainIs DEF p, q
    <3>2. decodeFixedHex(Plain(s), n).ok
      BY <1>5, <1>7, <3>1, GoReads
    <3>3. decodeFixedHex(Plain(s), n) = Ok(Numbers(p))
      BY <3>1, <3>2, GoReads
    <3> QED BY <1>5, <1>7, <3>3
  <2> QED BY <2>2, <2>3, <2>4
<1> QED BY <1>6, <1>7

\* What is written is read.
LEMMA WrittenIsRead ==
  ASSUME NEW v, NEW n \in Nat, DOMAIN v = 1..n, \A i \in 1..n : v[i] \in Nat,
         v = [i \in 1..n |-> v[i]], HexBase \in Nat \ {0}
  PROVE  MarshalHex(v) \in Seq(Character) /\ decodeFixedHex(MarshalHex(v), n) = Ok(v)
<1> DEFINE digit == [i \in 1..2 * n |->
                       IF i % 2 = 1 THEN v[(i + 1) \div 2] \div HexBase
                       ELSE v[(i + 1) \div 2] % HexBase]
           body == [i \in 1..2 * n |-> Lower(digit[i])]
           s == MarshalHex(v)
<1>1. Len(v) = n
  OBVIOUS
<1>2. s = Prefix \o body
  BY <1>1 DEF MarshalHex
<1>3. ASSUME NEW i \in 1..2 * n
      PROVE  (i + 1) \div 2 \in 1..n /\ digit[i] \in Nat /\ Lower(digit[i]) \in Character
             /\ IsDigit(Lower(digit[i])) /\ Lower(digit[i])[2] = digit[i]
  <2>1. (i + 1) \div 2 \in 1..n
    BY <1>3
  <2>2. v[(i + 1) \div 2] \in Nat
    BY <2>1
  <2>3. digit[i] \in Nat
    <3>1. v[(i + 1) \div 2] \div HexBase \in Nat /\ v[(i + 1) \div 2] % HexBase \in Nat
      BY <2>2, DivMod
    <3>2. digit[i] \in {v[(i + 1) \div 2] \div HexBase, v[(i + 1) \div 2] % HexBase}
      OBVIOUS
    <3> QED BY <3>1, <3>2
  <2> HIDE DEF digit
  <2> QED BY <2>1, <2>3 DEF Lower, Character, IsDigit
<1> HIDE DEF digit
<1>4. body \in Seq(Character) /\ Len(body) = 2 * n /\ \A i \in 1..2 * n : body[i] = Lower(digit[i])
  BY <1>3
<1>5. Prefix \in Seq(Character) /\ Len(Prefix) = 2 /\ Prefix[1] = Lower(0) /\ Prefix[2] = <<"x">>
  BY DEF Prefix, Character
<1> HIDE DEF body, s
<1>6. /\ s \in Seq(Character) /\ Len(s) = 2 + 2 * n
      /\ s[1] = Lower(0) /\ s[2] = <<"x">>
      /\ \A i \in 1..2 * n : s[i + 2] = body[i]
  <2>1. /\ s \in Seq(Character) /\ Len(s) = Len(Prefix) + Len(body)
        /\ \A i \in 1..Len(Prefix) + Len(body) :
             s[i] = IF i <= Len(Prefix) THEN Prefix[i] ELSE body[i - Len(Prefix)]
    BY <1>2, <1>4, <1>5, ConcatProperties
  <2>2. Len(s) = 2 + 2 * n
    BY <1>4, <1>5, <2>1
  <2>3. 2 * n \in Nat /\ \A i \in 1..2 + 2 * n : s[i] = IF i <= 2 THEN Prefix[i] ELSE body[i - 2]
    BY <1>4, <1>5, <2>1
  <2>4. s[1] = Lower(0) /\ s[2] = <<"x">>
    BY <1>5, <2>3
  <2>5. ASSUME NEW i \in 1..2 * n PROVE s[i + 2] = body[i]
    <3>1. i + 2 \in 1..2 + 2 * n /\ ~(i + 2 <= 2) /\ (i + 2) - 2 = i
      OBVIOUS
    <3> QED BY <2>3, <3>1
  <2> QED BY <2>1, <2>2, <2>4, <2>5
<1>7. Prefixed(s)
  <2>1. Len(s) >= 2
    BY <1>6
  <2> QED BY <1>6, <2>1, PrefixedIs
<1>8. /\ Rest(s) \in Seq(Character) /\ Len(Rest(s)) = 2 * n
      /\ \A i \in 1..2 * n : Rest(s)[i] = Lower(digit[i])
  <2>1. Rest(s) \in Seq(Character) /\ Len(Rest(s)) = 2 * n
    BY <1>6, RestIs
  <2>2. \A i \in 1..2 * n : Rest(s)[i] = s[i + 2]
    BY <1>6, <2>1, RestIs
  <2> QED BY <1>4, <1>6, <2>1, <2>2
<1>9. EvenDigits(Rest(s))
  <2>1. (2 * n) % 2 = 0
    OBVIOUS
  <2>2. DOMAIN Rest(s) = 1..2 * n
    BY <1>8
  <2> QED BY <1>3, <1>8, <2>1, <2>2 DEF EvenDigits
<1>10. Numbers(Rest(s)) = v
  <2>1. Len(Rest(s)) \div 2 = n
    BY <1>8
  <2>2. ASSUME NEW i \in 1..n
        PROVE  Rest(s)[2*i - 1][2] * HexBase + Rest(s)[2*i][2] = v[i]
    <3>1. /\ 2*i - 1 \in 1..2 * n /\ 2*i \in 1..2 * n /\ (2*i - 1) % 2 = 1 /\ (2*i) % 2 # 1
          /\ (2*i - 1 + 1) \div 2 = i /\ (2*i + 1) \div 2 = i
      BY OddEven
    <3>2. digit[2*i - 1] = v[i] \div HexBase /\ digit[2*i] = v[i] % HexBase
      BY <3>1 DEF digit
    <3>3. Rest(s)[2*i - 1][2] = v[i] \div HexBase /\ Rest(s)[2*i][2] = v[i] % HexBase
      BY <1>3, <1>8, <3>1, <3>2
    <3>4. v[i] \in Nat
      OBVIOUS
    <3>5. (v[i] \div HexBase) * HexBase + (v[i] % HexBase) = v[i]
      BY <3>4, DivMod
    <3> QED BY <3>3, <3>5
  <2>3. Numbers(Rest(s)) = [i \in 1..n |-> v[i]]
    BY <2>1, <2>2 DEF Numbers
  <2> QED BY <2>3
<1>11. decodeFixedHex(s, n).ok
  BY <1>1, <1>6, <1>7, <1>9, <1>10, GoReads
<1>12. decodeFixedHex(s, n) = Ok(v)
  BY <1>6, <1>10, <1>11, GoReads
<1> QED BY <1>6, <1>12 DEF s

-----------------------------------------------------------------------------
(***************************************************************************)
(* Integers in digits.                                                     *)
(***************************************************************************)

\* f has the first m powers of the base.
IsPowers(f, b, m) == \A i \in 0..m : f[i] = IF i = 0 THEN 1 ELSE b * f[i - 1]

LEMMA PowersOnce ==
  ASSUME NEW b, NEW m \in Nat, NEW f, NEW g, IsPowers(f, b, m), IsPowers(g, b, m)
  PROVE  f[m] = g[m]
<1> DEFINE same == {i \in Nat : i <= m => f[i] = g[i]}
<1>1. 0 \in same
  BY DEF IsPowers
<1>2. ASSUME NEW i \in Nat, i \in same PROVE i + 1 \in same
  <2>1. ASSUME i + 1 <= m PROVE f[i + 1] = g[i + 1]
    <3>1. i + 1 \in 0..m /\ i + 1 # 0 /\ (i + 1) - 1 = i /\ i <= m
      BY <2>1
    <3>2. f[i] = g[i]
      BY <1>2, <3>1
    <3>3. f[i + 1] = b * f[(i + 1) - 1] /\ g[i + 1] = b * g[(i + 1) - 1]
      BY <3>1 DEF IsPowers
    <3> QED BY <3>1, <3>2, <3>3
  <2> QED BY <2>1
<1> HIDE DEF same
<1>3. m \in same
  BY <1>1, <1>2, AllNaturals
<1> QED BY <1>3 DEF same

LEMMA PowersSome ==
  ASSUME NEW b, NEW m \in Nat
  PROVE  \E f : IsPowers(f, b, m)
<1> DEFINE weighed == {n \in Nat : \E f : IsPowers(f, b, n)}
<1>1. 0 \in weighed
  <2>1. IsPowers([i \in 0..0 |-> 1], b, 0)
    BY DEF IsPowers
  <2> QED BY <2>1
<1>2. ASSUME NEW n \in Nat, n \in weighed PROVE n + 1 \in weighed
  <2>1. PICK f : IsPowers(f, b, n)
    BY <1>2
  <2> DEFINE g == [i \in 0..n + 1 |-> IF i = n + 1 THEN b * f[n] ELSE f[i]]
  <2>2. ASSUME NEW i \in 0..n + 1 PROVE g[i] = IF i = 0 THEN 1 ELSE b * g[i - 1]
    <3>1. CASE i = n + 1
      <4>1. i # 0 /\ i - 1 = n /\ n \in 0..n + 1 /\ n # n + 1
        BY <3>1
      <4>2. g[n] = f[n]
        BY <4>1
      <4>3. g[i] = b * f[n]
        BY <3>1
      <4> QED BY <4>1, <4>2, <4>3
    <3>2. CASE i # n + 1
      <4>1. i \in 0..n /\ g[i] = f[i]
        BY <3>2
      <4>2. i # 0 => i - 1 \in 0..n + 1 /\ i - 1 # n + 1
        BY <4>1
      <4>3. i # 0 => g[i - 1] = f[i - 1]
        BY <4>2
      <4> HIDE DEF g
      <4> QED BY <2>1, <4>1, <4>3 DEF IsPowers
    <3> QED BY <3>1, <3>2
  <2> HIDE DEF g
  <2>3. IsPowers(g, b, n + 1)
    BY <2>2 DEF IsPowers
  <2> QED BY <2>3
<1> HIDE DEF weighed
<1>3. m \in weighed
  BY <1>1, <1>2, AllNaturals
<1> QED BY <1>3 DEF weighed

LEMMA PowersAre ==
  ASSUME NEW b \in Nat \ {0}, NEW p, p = Powers(b)
  PROVE  /\ p[0] = 1
         /\ \A i \in Nat : p[i + 1] = b * p[i]
         /\ \A i \in Nat : p[i] \in Nat \ {0}
<1> DEFINE Recursive(w) == w = [i \in Nat |-> IF i = 0 THEN 1 ELSE b * w[i - 1]]
           first(m) == CHOOSE f : IsPowers(f, b, m)
           g == [i \in Nat |-> first(i)[i]]
<1>1. \A m \in Nat : IsPowers(first(m), b, m)
  BY PowersSome
<1>2. ASSUME NEW i \in Nat PROVE g[i] = IF i = 0 THEN 1 ELSE b * g[i - 1]
  <2>1. IsPowers(first(i), b, i) /\ g[i] = first(i)[i]
    BY <1>1
  <2>2. CASE i = 0
    BY <2>1, <2>2 DEF IsPowers
  <2>3. CASE i # 0
    <3>1. i - 1 \in Nat /\ i \in 0..i /\ \A k \in 0..i - 1 : k \in 0..i
      BY <2>3
    <3>2. IsPowers(first(i - 1), b, i - 1) /\ g[i - 1] = first(i - 1)[i - 1]
      BY <1>1, <3>1
    <3> HIDE DEF first, g
    <3>3. IsPowers(first(i), b, i - 1)
      BY <2>1, <3>1 DEF IsPowers
    <3>4. first(i)[i - 1] = first(i - 1)[i - 1]
      BY <3>1, <3>2, <3>3, PowersOnce
    <3>5. first(i)[i] = b * first(i)[i - 1]
      BY <2>1, <2>3, <3>1 DEF IsPowers
    <3> QED BY <2>1, <2>3, <3>2, <3>4, <3>5
  <2> QED BY <2>2, <2>3
<1>3. \E w : Recursive(w)
  <2>1. g = [i \in Nat |-> g[i]]
    OBVIOUS
  <2> HIDE DEF g
  <2>2. Recursive(g)
    BY <1>2, <2>1
  <2> QED BY <2>2
<1>4. p = CHOOSE w : Recursive(w)
  BY DEF Powers
<1>5. Recursive(p)
  <2> HIDE DEF Recursive
  <2> QED BY <1>3, <1>4
<1>6. p[0] = 1
  BY <1>5
<1>7. ASSUME NEW i \in Nat PROVE p[i + 1] = b * p[i]
  <2>1. i + 1 \in Nat /\ i + 1 # 0 /\ (i + 1) - 1 = i
    OBVIOUS
  <2>2. p[i + 1] = b * p[(i + 1) - 1]
    BY <1>5, <2>1
  <2> QED BY <2>1, <2>2
<1>8. ASSUME NEW i \in Nat PROVE p[i] \in Nat \ {0}
  <2> DEFINE positive == {k \in Nat : p[k] \in Nat \ {0}}
  <2>1. 0 \in positive
    BY <1>6
  <2>2. ASSUME NEW k \in Nat, k \in positive PROVE k + 1 \in positive
    <3>1. b \in Nat \ {0} /\ p[k] \in Nat \ {0} /\ p[k + 1] = b * p[k]
      BY <1>7, <2>2
    <3>2. b * p[k] \in Nat \ {0}
      BY <3>1
    <3> QED BY <3>1, <3>2
  <2> HIDE DEF positive
  <2>3. i \in positive
    BY <2>1, <2>2, AllNaturals
  <2> QED BY <2>3 DEF positive
<1> QED BY <1>6, <1>7, <1>8

LEMMA WeightIs ==
  /\ Weight[0] = 1
  /\ \A i \in Nat : Weight[i + 1] = Radix * Weight[i]
  /\ \A i \in Nat : Weight[i] \in Nat \ {0}
BY SszAssumption, PowersAre DEF Weight

LEMMA WidthIs ==
  /\ Width[0] = 1
  /\ \A i \in Nat : Width[i + 1] = 2 * Width[i]
  /\ \A i \in Nat : Width[i] \in Nat \ {0}
BY PowersAre DEF Width

LEMMA ValuesIs ==
  ASSUME NEW b, Len(b) \in Nat
  PROVE  /\ Values(b)[0] = 0
         /\ \A i \in Nat : i < Len(b) =>
              Values(b)[i + 1] = Values(b)[i] + b[i + 1] * Weight[i]
<1> DEFINE L == Len(b)
           Summed(f, m) ==
             f = [i \in 0..m |-> IF i = 0 THEN 0 ELSE f[i - 1] + b[i] * Weight[i - 1]]
           reached == {m \in Nat : \E f : Summed(f, m)}
<1>1. 0 \in reached
  <2>1. Summed([i \in 0..0 |-> 0], 0)
    OBVIOUS
  <2> QED BY <2>1
<1>2. ASSUME NEW m \in Nat, m \in reached PROVE m + 1 \in reached
  <2>1. PICK f : Summed(f, m)
    BY <1>2
  <2> DEFINE g == [i \in 0..m + 1 |-> IF i = m + 1 THEN f[m] + b[i] * Weight[m] ELSE f[i]]
  <2>2. ASSUME NEW i \in 0..m + 1
        PROVE  g[i] = IF i = 0 THEN 0 ELSE g[i - 1] + b[i] * Weight[i - 1]
    <3>1. CASE i = m + 1
      <4>1. i # 0 /\ i - 1 = m /\ m \in 0..m + 1 /\ m # m + 1
        BY <3>1
      <4>2. g[m] = f[m] /\ g[i] = f[m] + b[i] * Weight[m]
        BY <3>1, <4>1
      <4> HIDE DEF g
      <4> QED BY <4>1, <4>2
    <3>2. CASE i # m + 1
      <4>1. i \in 0..m /\ g[i] = f[i]
        BY <3>2
      <4>2. i # 0 => i - 1 \in 0..m + 1 /\ i - 1 # m + 1
        BY <4>1
      <4>3. i # 0 => g[i - 1] = f[i - 1]
        BY <4>2
      <4>4. f[i] = IF i = 0 THEN 0 ELSE f[i - 1] + b[i] * Weight[i - 1]
        BY <2>1, <4>1
      <4> HIDE DEF g
      <4> QED BY <4>1, <4>3, <4>4
    <3> QED BY <3>1, <3>2
  <2>3. g = [i \in 0..m + 1 |-> g[i]]
    OBVIOUS
  <2> HIDE DEF g
  <2>4. Summed(g, m + 1)
    BY <2>2, <2>3
  <2> QED BY <2>4
<1> HIDE DEF reached
<1>3. \E f : Summed(f, L)
  <2>1. L \in reached
    BY <1>1, <1>2, AllNaturals
  <2> QED BY <2>1 DEF reached
<1> DEFINE v == Values(b)
<1>4. v = CHOOSE f : Summed(f, L)
  BY DEF Values
<1> HIDE DEF v
<1>5. Summed(v, L)
  <2> HIDE DEF Summed
  <2> QED BY <1>3, <1>4
<1>6. v[0] = 0
  <2>1. 0 \in 0..L
    OBVIOUS
  <2> QED BY <1>5, <2>1
<1>7. ASSUME NEW i \in Nat, i < L PROVE v[i + 1] = v[i] + b[i + 1] * Weight[i]
  <2>1. i + 1 \in 0..L /\ i + 1 # 0 /\ (i + 1) - 1 = i
    BY <1>7
  <2>2. v[i + 1] = v[(i + 1) - 1] + b[i + 1] * Weight[(i + 1) - 1]
    BY <1>5, <2>1
  <2> QED BY <2>1, <2>2
<1> QED BY <1>6, <1>7 DEF v

\* Arithmetic.
LEMMA DigitRest ==
  ASSUME NEW x \in Nat, NEW r \in Nat \ {0}, NEW w \in Nat \ {0}
  PROVE  x % (r * w) = (x % w) + ((x \div w) % r) * w
<1> DEFINE q == x \div w
           d == q \div r
<1>1. q \in Nat /\ x % w \in 0..w - 1 /\ q * w + (x % w) = x
  BY DivMod
<1>2. d \in Nat /\ q % r \in 0..r - 1 /\ d * r + (q % r) = q
  BY <1>1, DivMod
<1> DEFINE u == x % w
           y == q % r
<1> HIDE DEF q, d, u, y
<1>3. u \in 0..w - 1 /\ y \in 0..r - 1 /\ q * w + u = x /\ d * r + y = q
  BY <1>1, <1>2 DEF u, y
<1>4. u + y * w \in Nat /\ u + y * w < r * w /\ r * w \in Nat \ {0}
  <2>1. y * w \in Nat /\ y + 1 <= r
    BY <1>3
  <2>2. (y + 1) * w <= r * w /\ (y + 1) * w = y * w + w
    BY <1>3, <2>1
  <2>3. r * w \in Nat \ {0}
    OBVIOUS
  <2> QED BY <1>3, <2>1, <2>2, <2>3
<1>5. x = d * (r * w) + (u + y * w)
  <2>1. q * w = (d * r) * w + y * w
    BY <1>2, <1>3
  <2>2. (d * r) * w = d * (r * w)
    BY <1>2
  <2>3. y * w \in Nat /\ d * (r * w) \in Nat /\ u \in Nat
    BY <1>2, <1>3
  <2> QED BY <1>3, <2>1, <2>2, <2>3
<1> DEFINE z == r * w
           t == u + y * w
<1> HIDE DEF z, t
<1>6. t \in Nat /\ t < z /\ z \in Nat \ {0} /\ x = d * z + t
  BY <1>4, <1>5 DEF z, t
<1>7. x % z = t
  BY <1>2, <1>6
<1> QED BY <1>7 DEF z, t, u, y, q

\* Of a number that fits, the digits are the number.
LEMMA EncodedIsDecoded ==
  ASSUME NEW n \in Nat, NEW width \in Nat, n < Weight[width]
  PROVE  /\ to_le_bytes(n, width) \in Fixed(width)
         /\ read_le(to_le_bytes(n, width)) = n
<1> DEFINE b == to_le_bytes(n, width)
<1>1. Radix \in Nat \ {0} /\ \A i \in Nat : Weight[i] \in Nat \ {0}
  BY WeightIs, SszAssumption
<1>2. ASSUME NEW x \in Nat, NEW w \in Nat \ {0}
      PROVE  (x \div w) % Radix \in Byte
  <2>1. x \div w \in Nat
    BY <1>2, DivMod
  <2> QED BY <1>1, <2>1, DivMod DEF Byte
<1>3. ASSUME NEW i \in 1..width PROVE (n \div Weight[i - 1]) % Radix \in Byte
  <2>1. i - 1 \in Nat
    OBVIOUS
  <2> QED BY <1>1, <1>2, <2>1
<1>4. b \in Fixed(width) /\ Len(b) = width
  BY <1>3 DEF to_le_bytes, Fixed
<1>5. ASSUME NEW i \in Nat, i < width PROVE b[i + 1] = (n \div Weight[i]) % Radix
  <2>1. i + 1 \in 1..width /\ (i + 1) - 1 = i
    BY <1>5
  <2> QED BY <2>1 DEF to_le_bytes
<1> HIDE DEF b
<1> DEFINE read == {i \in Nat : i <= width => Values(b)[i] = n % Weight[i]}
<1>6. 0 \in read
  <2>1. n % 1 = 0
    OBVIOUS
  <2> QED BY <1>4, <2>1, ValuesIs, WeightIs
<1>7. ASSUME NEW i \in Nat, i \in read PROVE i + 1 \in read
  <2>1. ASSUME i < width PROVE Values(b)[i + 1] = n % Weight[i + 1]
    <3>1. Values(b)[i + 1] = Values(b)[i] + b[i + 1] * Weight[i]
      BY <1>4, <2>1, ValuesIs
    <3>2. Values(b)[i] = n % Weight[i]
      BY <1>7, <2>1
    <3>3. Weight[i] \in Nat \ {0} /\ Weight[i + 1] = Radix * Weight[i]
      BY WeightIs
    <3>4. n % (Radix * Weight[i]) = (n % Weight[i]) + ((n \div Weight[i]) % Radix) * Weight[i]
      BY <1>1, <3>3, DigitRest
    <3> QED BY <1>5, <2>1, <3>1, <3>2, <3>3, <3>4
  <2> QED BY <2>1
<1> HIDE DEF read
<1>8. width \in read
  BY <1>6, <1>7, AllNaturals
<1>9. n % Weight[width] = n
  BY <1>1
<1> QED BY <1>4, <1>8, <1>9 DEF read, b, read_le

\* A multiple of w added does not change what w leaves of a number.
LEMMA MoreMultiples ==
  ASSUME NEW x \in Nat, NEW k \in Nat, NEW w \in Nat \ {0}
  PROVE  (x + k * w) \div w = (x \div w) + k /\ (x + k * w) % w = x % w
<1> DEFINE q == x \div w
           u == x % w
<1>1. q \in Nat /\ u \in 0..w - 1 /\ q * w + u = x
  BY DivMod
<1> HIDE DEF q, u
<1>2. x + k * w = (q + k) * w + u
  <2>1. (q + k) * w = q * w + k * w
    BY <1>1
  <2>2. q * w \in Nat /\ k * w \in Nat
    BY <1>1
  <2> QED BY <1>1, <2>1, <2>2
<1>3. q + k \in Nat /\ x + k * w \in Nat
  BY <1>1
<1> DEFINE y == x + k * w
           p == q + k
<1> HIDE DEF y, p
<1>4. y \div w = p /\ y % w = u
  BY <1>1, <1>2, <1>3 DEF y, p
<1> QED BY <1>4 DEF y, p, q, u

\* The weight of a digit is a multiple of that of each digit before.
LEMMA WeightDivides ==
  ASSUME NEW i \in Nat, NEW j \in Nat, i < j
  PROVE  \E k \in Nat : Weight[j] = (k * Radix) * Weight[i]
<1> DEFINE divided == {d \in Nat : \E k \in Nat : Weight[i + d + 1] = (k * Radix) * Weight[i]}
<1>1. Radix \in Nat \ {0} /\ \A k \in Nat : Weight[k] \in Nat \ {0}
  BY WeightIs, SszAssumption
<1>2. 0 \in divided
  <2>1. i + 0 + 1 = i + 1 /\ Weight[i + 1] = Radix * Weight[i] /\ 1 * Radix = Radix
    BY <1>1, WeightIs
  <2>2. Weight[i + 0 + 1] = (1 * Radix) * Weight[i]
    BY <2>1
  <2> QED BY <2>2
<1>3. ASSUME NEW d \in Nat, d \in divided PROVE d + 1 \in divided
  <2>1. PICK k \in Nat : Weight[i + d + 1] = (k * Radix) * Weight[i]
    BY <1>3
  <2>2. i + (d + 1) + 1 = (i + d + 1) + 1 /\ i + d + 1 \in Nat
    OBVIOUS
  <2>3. Weight[i + (d + 1) + 1] = Radix * Weight[i + d + 1]
    BY <2>2, WeightIs
  <2>4. Radix * k \in Nat /\ Radix * ((k * Radix) * Weight[i]) = ((Radix * k) * Radix) * Weight[i]
    <3> DEFINE r == Radix
               w == Weight[i]
    <3> HIDE DEF r, w
    <3>1. r \in Nat /\ w \in Nat
      BY <1>1 DEF r, w
    <3>2. r * k \in Nat /\ r * ((k * r) * w) = ((r * k) * r) * w
      BY <3>1
    <3> QED BY <3>2 DEF r, w
  <2>5. Weight[i + (d + 1) + 1] = ((Radix * k) * Radix) * Weight[i]
    BY <2>1, <2>3, <2>4
  <2> QED BY <2>4, <2>5
<1> HIDE DEF divided
<1>4. j - i - 1 \in Nat /\ i + (j - i - 1) + 1 = j
  OBVIOUS
<1>5. j - i - 1 \in divided
  BY <1>2, <1>3, <1>4, AllNaturals
<1>6. PICK k \in Nat : Weight[i + (j - i - 1) + 1] = (k * Radix) * Weight[i]
  BY <1>5 DEF divided
<1> QED BY <1>4, <1>6

\* Digits are those of the number that they are read as.
LEMMA DecodedIsEncoded ==
  ASSUME NEW width \in Nat, NEW b \in Fixed(width)
  PROVE  /\ read_le(b) \in 0..Weight[width] - 1
         /\ to_le_bytes(read_le(b), width) = b
<1>1. Radix \in Nat \ {0} /\ \A i \in Nat : Weight[i] \in Nat \ {0}
  BY WeightIs, SszAssumption
<1>2. Len(b) = width /\ b = [i \in 1..width |-> b[i]] /\ \A i \in 1..width : b[i] \in 0..Radix - 1
  BY DEF Fixed, Byte
<1> DEFINE v == Values(b)
           read == {i \in Nat : i <= width =>
                      /\ v[i] \in 0..Weight[i] - 1
                      /\ \A j \in 1..i : (v[i] \div Weight[j - 1]) % Radix = b[j]}
<1>3. 0 \in read
  <2>1. v[0] = 0 /\ Weight[0] = 1
    BY <1>2, ValuesIs, WeightIs
  <2> QED BY <2>1
<1>4. ASSUME NEW i \in Nat, i \in read PROVE i + 1 \in read
  <2>1. SUFFICES ASSUME i + 1 <= width
                 PROVE  /\ v[i + 1] \in 0..Weight[i + 1] - 1
                        /\ \A j \in 1..i + 1 : (v[i + 1] \div Weight[j - 1]) % Radix = b[j]
    OBVIOUS
  <2> DEFINE x == v[i]
             d == b[i + 1]
             w == Weight[i]
  <2>2. /\ x \in 0..w - 1 /\ \A j \in 1..i : (x \div Weight[j - 1]) % Radix = b[j]
        /\ d \in 0..Radix - 1 /\ w \in Nat \ {0}
        /\ v[i + 1] = x + d * w /\ Weight[i + 1] = Radix * w
    <3>1. i < width /\ i <= width /\ i + 1 \in 1..width
      BY <2>1
    <3> QED BY <1>1, <1>2, <1>4, <3>1, ValuesIs, WeightIs
  <2> HIDE DEF v, x, d, w
  <2>3. d * w \in Nat /\ d * w + w <= Radix * w
    <3>1. (d + 1) * w = d * w + w /\ d + 1 <= Radix /\ d * w \in Nat
      BY <1>1, <2>2
    <3>2. (d + 1) * w <= Radix * w
      BY <1>1, <2>2, <3>1
    <3> QED BY <3>1, <3>2
  <2>4. x + d * w \in 0..Radix * w - 1
    <3>1. Radix * w \in Nat
      BY <1>1, <2>2
    <3> QED BY <2>2, <2>3, <3>1
  <2>5. ASSUME NEW j \in 1..i + 1 PROVE ((x + d * w) \div Weight[j - 1]) % Radix = b[j]
    <3>1. CASE j = i + 1
      <4>1. Weight[j - 1] = w /\ b[j] = d
        BY <3>1 DEF d, w
      <4>2. x \div w = 0
        BY <2>2
      <4>3. (x + d * w) \div w = d
        <5>1. x \in Nat /\ d \in Nat /\ w \in Nat \ {0}
          BY <1>1, <2>2
        <5>2. (x + d * w) \div w = (x \div w) + d
          BY <5>1, MoreMultiples
        <5> QED BY <4>2, <5>1, <5>2
      <4>4. d % Radix = d
        BY <1>1, <2>2
      <4> QED BY <4>1, <4>3, <4>4
    <3>2. CASE j # i + 1
      <4>1. j \in 1..i /\ j - 1 \in Nat /\ j - 1 < i
        BY <3>2
      <4>2. PICK k \in Nat : w = (k * Radix) * Weight[j - 1]
        BY <4>1, WeightDivides DEF w
      <4> DEFINE z == Weight[j - 1]
                 y == x \div z
      <4>3. z \in Nat \ {0} /\ y \in Nat
        <5>1. z \in Nat \ {0} /\ x \in Nat
          BY <1>1, <2>2, <4>1
        <5> HIDE DEF z
        <5> QED BY <5>1, DivMod
      <4> HIDE DEF z, y
      <4>4. d * w = (d * k * Radix) * z /\ d * k \in Nat /\ d * k * Radix \in Nat
        <5> DEFINE r == Radix
        <5> HIDE DEF r
        <5>1. r \in Nat /\ w = (k * r) * z
          BY <1>1, <4>2 DEF r, z
        <5>2. d * ((k * r) * z) = (d * k * r) * z /\ d * k \in Nat /\ d * k * r \in Nat
          BY <2>2, <4>3, <5>1
        <5> QED BY <5>1, <5>2 DEF r
      <4>5. (x + d * w) \div z = y + d * k * Radix
        <5>1. x \in Nat
          BY <2>2
        <5>2. (x + (d * k * Radix) * z) \div z = (x \div z) + (d * k * Radix)
          BY <4>3, <4>4, <5>1, MoreMultiples
        <5> QED BY <4>4, <5>2 DEF y
      <4>6. (y + (d * k) * Radix) % Radix = y % Radix
        <5> DEFINE q == d * k
        <5>1. q \in Nat
          BY <4>4
        <5> HIDE DEF q
        <5> DEFINE r == Radix
        <5>2. r \in Nat \ {0} /\ y \in Nat
          BY <1>1, <4>3
        <5> HIDE DEF r
        <5>3. (y + q * r) % r = y % r
          BY <5>1, <5>2, MoreMultiples
        <5> QED BY <5>3 DEF q, r
      <4>7. y % Radix = b[j]
        BY <2>2, <4>1 DEF y, z
      <4> QED BY <4>5, <4>6, <4>7 DEF z
    <3> QED BY <3>1, <3>2
  <2> QED BY <2>2, <2>4, <2>5
<1> HIDE DEF read, v
<1>5. width \in read
  BY <1>3, <1>4, AllNaturals
<1>6. v[width] \in 0..Weight[width] - 1 /\ \A j \in 1..width : (v[width] \div Weight[j - 1]) % Radix = b[j]
  BY <1>5 DEF read
<1>7. read_le(b) = v[width]
  BY <1>2 DEF read_le, v
<1>8. to_le_bytes(v[width], width) = [i \in 1..width |-> b[i]]
  BY <1>6 DEF to_le_bytes
<1> QED BY <1>2, <1>6, <1>7, <1>8

-----------------------------------------------------------------------------
(***************************************************************************)
(* Bytes cut into fields.                                                  *)
(***************************************************************************)

LEMMA FixedIs ==
  ASSUME NEW n \in Nat, NEW b
  PROVE  b \in Fixed(n) <=> b \in Seq(Byte) /\ Len(b) = n
<1>1. ASSUME b \in Fixed(n) PROVE b \in Seq(Byte) /\ Len(b) = n
  BY <1>1 DEF Fixed
<1>2. ASSUME b \in Seq(Byte), Len(b) = n PROVE b \in Fixed(n)
  <2>1. DOMAIN b = 1..n /\ \A i \in 1..n : b[i] \in Byte
    BY <1>2
  <2>2. b = [i \in 1..n |-> b[i]]
    BY <1>2, <2>1
  <2> QED BY <2>1, <2>2 DEF Fixed
<1> QED BY <1>1, <1>2

LEMMA SliceIs ==
  ASSUME NEW b \in Seq(Byte), NEW x \in Nat, NEW y \in x..Len(b)
  PROVE  /\ Slice(b, x, y) \in Fixed(y - x)
         /\ \A i \in 1..y - x : Slice(b, x, y)[i] = b[x + i]
<1>1. Len(b) \in Nat /\ \A i \in 1..Len(b) : b[i] \in Byte
  OBVIOUS
<1>2. x + 1 \in Int /\ y \in Int /\ \A i \in x + 1..y : b[i] \in Byte
  BY <1>1
<1>3. /\ Slice(b, x, y) \in Seq(Byte)
      /\ Len(Slice(b, x, y)) = IF x + 1 <= y THEN y - (x + 1) + 1 ELSE 0
      /\ \A i \in 1..y - (x + 1) + 1 : Slice(b, x, y)[i] = b[(x + 1) + i - 1]
  BY <1>2, SubSeqProperties DEF Slice
<1>4. y - x \in Nat /\ y - (x + 1) + 1 = y - x /\ Len(Slice(b, x, y)) = y - x
  BY <1>1, <1>3
<1>5. \A i \in 1..y - x : (x + 1) + i - 1 = x + i
  BY <1>1
<1> QED BY <1>3, <1>4, <1>5, FixedIs

LEMMA SlicesJoin ==
  ASSUME NEW b \in Seq(Byte), NEW x \in Nat, NEW y \in x..Len(b), NEW z \in y..Len(b)
  PROVE  Slice(b, x, y) \o Slice(b, y, z) = Slice(b, x, z)
<1> DEFINE p == Slice(b, x, y)
           q == Slice(b, y, z)
           r == Slice(b, x, z)
<1>1. Len(b) \in Nat /\ y \in Nat /\ z \in Nat /\ z \in x..Len(b)
  OBVIOUS
<1>2. /\ p \in Seq(Byte) /\ Len(p) = y - x /\ \A i \in 1..y - x : p[i] = b[x + i]
      /\ q \in Seq(Byte) /\ Len(q) = z - y /\ \A i \in 1..z - y : q[i] = b[y + i]
      /\ r \in Seq(Byte) /\ Len(r) = z - x /\ \A i \in 1..z - x : r[i] = b[x + i]
  <2>1. y - x \in Nat /\ z - y \in Nat /\ z - x \in Nat
    BY <1>1
  <2> QED BY <1>1, <2>1, SliceIs, FixedIs
<1> HIDE DEF p, q, r
<1>3. /\ p \o q \in Seq(Byte) /\ Len(p \o q) = Len(p) + Len(q)
      /\ \A i \in 1..Len(p) + Len(q) : (p \o q)[i] = IF i <= Len(p) THEN p[i] ELSE q[i - Len(p)]
  BY <1>2, ConcatProperties
<1>4. Len(p \o q) = z - x
  BY <1>1, <1>2, <1>3
<1>5. ASSUME NEW i \in 1..z - x PROVE (p \o q)[i] = r[i]
  <2>1. CASE i <= y - x
    <3>1. (p \o q)[i] = p[i] /\ i \in 1..y - x
      BY <1>1, <1>2, <1>3, <2>1
    <3> QED BY <1>2, <3>1
  <2>2. CASE ~(i <= y - x)
    <3>1. /\ i - (y - x) \in 1..z - y /\ y + (i - (y - x)) = x + i
          /\ i \in 1..Len(p) + Len(q) /\ ~(i <= Len(p)) /\ i - Len(p) = i - (y - x)
      BY <1>1, <1>2, <2>2
    <3>2. (p \o q)[i] = q[i - (y - x)]
      BY <1>3, <3>1
    <3> QED BY <1>2, <3>1, <3>2
  <2> QED BY <2>1, <2>2
<1>6. p \o q = r
  BY <1>2, <1>3, <1>4, <1>5, SeqEqual
<1> QED BY <1>6 DEF p, q, r

LEMMA SliceAll ==
  ASSUME NEW b \in Seq(Byte)
  PROVE  Slice(b, 0, Len(b)) = b
BY SubSeqFull DEF Slice

\* b begins with the n bytes of p.
Begins(b, p, n) == b \in Seq(Byte) /\ n <= Len(b) /\ \A i \in 1..n : b[i] = p[i]

\* r, of length l, consists of p, of length m, and q behind it.
Joined(r, l, p, m, q) ==
  /\ r \in Fixed(l)
  /\ \A b : Begins(b, r, l) => Begins(b, p, m) /\ Slice(b, m, l) = q

LEMMA FieldsJoined ==
  ASSUME NEW m \in Nat, NEW n \in Nat, NEW p \in Fixed(m), NEW q \in Fixed(n),
         NEW l, l = m + n, NEW r, r = p \o q
  PROVE  Joined(r, l, p, m, q)
<1>1. p \in Seq(Byte) /\ Len(p) = m /\ q \in Seq(Byte) /\ Len(q) = n
  BY FixedIs
<1>2. /\ p \o q \in Seq(Byte) /\ Len(p \o q) = m + n
      /\ \A i \in 1..m + n : (p \o q)[i] = IF i <= m THEN p[i] ELSE q[i - m]
  BY <1>1, ConcatProperties
<1>3. p \o q \in Fixed(m + n)
  <2>1. m + n \in Nat
    OBVIOUS
  <2> QED BY <1>2, <2>1, FixedIs
<1>4. ASSUME NEW b, Begins(b, p \o q, m + n)
      PROVE  Begins(b, p, m) /\ Slice(b, m, m + n) = q
  <2>1. b \in Seq(Byte) /\ Len(b) \in Nat /\ m + n <= Len(b) /\ m <= Len(b)
    BY <1>4 DEF Begins
  <2>2. ASSUME NEW i \in 1..m PROVE b[i] = p[i]
    <3>1. i \in 1..m + n /\ i <= m
      OBVIOUS
    <3> QED BY <1>2, <1>4, <3>1 DEF Begins
  <2>3. ASSUME NEW i \in 1..n PROVE b[m + i] = q[i]
    <3>1. m + i \in 1..m + n /\ ~(m + i <= m) /\ (m + i) - m = i
      OBVIOUS
    <3> QED BY <1>2, <1>4, <3>1 DEF Begins
  <2>4. m + n \in m..Len(b) /\ (m + n) - m = n
    BY <2>1
  <2>5. Slice(b, m, m + n) \in Fixed(n) /\ \A i \in 1..n : Slice(b, m, m + n)[i] = b[m + i]
    BY <2>1, <2>4, SliceIs
  <2>6. Slice(b, m, m + n) = q
    <3> DEFINE cut == Slice(b, m, m + n)
    <3>1. cut \in Seq(Byte) /\ Len(cut) = n
      BY <2>5, FixedIs
    <3>2. \A i \in 1..n : cut[i] = q[i]
      BY <2>3, <2>5
    <3> HIDE DEF cut
    <3>3. cut = q
      BY <1>1, <3>1, <3>2, SeqEqual
    <3> QED BY <3>3 DEF cut
  <2> QED BY <2>1, <2>2, <2>6 DEF Begins
<1> QED BY <1>3, <1>4 DEF Joined

-----------------------------------------------------------------------------
(***************************************************************************)
(* Certificates.                                                           *)
(***************************************************************************)

LEMMA LengthsAre ==
  /\ U64_LEN \in Nat \ {0} /\ U32_LEN \in Nat \ {0} /\ ADDRESS_LEN \in Nat \ {0}
  /\ WORD_LEN \in Nat \ {0} /\ Radix \in Nat \ {0, 1} /\ MAX_EVENT_SUMMARIES \in Nat
BY SszAssumption

Resolvable(c) == c \in CanonicalAccountCertificate /\ c.storage_root # << >>

\* The fields of c in the order in which they are written, and their lengths.
CertificateField(c) ==
  <<c.address, c.generation.key.address, to_le_bytes(c.generation.key.generation_id, U32_LEN),
    c.generation.state_table_proof_root, to_le_bytes(c.nonce, U64_LEN), c.balance, c.code_hash,
    c.storage_root[1]>>

LEMMA FieldsTyped ==
  ASSUME NEW c, Resolvable(c), NEW f, f = CertificateField(c)
  PROVE  /\ f[1] \in Fixed(ADDRESS_LEN) /\ f[2] \in Fixed(ADDRESS_LEN) /\ f[3] \in Fixed(U32_LEN)
         /\ f[4] \in Fixed(WORD_LEN) /\ f[5] \in Fixed(U64_LEN) /\ f[6] \in Fixed(WORD_LEN)
         /\ f[7] \in Fixed(WORD_LEN) /\ f[8] \in Fixed(WORD_LEN)
         /\ c.storage_root = <<f[8]>>
<1>1. /\ c.address \in Fixed(ADDRESS_LEN) /\ c.generation.key.address \in Fixed(ADDRESS_LEN)
      /\ c.generation.key.generation_id \in u32
      /\ c.generation.state_table_proof_root \in Fixed(WORD_LEN) /\ c.nonce \in u64
      /\ c.balance \in Fixed(WORD_LEN) /\ c.code_hash \in Fixed(WORD_LEN)
      /\ c.storage_root \in [1..1 -> Fixed(WORD_LEN)]
  BY DEF Resolvable, CanonicalAccountCertificate
<1>2. \A i \in Nat : Weight[i] \in Nat \ {0}
  BY WeightIs
<1>3. to_le_bytes(c.generation.key.generation_id, U32_LEN) \in Fixed(U32_LEN)
  <2>1. c.generation.key.generation_id \in Nat /\ c.generation.key.generation_id < Weight[U32_LEN]
    BY <1>1, <1>2, LengthsAre DEF u32
  <2> QED BY <2>1, LengthsAre, EncodedIsDecoded
<1>4. to_le_bytes(c.nonce, U64_LEN) \in Fixed(U64_LEN)
  <2>1. c.nonce \in Nat /\ c.nonce < Weight[U64_LEN]
    BY <1>1, <1>2, LengthsAre DEF u64
  <2> QED BY <2>1, LengthsAre, EncodedIsDecoded
<1>5. c.storage_root = <<c.storage_root[1]>> /\ c.storage_root[1] \in Fixed(WORD_LEN)
  BY <1>1
<1> QED BY <1>1, <1>3, <1>4, <1>5 DEF CertificateField

\* What was encoded is decoded.
LEMMA CertificateDecoded ==
  ASSUME NEW c, Resolvable(c)
  PROVE  \E e \in Fixed(CERTIFICATE_ENCODED_LEN) :
           EncodeCertificate(c) = Ok(e) /\ DecodeCertificate(e) = Ok(c)
<1> DEFINE f == CertificateField(c)
           a == ADDRESS_LEN
           g == 2 * a + U32_LEN
           n == g + WORD_LEN
           b == n + U64_LEN
           e2 == f[1] \o f[2]
           e3 == e2 \o f[3]
           e4 == e3 \o f[4]
           e5 == e4 \o f[5]
           e6 == e5 \o f[6]
           e7 == e6 \o f[7]
           e == e7 \o f[8]
<1>1. /\ f[1] \in Fixed(a) /\ f[2] \in Fixed(a) /\ f[3] \in Fixed(U32_LEN)
      /\ f[4] \in Fixed(WORD_LEN) /\ f[5] \in Fixed(U64_LEN) /\ f[6] \in Fixed(WORD_LEN)
      /\ f[7] \in Fixed(WORD_LEN) /\ f[8] \in Fixed(WORD_LEN)
      /\ c.storage_root = <<f[8]>>
  BY FieldsTyped
<1>2. EncodeCertificate(c) = Ok(e)
  <2>1. c.storage_root # << >>
    BY DEF Resolvable
  <2> QED BY <2>1 DEF EncodeCertificate, CertificateField
<1> HIDE DEF f
<1> DEFINE a2 == 2 * a
           b1 == b + WORD_LEN
           b2 == b + 2 * WORD_LEN
           b3 == b + 3 * WORD_LEN
           w == WORD_LEN
<1>3. /\ a \in Nat /\ U32_LEN \in Nat /\ U64_LEN \in Nat /\ w \in Nat
      /\ a2 \in Nat /\ g \in Nat /\ n \in Nat /\ b \in Nat /\ b1 \in Nat /\ b2 \in Nat /\ b3 \in Nat
      /\ a2 = a + a /\ g = a2 + U32_LEN /\ n = g + w /\ b = n + U64_LEN
      /\ b1 = b + w /\ b2 = b1 + w /\ b3 = b2 + w
      /\ CERTIFICATE_ENCODED_LEN = b3
  BY LengthsAre DEF CERTIFICATE_ENCODED_LEN
<1>3a. /\ f[1] \in Fixed(a) /\ f[2] \in Fixed(a) /\ f[3] \in Fixed(U32_LEN)
       /\ f[4] \in Fixed(w) /\ f[5] \in Fixed(U64_LEN) /\ f[6] \in Fixed(w)
       /\ f[7] \in Fixed(w) /\ f[8] \in Fixed(w)
  BY <1>1
<1>3b. /\ e2 = f[1] \o f[2] /\ e3 = e2 \o f[3] /\ e4 = e3 \o f[4] /\ e5 = e4 \o f[5]
       /\ e6 = e5 \o f[6] /\ e7 = e6 \o f[7] /\ e = e7 \o f[8]
  OBVIOUS
<1> HIDE DEF a, a2, g, n, b, b1, b2, b3, w, e2, e3, e4, e5, e6, e7, e
<1>4. Joined(e2, a2, f[1], a, f[2])
  <2>1. f[1] \in Fixed(a)
    BY <1>3a
  <2> QED BY <1>3, <1>3a, <1>3b, <2>1, FieldsJoined
<1>5. Joined(e3, g, e2, a2, f[3])
  <2>1. e2 \in Fixed(a2)
    BY <1>4 DEF Joined
  <2> QED BY <1>3, <1>3a, <1>3b, <2>1, FieldsJoined
<1>6. Joined(e4, n, e3, g, f[4])
  <2>1. e3 \in Fixed(g)
    BY <1>5 DEF Joined
  <2> QED BY <1>3, <1>3a, <1>3b, <2>1, FieldsJoined
<1>7. Joined(e5, b, e4, n, f[5])
  <2>1. e4 \in Fixed(n)
    BY <1>6 DEF Joined
  <2> QED BY <1>3, <1>3a, <1>3b, <2>1, FieldsJoined
<1>8. Joined(e6, b1, e5, b, f[6])
  <2>1. e5 \in Fixed(b)
    BY <1>7 DEF Joined
  <2> QED BY <1>3, <1>3a, <1>3b, <2>1, FieldsJoined
<1>9. Joined(e7, b2, e6, b1, f[7])
  <2>1. e6 \in Fixed(b1)
    BY <1>8 DEF Joined
  <2> QED BY <1>3, <1>3a, <1>3b, <2>1, FieldsJoined
<1>10. Joined(e, b3, e7, b2, f[8])
  <2>1. e7 \in Fixed(b2)
    BY <1>9 DEF Joined
  <2> QED BY <1>3, <1>3a, <1>3b, <2>1, FieldsJoined
<1>11. e \in Fixed(b3) /\ Begins(e, e, b3)
  <2>1. e \in Fixed(b3)
    BY <1>10 DEF Joined
  <2> QED BY <1>3, <2>1, FixedIs DEF Begins
<1>12. Begins(e, e7, b2) /\ Slice(e, b2, b3) = f[8]
  BY <1>10, <1>11 DEF Joined
<1>13. Begins(e, e6, b1) /\ Slice(e, b1, b2) = f[7]
  BY <1>9, <1>12 DEF Joined
<1>14. Begins(e, e5, b) /\ Slice(e, b, b1) = f[6]
  BY <1>8, <1>13 DEF Joined
<1>15. Begins(e, e4, n) /\ Slice(e, n, b) = f[5]
  BY <1>7, <1>14 DEF Joined
<1>16. Begins(e, e3, g) /\ Slice(e, g, n) = f[4]
  BY <1>6, <1>15 DEF Joined
<1>17. Begins(e, e2, a2) /\ Slice(e, a2, g) = f[3]
  BY <1>5, <1>16 DEF Joined
<1>18. Begins(e, f[1], a) /\ Slice(e, a, a2) = f[2]
  BY <1>4, <1>17 DEF Joined
<1>19. Slice(e, 0, a) = f[1]
  <2>1. e \in Seq(Byte) /\ a <= Len(e) /\ \A i \in 1..a : e[i] = f[1][i]
    BY <1>18 DEF Begins
  <2>2. 0 \in Nat /\ a \in 0..Len(e) /\ a - 0 = a /\ \A i \in 1..a : 0 + i = i
    BY <1>3, <2>1
  <2>3. Slice(e, 0, a) \in Fixed(a) /\ \A i \in 1..a : Slice(e, 0, a)[i] = e[i]
    BY <2>1, <2>2, SliceIs
  <2> DEFINE r == Slice(e, 0, a)
             q == f[1]
  <2> HIDE DEF r, q
  <2>4. /\ r \in Seq(Byte) /\ Len(r) = a /\ q \in Seq(Byte) /\ Len(q) = a
        /\ \A i \in 1..a : r[i] = q[i]
    BY <1>1, <1>3, <2>1, <2>3, FixedIs DEF r, q
  <2>5. r = q
    BY <2>4, SeqEqual
  <2> QED BY <2>5 DEF r, q
<1>20. read_le(f[3]) = c.generation.key.generation_id /\ read_le(f[5]) = c.nonce
  <2>1. /\ c.generation.key.generation_id \in u32 /\ c.nonce \in u64
    BY DEF Resolvable, CanonicalAccountCertificate
  <2>2. /\ U32_LEN \in Nat /\ U64_LEN \in Nat
        /\ Weight[U32_LEN] \in Nat \ {0} /\ Weight[U64_LEN] \in Nat \ {0}
    BY LengthsAre, WeightIs
  <2>3. /\ c.generation.key.generation_id \in Nat /\ c.generation.key.generation_id < Weight[U32_LEN]
        /\ c.nonce \in Nat /\ c.nonce < Weight[U64_LEN]
    BY <2>1, <2>2 DEF u32, u64
  <2>4. /\ f[3] = to_le_bytes(c.generation.key.generation_id, U32_LEN)
        /\ f[5] = to_le_bytes(c.nonce, U64_LEN)
    BY DEF f, CertificateField
  <2> QED BY <2>2, <2>3, <2>4, EncodedIsDecoded
<1>21. c = [address    |-> f[1],
            generation |-> [key |-> [address |-> f[2], generation_id |-> read_le(f[3])],
                            state_table_proof_root |-> f[4]],
            nonce      |-> read_le(f[5]),
            balance    |-> f[6],
            code_hash  |-> f[7],
            storage_root |-> <<f[8]>>]
  <2>1. /\ f[1] = c.address /\ f[2] = c.generation.key.address
        /\ f[4] = c.generation.state_table_proof_root /\ f[6] = c.balance /\ f[7] = c.code_hash
    BY DEF f, CertificateField
  <2>2. c \in CanonicalAccountCertificate
    BY DEF Resolvable
  <2>3. c.generation = [key |-> [address |-> f[2], generation_id |-> read_le(f[3])],
                        state_table_proof_root |-> f[4]]
    BY <1>20, <2>1, <2>2 DEF CanonicalAccountCertificate
  <2> QED BY <1>1, <1>20, <2>1, <2>2, <2>3 DEF CanonicalAccountCertificate
<1>22. DecodeCertificate(e) = Ok(c)
  <2>1. Len(e) = CERTIFICATE_ENCODED_LEN
    BY <1>3, <1>11, FixedIs
  <2>2. DecodeCertificate(e) =
          Ok([address    |-> Slice(e, 0, a),
              generation |-> [key |-> [address       |-> Slice(e, a, 2 * a),
                                       generation_id |-> read_le(Slice(e, 2 * a, g))],
                              state_table_proof_root |-> Slice(e, g, n)],
              nonce      |-> read_le(Slice(e, n, b)),
              balance    |-> Slice(e, b, b + WORD_LEN),
              code_hash  |-> Slice(e, b + WORD_LEN, b + 2 * WORD_LEN),
              storage_root |-> <<Slice(e, b + 2 * WORD_LEN, b + 3 * WORD_LEN)>>])
    BY <2>1 DEF DecodeCertificate, a, g, n, b
  <2>3. /\ Slice(e, a, 2 * a) = f[2] /\ Slice(e, 2 * a, g) = f[3]
        /\ Slice(e, b, b + WORD_LEN) = f[6] /\ Slice(e, b + WORD_LEN, b + 2 * WORD_LEN) = f[7]
        /\ Slice(e, b + 2 * WORD_LEN, b + 3 * WORD_LEN) = f[8]
    BY <1>12, <1>13, <1>14, <1>17, <1>18 DEF a2, b1, b2, b3
  <2> QED BY <1>15, <1>16, <1>19, <1>21, <2>2, <2>3
<1> QED BY <1>2, <1>3, <1>11, <1>22

LEMMA CertificateFails ==
  ASSUME NEW c \in CanonicalAccountCertificate
  PROVE  /\ EncodeCertificate(c).ok \in BOOLEAN
         /\ EncodeCertificate(c).ok <=> c.storage_root # << >>
<1>1. CASE c.storage_root = << >>
  <2>1. EncodeCertificate(c) = Err("UnresolvedStorageRoot")
    BY <1>1 DEF EncodeCertificate
  <2>2. EncodeCertificate(c).ok = FALSE
    BY <2>1, ResultIs
  <2> QED BY <1>1, <2>2
<1>2. CASE c.storage_root # << >>
  <2>1. PICK e \in Fixed(CERTIFICATE_ENCODED_LEN) : EncodeCertificate(c) = Ok(e)
    BY <1>2, CertificateDecoded DEF Resolvable
  <2>2. EncodeCertificate(c).ok = TRUE
    BY <2>1, ResultIs
  <2> QED BY <1>2, <2>2
<1> QED BY <1>1, <1>2

\* What was decoded is encoded in the same way.
LEMMA CertificateEncoded ==
  ASSUME NEW e \in Seq(Byte), DecodeCertificate(e).ok
  PROVE  EncodeCertificate(DecodeCertificate(e).value) = Ok(e)
<1> DEFINE a == ADDRESS_LEN
           g == 2 * a + U32_LEN
           n == g + WORD_LEN
           b == n + U64_LEN
           c == [address    |-> Slice(e, 0, a),
                 generation |-> [key |-> [address       |-> Slice(e, a, 2 * a),
                                          generation_id |-> read_le(Slice(e, 2 * a, g))],
                                 state_table_proof_root |-> Slice(e, g, n)],
                 nonce      |-> read_le(Slice(e, n, b)),
                 balance    |-> Slice(e, b, b + WORD_LEN),
                 code_hash  |-> Slice(e, b + WORD_LEN, b + 2 * WORD_LEN),
                 storage_root |-> <<Slice(e, b + 2 * WORD_LEN, b + 3 * WORD_LEN)>>]
<1>1. Len(e) = CERTIFICATE_ENCODED_LEN
  <2>1. ASSUME Len(e) # CERTIFICATE_ENCODED_LEN PROVE FALSE
    <3>1. DecodeCertificate(e) = Err(WrongLength(e, CERTIFICATE_ENCODED_LEN))
      BY <2>1 DEF DecodeCertificate
    <3>2. DecodeCertificate(e).ok = FALSE
      BY <3>1, ResultIs
    <3> QED BY <3>2
  <2> QED BY <2>1
<1>2. DecodeCertificate(e).value = c
  <2>1. DecodeCertificate(e) = Ok(c)
    BY <1>1 DEF DecodeCertificate
  <2> HIDE DEF c
  <2> QED BY <2>1, ResultIs
<1>3. EncodeCertificate(c) =
        Ok(Slice(e, 0, a) \o Slice(e, a, 2 * a)
            \o to_le_bytes(read_le(Slice(e, 2 * a, g)), U32_LEN)
            \o Slice(e, g, n) \o to_le_bytes(read_le(Slice(e, n, b)), U64_LEN)
            \o Slice(e, b, b + WORD_LEN) \o Slice(e, b + WORD_LEN, b + 2 * WORD_LEN)
            \o Slice(e, b + 2 * WORD_LEN, b + 3 * WORD_LEN))
  <2> HIDE DEF a, g, n, b
  <2>1. c.storage_root # << >>
    OBVIOUS
  <2> QED BY <2>1 DEF EncodeCertificate
<1> DEFINE w == WORD_LEN
           a2 == 2 * a
           b1 == b + WORD_LEN
           b2 == b + 2 * WORD_LEN
           b3 == b + 3 * WORD_LEN
<1> HIDE DEF c
<1>4. /\ a \in Nat /\ U32_LEN \in Nat /\ U64_LEN \in Nat /\ w \in Nat
      /\ a2 = a + a /\ g = a2 + U32_LEN /\ n = g + w /\ b = n + U64_LEN
      /\ b1 = b + w /\ b2 = b1 + w /\ b3 = b2 + w
      /\ Len(e) = b3
  BY <1>1, LengthsAre DEF CERTIFICATE_ENCODED_LEN
<1>5. EncodeCertificate(c) =
        Ok(Slice(e, 0, a) \o Slice(e, a, a2)
            \o to_le_bytes(read_le(Slice(e, a2, g)), U32_LEN)
            \o Slice(e, g, n) \o to_le_bytes(read_le(Slice(e, n, b)), U64_LEN)
            \o Slice(e, b, b1) \o Slice(e, b1, b2) \o Slice(e, b2, b3))
  BY <1>3
<1> HIDE DEF a, a2, g, n, b, b1, b2, b3, w
<1>6. /\ a \in 0..Len(e) /\ a2 \in a..Len(e) /\ g \in a2..Len(e) /\ n \in g..Len(e)
      /\ b \in n..Len(e) /\ b1 \in b..Len(e) /\ b2 \in b1..Len(e) /\ b3 \in b2..Len(e)
      /\ a2 \in Nat /\ g \in Nat /\ n \in Nat /\ b \in Nat /\ b1 \in Nat /\ b2 \in Nat /\ b3 \in Nat
      /\ a \in Nat /\ a <= Len(e) /\ a2 <= Len(e) /\ g <= Len(e) /\ n <= Len(e) /\ b <= Len(e)
      /\ b1 <= Len(e) /\ b2 <= Len(e)
  BY <1>4
<1>7. to_le_bytes(read_le(Slice(e, a2, g)), U32_LEN) = Slice(e, a2, g)
  <2>1. g - a2 = U32_LEN
    BY <1>4, <1>6
  <2>2. Slice(e, a2, g) \in Fixed(U32_LEN)
    BY <1>6, <2>1, SliceIs
  <2> QED BY <1>4, <2>2, DecodedIsEncoded
<1>8. to_le_bytes(read_le(Slice(e, n, b)), U64_LEN) = Slice(e, n, b)
  <2>1. b - n = U64_LEN
    BY <1>4, <1>6
  <2>2. Slice(e, n, b) \in Fixed(U64_LEN)
    BY <1>6, <2>1, SliceIs
  <2> QED BY <1>4, <2>2, DecodedIsEncoded
<1>9. ASSUME NEW x \in Nat, NEW y \in x..Len(e), x <= Len(e)
      PROVE  Slice(e, 0, x) \o Slice(e, x, y) = Slice(e, 0, y)
  <2>1. 0 \in Nat /\ x \in 0..Len(e)
    BY <1>9, <1>4
  <2> QED BY <2>1, SlicesJoin
<1>10. /\ Slice(e, 0, a) \o Slice(e, a, a2) = Slice(e, 0, a2)
       /\ Slice(e, 0, a2) \o Slice(e, a2, g) = Slice(e, 0, g)
       /\ Slice(e, 0, g) \o Slice(e, g, n) = Slice(e, 0, n)
       /\ Slice(e, 0, n) \o Slice(e, n, b) = Slice(e, 0, b)
  BY <1>6, <1>9
<1>11. /\ Slice(e, 0, b) \o Slice(e, b, b1) = Slice(e, 0, b1)
       /\ Slice(e, 0, b1) \o Slice(e, b1, b2) = Slice(e, 0, b2)
       /\ Slice(e, 0, b2) \o Slice(e, b2, b3) = Slice(e, 0, b3)
  BY <1>6, <1>9
<1>12. Slice(e, 0, b3) = e
  BY <1>4, SliceAll
<1>13. EncodeCertificate(c) = Ok(e)
  BY <1>5, <1>7, <1>8, <1>10, <1>11, <1>12
<1> QED BY <1>2, <1>13

-----------------------------------------------------------------------------
(***************************************************************************)
(* Lists of elements of one length.                                        *)
(***************************************************************************)

LEMMA Multiples ==
  ASSUME NEW i \in Nat, NEW j \in Nat, NEW d \in Nat, i <= j
  PROVE  /\ i * d \in Nat /\ j * d \in Nat /\ i * d <= j * d
         /\ (i + 1) * d = i * d + d
<1>1. (j - i) \in Nat /\ (j - i) * d \in Nat /\ j * d = i * d + (j - i) * d
  OBVIOUS
<1>2. i * d \in Nat /\ j * d \in Nat /\ (i + 1) * d = i * d + d
  OBVIOUS
<1> QED BY <1>1, <1>2

\* A slice of what begins with p is the slice of p.
LEMMA SliceBegins ==
  ASSUME NEW n \in Nat, NEW p \in Fixed(n), NEW b, Begins(b, p, n),
         NEW x \in 0..n, NEW y \in x..n
  PROVE  Slice(b, x, y) = Slice(p, x, y)
<1>1. /\ b \in Seq(Byte) /\ Len(b) \in Nat /\ n <= Len(b) /\ \A i \in 1..n : b[i] = p[i]
      /\ p \in Seq(Byte) /\ Len(p) = n /\ x \in Nat
  BY FixedIs DEF Begins
<1>2. y \in x..Len(b) /\ y \in x..Len(p) /\ y - x \in Nat
  BY <1>1
<1> DEFINE u == Slice(b, x, y)
           v == Slice(p, x, y)
<1>3. /\ u \in Fixed(y - x) /\ \A i \in 1..y - x : u[i] = b[x + i]
      /\ v \in Fixed(y - x) /\ \A i \in 1..y - x : v[i] = p[x + i]
  BY <1>1, <1>2, SliceIs
<1> HIDE DEF u, v
<1>4. u \in Seq(Byte) /\ Len(u) = y - x /\ v \in Seq(Byte) /\ Len(v) = y - x
  BY <1>2, <1>3, FixedIs
<1>5. ASSUME NEW i \in 1..y - x PROVE u[i] = v[i]
  <2>1. x + i \in 1..n
    BY <1>1
  <2> QED BY <1>1, <1>3, <2>1
<1>6. u = v
  BY <1>4, <1>5, SeqEqual
<1> QED BY <1>6 DEF u, v

\* f[i] consists of the first i elements of s.
Unrolled(f, s, m) ==
  /\ f[1] = s[1] /\ FlattenSeq(s) = f[m]
  /\ \A i \in Nat \ {0} : i < m => f[i + 1] = f[i] \o s[i + 1]

LEMMA FlattenIs ==
  ASSUME NEW s, NEW m \in Nat \ {0}, Len(s) = m
  PROVE  \E f : Unrolled(f, s, m)
<1> DEFINE Flat(f, n) == f = [i \in 1..n |-> IF i = 1 THEN s[i] ELSE f[i - 1] \o s[i]]
           reached == {n \in Nat : \E f : Flat(f, n + 1)}
<1>1. 0 \in reached
  <2>1. Flat([i \in 1..0 + 1 |-> s[i]], 0 + 1)
    OBVIOUS
  <2> QED BY <2>1
<1>2. ASSUME NEW n \in Nat, n \in reached PROVE n + 1 \in reached
  <2>1. PICK f : Flat(f, n + 1)
    BY <1>2
  <2> DEFINE k == n + 1
             g == [i \in 1..k + 1 |-> IF i = k + 1 THEN f[k] \o s[i] ELSE f[i]]
  <2>2. ASSUME NEW i \in 1..k + 1
        PROVE  g[i] = IF i = 1 THEN s[i] ELSE g[i - 1] \o s[i]
    <3>1. CASE i = k + 1
      <4>1. i # 1 /\ i - 1 = k /\ k \in 1..k + 1 /\ k # k + 1
        BY <3>1
      <4>2. g[k] = f[k] /\ g[i] = f[k] \o s[i]
        BY <3>1, <4>1
      <4> HIDE DEF g
      <4> QED BY <4>1, <4>2
    <3>2. CASE i # k + 1
      <4>1. i \in 1..k /\ g[i] = f[i]
        BY <3>2
      <4>2. i # 1 => i - 1 \in 1..k + 1 /\ i - 1 # k + 1
        BY <4>1
      <4>3. i # 1 => g[i - 1] = f[i - 1]
        BY <4>2
      <4>4. f[i] = IF i = 1 THEN s[i] ELSE f[i - 1] \o s[i]
        BY <2>1, <4>1
      <4> HIDE DEF g
      <4> QED BY <4>1, <4>3, <4>4
    <3> QED BY <3>1, <3>2
  <2>3. g = [i \in 1..k + 1 |-> g[i]]
    OBVIOUS
  <2> HIDE DEF g
  <2>4. Flat(g, k + 1)
    BY <2>2, <2>3
  <2> HIDE DEF Flat
  <2>5. n + 1 \in Nat /\ \E other : Flat(other, (n + 1) + 1)
    BY <2>4
  <2> QED BY <2>5
<1> HIDE DEF reached
<1>3. \E f : Flat(f, m)
  <2>1. m - 1 \in Nat /\ (m - 1) + 1 = m
    OBVIOUS
  <2>2. m - 1 \in reached
    BY <1>1, <1>2, <2>1, AllNaturals
  <2> QED BY <2>1, <2>2 DEF reached
<1> DEFINE v == CHOOSE f : Flat(f, m)
<1>4. FlattenSeq(s) = v[m]
  BY DEF FlattenSeq
<1>5. Flat(v, m)
  <2> HIDE DEF Flat
  <2> QED BY <1>3
<1> HIDE DEF v
<1>6. v[1] = s[1]
  <2>1. 1 \in 1..m
    OBVIOUS
  <2> QED BY <1>5, <2>1
<1>7. ASSUME NEW i \in Nat \ {0}, i < m PROVE v[i + 1] = v[i] \o s[i + 1]
  <2>1. i + 1 \in 1..m /\ i + 1 # 1 /\ (i + 1) - 1 = i
    BY <1>7
  <2>2. v[i + 1] = v[(i + 1) - 1] \o s[i + 1]
    BY <1>5, <2>1
  <2> QED BY <2>1, <2>2
<1> QED BY <1>4, <1>6, <1>7 DEF Unrolled

\* Elements of one length lie one after the other, and are found again.
LEMMA FlattenUniform ==
  ASSUME NEW m \in Nat, NEW d \in Nat, NEW s, s \in [1..m -> Fixed(d)]
  PROVE  /\ FlattenSeq(s) \in Fixed(m * d)
         /\ \A i \in 1..m : Slice(FlattenSeq(s), (i - 1) * d, i * d) = s[i]
<1>1. Len(s) = m /\ \A i \in 1..m : s[i] \in Fixed(d)
  OBVIOUS
<1>2. CASE m = 0
  <2>1. FlattenSeq(s) = s /\ s = << >>
    BY <1>1, <1>2 DEF FlattenSeq
  <2>2. << >> \in Seq(Byte) /\ Len(<< >>) = 0 /\ m * d = 0 /\ m * d \in Nat
    BY <1>2
  <2>3. << >> \in Fixed(m * d)
    BY <2>2, FixedIs
  <2> QED BY <1>2, <2>1, <2>3
<1>3. CASE m # 0
  <2>0. \E f : Unrolled(f, s, m)
    BY <1>1, <1>3, FlattenIs
  <2>1. PICK f : /\ f[1] = s[1] /\ FlattenSeq(s) = f[m]
                 /\ \A i \in Nat \ {0} : i < m => f[i + 1] = f[i] \o s[i + 1]
    BY <2>0 DEF Unrolled
  <2> DEFINE Found(e, n) ==
               /\ e \in Fixed(n * d)
               /\ \A i \in 1..n : Slice(e, (i - 1) * d, i * d) = s[i]
             found == {n \in Nat : n < m => Found(f[n + 1], n + 1)}
  <2>2. 0 \in found
    <3>1. s[1] \in Fixed(d) /\ 1 * d = d /\ 0 * d = 0 /\ 0 + 1 = 1
      BY <1>1, <1>3
    <3>2. Slice(s[1], 0, d) = s[1]
      <4>1. s[1] \in Seq(Byte) /\ Len(s[1]) = d
        BY <3>1, FixedIs
      <4> QED BY <4>1, SliceAll
    <3>3. \A i \in 1..1 : i = 1 /\ i - 1 = 0
      OBVIOUS
    <3>4. \A i \in 1..1 : Slice(s[1], (i - 1) * d, i * d) = s[i]
      BY <3>1, <3>2, <3>3
    <3>5. Found(f[1], 1)
      BY <2>1, <3>1, <3>4
    <3> HIDE DEF Found
    <3> QED BY <3>5
  <2>3. ASSUME NEW n \in Nat, n \in found PROVE n + 1 \in found
    <3> SUFFICES ASSUME n + 1 < m PROVE Found(f[n + 2], n + 2)
      <4>1. n + 1 \in Nat /\ (n + 1) + 1 = n + 2
        OBVIOUS
      <4> HIDE DEF Found
      <4> QED BY <4>1
    <3> DEFINE k == n + 1
               p == f[k]
               e == f[k + 1]
               x == k * d
    <3>1. /\ k \in Nat \ {0} /\ k < m /\ k + 1 = n + 2 /\ k + 1 \in 1..m
          /\ s[k + 1] \in Fixed(d)
      BY <1>1
    <3>2. Found(p, k)
      <4> HIDE DEF Found
      <4>1. n < m
        OBVIOUS
      <4> QED BY <2>3, <4>1
    <3>3. e = p \o s[k + 1]
      BY <2>1, <3>1
    <3>4. x \in Nat /\ (k + 1) * d = x + d /\ x + d \in Nat
      <4> HIDE DEF k
      <4> QED BY <3>1, Multiples
    <3> HIDE DEF x, k
    <3>5. p \in Fixed(x) /\ \A i \in 1..k : Slice(p, (i - 1) * d, i * d) = s[i]
      BY <3>2 DEF x
    <3> HIDE DEF p, e
    <3>6. Joined(e, x + d, p, x, s[k + 1])
      BY <3>1, <3>3, <3>4, <3>5, FieldsJoined
    <3>7. e \in Fixed(x + d) /\ Begins(e, e, x + d)
      <4>1. e \in Fixed(x + d)
        BY <3>6 DEF Joined
      <4> QED BY <3>4, <4>1, FixedIs DEF Begins
    <3>8. Begins(e, p, x) /\ Slice(e, x, x + d) = s[k + 1]
      BY <3>6, <3>7 DEF Joined
    <3>9. ASSUME NEW i \in 1..k PROVE Slice(e, (i - 1) * d, i * d) = s[i]
      <4>1. i - 1 \in Nat /\ i \in Nat /\ i - 1 <= i /\ i <= k /\ k \in Nat
        BY <3>1
      <4>2. /\ (i - 1) * d \in Nat /\ i * d \in Nat /\ (i - 1) * d <= i * d /\ i * d <= k * d
        BY <4>1, Multiples
      <4>3. (i - 1) * d \in 0..x /\ i * d \in (i - 1) * d..x
        BY <3>4, <4>2 DEF x
      <4>4. Slice(e, (i - 1) * d, i * d) = Slice(p, (i - 1) * d, i * d)
        BY <3>4, <3>5, <3>8, <4>3, SliceBegins
      <4> QED BY <3>5, <4>4
    <3>10. Slice(e, k * d, (k + 1) * d) = s[k + 1]
      BY <3>4, <3>8 DEF x
    <3>11. \A i \in 1..k + 1 : i \in 1..k \/ (i = k + 1 /\ i - 1 = k)
      BY <3>1
    <3>12. \A i \in 1..k + 1 : Slice(e, (i - 1) * d, i * d) = s[i]
      BY <3>9, <3>10, <3>11
    <3>13. Found(e, k + 1)
      BY <3>4, <3>7, <3>12
    <3> HIDE DEF Found
    <3> QED BY <3>1, <3>13 DEF e
  <2> HIDE DEF found
  <2>4. m - 1 \in Nat /\ (m - 1) + 1 = m /\ m - 1 < m
    BY <1>3
  <2>5. m - 1 \in found
    BY <2>2, <2>3, <2>4, AllNaturals
  <2>6. Found(f[m], m)
    <3> HIDE DEF Found
    <3> QED BY <2>4, <2>5 DEF found
  <2> QED BY <2>1, <2>6
<1> QED BY <1>2, <1>3

\* What is cut into elements of one length consists of them.
LEMMA CutIsWhole ==
  ASSUME NEW m \in Nat, NEW d \in Nat, NEW b \in Seq(Byte), Len(b) = m * d,
         NEW s, s = [i \in 1..m |-> Slice(b, (i - 1) * d, i * d)]
  PROVE  FlattenSeq(s) = b
<1>1. Len(s) = m /\ m * d \in Nat
  OBVIOUS
<1>2. CASE m = 0
  <2>1. FlattenSeq(s) = s /\ s = << >>
    BY <1>1, <1>2 DEF FlattenSeq
  <2>2. m * d = 0
    BY <1>2
  <2>3. Len(b) = 0
    BY <2>2
  <2>4. b = << >>
    BY <2>3
  <2> QED BY <2>1, <2>4
<1>3. CASE m # 0
  <2>0. \E f : Unrolled(f, s, m)
    BY <1>1, <1>3, FlattenIs
  <2>1. PICK f : /\ f[1] = s[1] /\ FlattenSeq(s) = f[m]
                 /\ \A i \in Nat \ {0} : i < m => f[i + 1] = f[i] \o s[i + 1]
    BY <2>0 DEF Unrolled
  <2> DEFINE whole == {n \in Nat : n < m => f[n + 1] = Slice(b, 0, (n + 1) * d)}
  <2>2. 0 \in whole
    <3>1. 1 - 1 = 0 /\ 0 * d = 0 /\ 1 * d = d /\ 0 + 1 = 1 /\ 1 \in 1..m
      BY <1>3
    <3>2. s[1] = Slice(b, (1 - 1) * d, 1 * d)
      BY <3>1
    <3> QED BY <2>1, <3>1, <3>2
  <2>3. ASSUME NEW n \in Nat, n \in whole PROVE n + 1 \in whole
    <3> SUFFICES ASSUME n + 1 < m PROVE f[n + 2] = Slice(b, 0, (n + 2) * d)
      <4>1. n + 1 \in Nat /\ (n + 1) + 1 = n + 2
        OBVIOUS
      <4> QED BY <4>1
    <3> DEFINE k == n + 1
               x == k * d
               y == (k + 1) * d
    <3>1. /\ k \in Nat \ {0} /\ k < m /\ k + 1 = n + 2 /\ k + 1 \in 1..m /\ (k + 1) - 1 = k
          /\ k + 1 \in Nat /\ k <= k + 1 /\ k + 1 <= m
      OBVIOUS
    <3>2. f[k] = Slice(b, 0, x)
      BY <2>3
    <3> HIDE DEF k
    <3>3. s[k + 1] = Slice(b, x, y)
      BY <3>1
    <3>4. x \in Nat /\ y \in Nat /\ x <= y /\ y <= m * d
      BY <3>1, Multiples
    <3> HIDE DEF x, y
    <3>5. 0 \in Nat /\ x \in 0..Len(b) /\ y \in x..Len(b)
      BY <1>1, <3>4
    <3>6. Slice(b, 0, x) \o Slice(b, x, y) = Slice(b, 0, y)
      BY <3>5, SlicesJoin
    <3>7. f[k + 1] = f[k] \o s[k + 1]
      BY <2>1, <3>1
    <3>8. f[k + 1] = Slice(b, 0, y)
      BY <3>2, <3>3, <3>6, <3>7
    <3> QED BY <3>1, <3>8 DEF y
  <2> HIDE DEF whole
  <2>4. m - 1 \in Nat /\ (m - 1) + 1 = m /\ m - 1 < m
    BY <1>3
  <2>5. m - 1 \in whole
    BY <2>2, <2>3, <2>4, AllNaturals
  <2>6. f[m] = Slice(b, 0, m * d)
    BY <2>4, <2>5 DEF whole
  <2> QED BY <2>1, <2>6, SliceAll
<1> QED BY <1>2, <1>3

-----------------------------------------------------------------------------
(***************************************************************************)
(* Summaries and snapshots.                                                *)
(***************************************************************************)

\* A number that fits its bytes is read back from them.
LEMMA NumberIs ==
  /\ \A x \in u64 : to_le_bytes(x, U64_LEN) \in Fixed(U64_LEN)
                    /\ read_le(to_le_bytes(x, U64_LEN)) = x
  /\ \A x \in u32 : to_le_bytes(x, U32_LEN) \in Fixed(U32_LEN)
                    /\ read_le(to_le_bytes(x, U32_LEN)) = x
<1>1. /\ U32_LEN \in Nat /\ U64_LEN \in Nat
      /\ Weight[U32_LEN] \in Nat \ {0} /\ Weight[U64_LEN] \in Nat \ {0}
  BY LengthsAre, WeightIs
<1>2. /\ \A x \in u64 : x \in Nat /\ x < Weight[U64_LEN]
      /\ \A x \in u32 : x \in Nat /\ x < Weight[U32_LEN]
  BY <1>1 DEF u32, u64
<1> QED BY <1>1, <1>2, EncodedIsDecoded

\* The first field of what begins with it.
LEMMA FirstSlice ==
  ASSUME NEW n \in Nat, NEW p \in Fixed(n), NEW b, Begins(b, p, n)
  PROVE  Slice(b, 0, n) = p
<1>1. 0 \in 0..n /\ n \in 0..n /\ p \in Seq(Byte) /\ Len(p) = n
  BY FixedIs
<1>2. Slice(b, 0, n) = Slice(p, 0, n)
  BY <1>1, SliceBegins
<1> QED BY <1>1, <1>2, SliceAll

LEMMA SummaryDecoded ==
  ASSUME NEW s \in EventSummary
  PROVE  /\ EncodeSummary(s) \in Fixed(ENCODED_LEN)
         /\ DecodeSummary(EncodeSummary(s)) = Ok(s)
<1> DEFINE u == U64_LEN
           u2 == 2 * U64_LEN
           v == 2 * U64_LEN + ADDRESS_LEN
           l == ENCODED_LEN
           f1 == to_le_bytes(s.block_timestamp, U64_LEN)
           f2 == to_le_bytes(s.sequence_nonce, U64_LEN)
           f3 == s.actor_address
           f4 == s.payload_digest
           e2 == f1 \o f2
           e3 == e2 \o f3
           e == e3 \o f4
<1>1. /\ s.block_timestamp \in u64 /\ s.sequence_nonce \in u64
      /\ f3 \in Fixed(ADDRESS_LEN) /\ f4 \in Fixed(WORD_LEN)
  BY DEF EventSummary
<1>2. /\ f1 \in Fixed(u) /\ f2 \in Fixed(u)
      /\ read_le(f1) = s.block_timestamp /\ read_le(f2) = s.sequence_nonce
  BY <1>1, NumberIs
<1>3. /\ u \in Nat /\ u2 \in Nat /\ v \in Nat /\ l \in Nat /\ ADDRESS_LEN \in Nat /\ WORD_LEN \in Nat
      /\ u2 = u + u /\ v = u2 + ADDRESS_LEN /\ l = v + WORD_LEN
  BY LengthsAre DEF ENCODED_LEN
<1>4. EncodeSummary(s) = e
  BY DEF EncodeSummary
<1>5. s = [block_timestamp |-> s.block_timestamp, sequence_nonce |-> s.sequence_nonce,
           actor_address |-> f3, payload_digest |-> f4]
  BY DEF EventSummary
<1>6. e2 = f1 \o f2 /\ e3 = e2 \o f3 /\ e = e3 \o f4
  OBVIOUS
<1> HIDE DEF u, u2, v, l, f1, f2, f3, f4, e2, e3, e
<1>7. Joined(e2, u2, f1, u, f2)
  BY <1>2, <1>3, <1>6, FieldsJoined
<1>8. Joined(e3, v, e2, u2, f3)
  <2>1. e2 \in Fixed(u2)
    BY <1>7 DEF Joined
  <2> QED BY <1>1, <1>3, <1>6, <2>1, FieldsJoined
<1>9. Joined(e, l, e3, v, f4)
  <2>1. e3 \in Fixed(v)
    BY <1>8 DEF Joined
  <2> QED BY <1>1, <1>3, <1>6, <2>1, FieldsJoined
<1>10. e \in Fixed(l) /\ e \in Seq(Byte) /\ Len(e) = l /\ Begins(e, e, l)
  <2>1. e \in Fixed(l)
    BY <1>9 DEF Joined
  <2> QED BY <1>3, <2>1, FixedIs DEF Begins
<1>11. Begins(e, e3, v) /\ Slice(e, v, l) = f4
  BY <1>9, <1>10 DEF Joined
<1>12. Begins(e, e2, u2) /\ Slice(e, u2, v) = f3
  BY <1>8, <1>11 DEF Joined
<1>13. Begins(e, f1, u) /\ Slice(e, u, u2) = f2
  BY <1>7, <1>12 DEF Joined
<1>14. Slice(e, 0, u) = f1
  BY <1>2, <1>3, <1>13, FirstSlice
<1>15. DecodeSummary(e) = Ok([block_timestamp |-> read_le(Slice(e, 0, u)),
                             sequence_nonce  |-> read_le(Slice(e, u, u2)),
                             actor_address   |-> Slice(e, u2, v),
                             payload_digest  |-> Slice(e, v, l)])
  <2>1. Len(e) = ENCODED_LEN
    BY <1>10 DEF l
  <2> QED BY <2>1 DEF DecodeSummary, u, u2, v, l
<1>16. DecodeSummary(e) = Ok(s)
  BY <1>2, <1>5, <1>11, <1>12, <1>13, <1>14, <1>15
<1> QED BY <1>4, <1>10, <1>16 DEF l

LEMMA SummaryEncoded ==
  ASSUME NEW e \in Fixed(ENCODED_LEN), NEW s, s = DecodeSummary(e).value
  PROVE  s \in EventSummary /\ EncodeSummary(s) = e
<1> DEFINE u == U64_LEN
           u2 == 2 * U64_LEN
           v == 2 * U64_LEN + ADDRESS_LEN
           l == ENCODED_LEN
<1>1. /\ u \in Nat /\ u2 \in Nat /\ v \in Nat /\ l \in Nat /\ ADDRESS_LEN \in Nat /\ WORD_LEN \in Nat
      /\ u2 - u = u /\ v - u2 = ADDRESS_LEN /\ l - v = WORD_LEN /\ u - 0 = u
      /\ u \in 0..l /\ u2 \in u..l /\ v \in u2..l /\ l \in v..l
      /\ u2 \in 0..l /\ v \in 0..l /\ l \in 0..l
  BY LengthsAre DEF ENCODED_LEN
<1>2. e \in Seq(Byte) /\ Len(e) = l
  BY <1>1, FixedIs
<1>3. s = [block_timestamp |-> read_le(Slice(e, 0, u)), sequence_nonce |-> read_le(Slice(e, u, u2)),
           actor_address |-> Slice(e, u2, v), payload_digest |-> Slice(e, v, l)]
  <2> DEFINE t == [block_timestamp |-> read_le(Slice(e, 0, u)),
                   sequence_nonce |-> read_le(Slice(e, u, u2)),
                   actor_address |-> Slice(e, u2, v), payload_digest |-> Slice(e, v, l)]
  <2>1. DecodeSummary(e) = Ok(t)
    BY <1>2 DEF DecodeSummary
  <2> HIDE DEF t
  <2>2. s = t
    BY <2>1, ResultIs
  <2> QED BY <2>2 DEF t
<1> HIDE DEF u2, v, l
<1>4. /\ Slice(e, 0, u) \in Fixed(u) /\ Slice(e, u, u2) \in Fixed(u)
      /\ Slice(e, u2, v) \in Fixed(ADDRESS_LEN) /\ Slice(e, v, l) \in Fixed(WORD_LEN)
  <2> HIDE DEF u
  <2> QED BY <1>1, <1>2, SliceIs
<1>5. /\ read_le(Slice(e, 0, u)) \in u64 /\ read_le(Slice(e, u, u2)) \in u64
      /\ to_le_bytes(read_le(Slice(e, 0, u)), u) = Slice(e, 0, u)
      /\ to_le_bytes(read_le(Slice(e, u, u2)), u) = Slice(e, u, u2)
  BY <1>1, <1>4, DecodedIsEncoded DEF u64
<1>6. s \in EventSummary
  BY <1>3, <1>4, <1>5 DEF EventSummary
<1>7. EncodeSummary(s) = Slice(e, 0, u) \o Slice(e, u, u2) \o Slice(e, u2, v) \o Slice(e, v, l)
  BY <1>3, <1>5 DEF EncodeSummary
<1> HIDE DEF u
<1>8. /\ Slice(e, 0, u) \o Slice(e, u, u2) = Slice(e, 0, u2)
      /\ Slice(e, 0, u2) \o Slice(e, u2, v) = Slice(e, 0, v)
      /\ Slice(e, 0, v) \o Slice(e, v, l) = Slice(e, 0, l)
  BY <1>1, <1>2, SlicesJoin
<1>9. Slice(e, 0, l) = e
  BY <1>2, SliceAll
<1> QED BY <1>6, <1>7, <1>8, <1>9

\* How the bytes e of the snapshot x are laid out.
LaidOut(e, x) ==
  /\ e \in Seq(Byte) /\ Len(e) = FIXED_HEADER_LEN + Len(x.event_summaries) * ENCODED_LEN
  /\ Slice(e, 0, U64_LEN) = to_le_bytes(x.epoch_index, U64_LEN)
  /\ Slice(e, U64_LEN, FIXED_HEADER_LEN) = to_le_bytes(FIXED_HEADER_LEN, U32_LEN)
  /\ \A i \in 1..Len(x.event_summaries) :
       Slice(Slice(e, FIXED_HEADER_LEN, Len(e)), (i - 1) * ENCODED_LEN, i * ENCODED_LEN)
         = EncodeSummary(x.event_summaries[i])

LEMMA SnapshotDecoded ==
  ASSUME NEW x \in EpochStateSnapshot, Len(x.event_summaries) <= MAX_EVENT_SUMMARIES
  PROVE  \E e \in Seq(Byte) :
           EncodeSnapshot(x) = Ok(e) /\ DecodeSnapshot(e) = Ok(x) /\ LaidOut(e, x)
<1> DEFINE u == U64_LEN
           h == FIXED_HEADER_LEN
           d == ENCODED_LEN
           s == x.event_summaries
           m == Len(s)
           codes == [i \in DOMAIN s |-> EncodeSummary(s[i])]
           z == m * d
           l == h + z
           f1 == to_le_bytes(x.epoch_index, U64_LEN)
           f2 == to_le_bytes(FIXED_HEADER_LEN, U32_LEN)
           f3 == FlattenSeq(codes)
           e2 == f1 \o f2
           e == e2 \o f3
<1>1. /\ x.epoch_index \in u64 /\ s \in Seq(EventSummary)
      /\ x = [epoch_index |-> x.epoch_index, event_summaries |-> s]
  BY DEF EpochStateSnapshot
<1>2. /\ u \in Nat /\ h \in Nat /\ d \in Nat \ {0} /\ U32_LEN \in Nat /\ h = u + U32_LEN
      /\ m \in Nat /\ DOMAIN s = 1..m /\ \A i \in 1..m : s[i] \in EventSummary
  BY <1>1, LengthsAre DEF FIXED_HEADER_LEN, ENCODED_LEN
<1>3. f1 \in Fixed(u) /\ read_le(f1) = x.epoch_index
  BY <1>1, NumberIs
<1>4. f2 \in Fixed(U32_LEN) /\ read_le(f2) = h
  <2>1. FIXED_HEADER_LEN < Weight[U32_LEN] /\ Weight[U32_LEN] \in Nat
    BY SszAssumption, LengthsAre, WeightIs
  <2>2. FIXED_HEADER_LEN \in u32
    BY <1>2, <2>1 DEF u32
  <2> QED BY <2>2, NumberIs
<1>5. /\ codes \in [1..m -> Fixed(d)]
      /\ \A i \in 1..m : codes[i] = EncodeSummary(s[i]) /\ DecodeSummary(codes[i]) = Ok(s[i])
  <2>1. codes = [i \in 1..m |-> EncodeSummary(s[i])]
    BY <1>2
  <2> HIDE DEF codes
  <2> QED BY <1>2, <2>1, SummaryDecoded
<1>6. EncodeSnapshot(x) = Ok(e)
  <2>1. ~(Len(x.event_summaries) > MAX_EVENT_SUMMARIES)
    BY <1>2, LengthsAre
  <2> QED BY <2>1 DEF EncodeSnapshot
<1> HIDE DEF u, h, d, s, m, codes
<1>7. z \in Nat /\ l \in Nat
  BY <1>2
<1>8. f3 \in Fixed(z) /\ \A i \in 1..m : Slice(f3, (i - 1) * d, i * d) = codes[i]
  BY <1>2, <1>5, FlattenUniform
<1>9. e2 = f1 \o f2 /\ e = e2 \o f3 /\ l = h + z
  OBVIOUS
<1> HIDE DEF f1, f2, f3, e2, e, z, l
<1>10. Joined(e2, h, f1, u, f2)
  BY <1>2, <1>3, <1>4, <1>9, FieldsJoined
<1>11. Joined(e, l, e2, h, f3)
  <2>1. e2 \in Fixed(h)
    BY <1>10 DEF Joined
  <2> QED BY <1>2, <1>7, <1>8, <1>9, <2>1, FieldsJoined
<1>12. e \in Seq(Byte) /\ Len(e) = l /\ Begins(e, e, l)
  <2>1. e \in Fixed(l)
    BY <1>11 DEF Joined
  <2> QED BY <1>7, <2>1, FixedIs DEF Begins
<1>13. Begins(e, e2, h) /\ Slice(e, h, l) = f3
  BY <1>11, <1>12 DEF Joined
<1>14. Begins(e, f1, u) /\ Slice(e, u, h) = f2
  BY <1>10, <1>13 DEF Joined
<1>15. Slice(e, 0, u) = f1
  BY <1>2, <1>3, <1>14, FirstSlice
<1>16. /\ Len(f3) = z /\ z % d = 0 /\ z \div d = m
  <2>1. Len(f3) = z
    BY <1>7, <1>8, FixedIs
  <2>2. (0 + m * d) \div d = (0 \div d) + m /\ (0 + m * d) % d = 0 % d
    BY <1>2, MoreMultiples
  <2>3. 0 + m * d = m * d /\ m * d \in Nat
    BY <1>2
  <2>4. 0 \div d = 0 /\ 0 % d = 0 /\ 0 + m = m
    BY <1>2
  <2> QED BY <2>1, <2>2, <2>3, <2>4 DEF z
<1> DEFINE t == [i \in 1..m |-> DecodeSummary(Slice(f3, (i - 1) * d, i * d)).value]
<1>17. DecodeSnapshot(e) = Ok([epoch_index |-> read_le(Slice(e, 0, u)), event_summaries |-> t])
  <2>1. /\ Slice(e, FIXED_HEADER_LEN, Len(e)) = f3
        /\ ~(Len(e) < FIXED_HEADER_LEN)
        /\ read_le(Slice(e, U64_LEN, FIXED_HEADER_LEN)) = FIXED_HEADER_LEN
    <3>1. Slice(e, h, Len(e)) = f3 /\ ~(Len(e) < h) /\ read_le(Slice(e, u, h)) = h
      BY <1>2, <1>4, <1>7, <1>9, <1>12, <1>13, <1>14
    <3> QED BY <3>1 DEF h, u
  <2>2. Len(f3) % ENCODED_LEN = 0 /\ Len(f3) \div ENCODED_LEN = m /\ ~(m > MAX_EVENT_SUMMARIES)
    <3>1. ~(m > MAX_EVENT_SUMMARIES)
      BY <1>2, LengthsAre DEF m, s
    <3> QED BY <1>16, <3>1 DEF d
  <2> QED BY <2>1, <2>2 DEF DecodeSnapshot, u, d
<1>18. t = s
  <2>1. ASSUME NEW i \in 1..m PROVE t[i] = s[i]
    <3>1. Slice(f3, (i - 1) * d, i * d) = codes[i]
      BY <1>8
    <3>2. t[i] = DecodeSummary(codes[i]).value
      BY <3>1
    <3>3. DecodeSummary(codes[i]) = Ok(s[i])
      BY <1>5
    <3> QED BY <3>2, <3>3, ResultIs
  <2>2. DOMAIN t = 1..m /\ t = [i \in 1..m |-> t[i]] /\ s = [i \in 1..m |-> s[i]]
    BY <1>1, <1>2
  <2> HIDE DEF t
  <2> QED BY <2>1, <2>2
<1> HIDE DEF t
<1>19. DecodeSnapshot(e) = Ok(x)
  BY <1>1, <1>3, <1>15, <1>17, <1>18
<1>20. LaidOut(e, x)
  <2>1. e \in Seq(Byte) /\ Len(e) = h + m * d
    BY <1>9, <1>12 DEF z
  <2>2. Slice(e, h, Len(e)) = f3
    BY <1>12, <1>13
  <2>3. \A i \in 1..m : Slice(Slice(e, h, Len(e)), (i - 1) * d, i * d) = EncodeSummary(s[i])
    BY <1>5, <1>8, <2>2
  <2>4. Slice(e, 0, u) = to_le_bytes(x.epoch_index, U64_LEN)
        /\ Slice(e, u, h) = to_le_bytes(FIXED_HEADER_LEN, U32_LEN)
    BY <1>14, <1>15 DEF f1, f2
  <2> QED BY <2>1, <2>3, <2>4 DEF LaidOut, h, d, m, s, u
<1> QED BY <1>6, <1>12, <1>19, <1>20

LEMMA SnapshotFails ==
  ASSUME NEW x \in EpochStateSnapshot
  PROVE  /\ EncodeSnapshot(x).ok \in BOOLEAN
         /\ EncodeSnapshot(x).ok <=> Len(x.event_summaries) <= MAX_EVENT_SUMMARIES
<1>0. Len(x.event_summaries) \in Nat /\ MAX_EVENT_SUMMARIES \in Nat
  BY LengthsAre DEF EpochStateSnapshot
<1>1. CASE Len(x.event_summaries) > MAX_EVENT_SUMMARIES
  <2>1. EncodeSnapshot(x) = Err("ListTooLong")
    BY <1>1 DEF EncodeSnapshot
  <2>2. EncodeSnapshot(x).ok = FALSE
    BY <2>1, ResultIs
  <2>3. ~(Len(x.event_summaries) <= MAX_EVENT_SUMMARIES)
    BY <1>0, <1>1
  <2> QED BY <2>2, <2>3
<1>2. CASE Len(x.event_summaries) <= MAX_EVENT_SUMMARIES
  <2>1. PICK e : EncodeSnapshot(x) = Ok(e)
    BY <1>2, SnapshotDecoded
  <2>2. EncodeSnapshot(x).ok = TRUE
    BY <2>1, ResultIs
  <2> QED BY <1>2, <2>2
<1> QED BY <1>0, <1>1, <1>2

LEMMA SnapshotEncoded ==
  ASSUME NEW e \in Seq(Byte), DecodeSnapshot(e).ok
  PROVE  EncodeSnapshot(DecodeSnapshot(e).value) = Ok(e)
<1> DEFINE u == U64_LEN
           h == FIXED_HEADER_LEN
           d == ENCODED_LEN
           l == Len(e)
           body == Slice(e, h, l)
           m == Len(body) \div d
           t == [i \in 1..m |-> DecodeSummary(Slice(body, (i - 1) * d, i * d)).value]
           x == [epoch_index |-> read_le(Slice(e, 0, u)), event_summaries |-> t]
<1>1. /\ ~(l < h) /\ read_le(Slice(e, u, h)) = h /\ Len(body) % d = 0 /\ ~(m > MAX_EVENT_SUMMARIES)
      /\ DecodeSnapshot(e) = Ok(x)
  <2> DEFINE Failed == \E why : DecodeSnapshot(e) = Err(why)
  <2>1. ~Failed
    <3>1. ASSUME NEW why, DecodeSnapshot(e) = Err(why) PROVE FALSE
      <4>1. DecodeSnapshot(e).ok = FALSE
        BY <3>1, ResultIs
      <4> QED BY <4>1
    <3> QED BY <3>1
  <2>2. (l < h) => DecodeSnapshot(e) = Err("Truncated")
    BY DEF DecodeSnapshot
  <2>3. ~(l < h) /\ read_le(Slice(e, u, h)) # h => DecodeSnapshot(e) = Err("InvalidOffset")
    BY DEF DecodeSnapshot
  <2>4. ~(l < h) /\ read_le(Slice(e, u, h)) = h /\ Len(body) % d # 0
          => DecodeSnapshot(e) = Err("MisalignedList")
    BY DEF DecodeSnapshot
  <2>5. ~(l < h) /\ read_le(Slice(e, u, h)) = h /\ Len(body) % d = 0 /\ m > MAX_EVENT_SUMMARIES
          => DecodeSnapshot(e) = Err("ListTooLong")
    BY DEF DecodeSnapshot
  <2>6. ~(l < h) /\ read_le(Slice(e, u, h)) = h /\ Len(body) % d = 0 /\ ~(m > MAX_EVENT_SUMMARIES)
          => DecodeSnapshot(e) = Ok(x)
    BY DEF DecodeSnapshot
  <2> HIDE DEF u, h, d, l, body, m, x
  <2> QED BY <2>1, <2>2, <2>3, <2>4, <2>5, <2>6
<1>2. DecodeSnapshot(e).value = x
  <2> HIDE DEF x
  <2> QED BY <1>1, ResultIs
<1>3. /\ u \in Nat /\ h \in Nat /\ d \in Nat \ {0} /\ U32_LEN \in Nat /\ l \in Nat
      /\ h - u = U32_LEN /\ u - 0 = u /\ u <= h
  BY LengthsAre DEF FIXED_HEADER_LEN, ENCODED_LEN
<1>4. EncodeSnapshot(x) = Ok(to_le_bytes(read_le(Slice(e, 0, u)), u) \o to_le_bytes(h, U32_LEN)
                               \o FlattenSeq([i \in DOMAIN t |-> EncodeSummary(t[i])]))
  <2>1. x.epoch_index = read_le(Slice(e, 0, u)) /\ x.event_summaries = t
    OBVIOUS
  <2>2. ~(Len(t) > MAX_EVENT_SUMMARIES)
    <3>1. Len(body) \in Nat
      <4>1. h \in Nat /\ l \in h..Len(e) /\ l - h \in Nat
        BY <1>1, <1>3
      <4> HIDE DEF h, l
      <4>2. body \in Fixed(l - h)
        BY <4>1, SliceIs
      <4> QED BY <4>1, <4>2, FixedIs
    <3> HIDE DEF body, d
    <3>2. m \in Nat
      BY <1>3, <3>1, DivMod
    <3> HIDE DEF m
    <3>3. Len(t) = m
      BY <3>2
    <3> QED BY <1>1, <3>3
  <2> HIDE DEF x, t
  <2> QED BY <2>1, <2>2 DEF EncodeSnapshot
<1> HIDE DEF x
<1> HIDE DEF u, h, d
<1>5. u \in 0..l /\ h \in u..l /\ l \in h..l /\ h \in 0..l /\ 0 \in Nat /\ l - h \in Nat
  BY <1>1, <1>3
<1>6. /\ Slice(e, 0, u) \in Fixed(u) /\ Slice(e, u, h) \in Fixed(U32_LEN)
      /\ body \in Seq(Byte) /\ Len(body) \in Nat
  <2>1. Slice(e, 0, u) \in Fixed(u)
    BY <1>3, <1>5, SliceIs
  <2>2. Slice(e, u, h) \in Fixed(U32_LEN)
    BY <1>3, <1>5, SliceIs
  <2>3. body \in Fixed(l - h)
    BY <1>3, <1>5, SliceIs
  <2> QED BY <1>5, <2>1, <2>2, <2>3, FixedIs
<1>7. to_le_bytes(read_le(Slice(e, 0, u)), u) = Slice(e, 0, u)
  BY <1>3, <1>6, DecodedIsEncoded
<1>8. to_le_bytes(h, U32_LEN) = Slice(e, u, h)
  BY <1>1, <1>3, <1>6, DecodedIsEncoded
<1>9. m \in Nat /\ Len(body) = m * d
  <2> HIDE DEF body
  <2>1. m \in Nat /\ m * d + (Len(body) % d) = Len(body)
    BY <1>3, <1>6, DivMod
  <2>2. m * d \in Nat
    BY <1>3, <2>1
  <2> HIDE DEF m
  <2> QED BY <1>1, <2>1, <2>2
<1> HIDE DEF m
<1> HIDE DEF body
<1>10. ASSUME NEW i \in 1..m PROVE EncodeSummary(t[i]) = Slice(body, (i - 1) * d, i * d)
  <2>1. i - 1 \in Nat /\ i \in Nat /\ i - 1 <= i /\ i <= m /\ (i - 1) + 1 = i
    BY <1>9
  <2>2. /\ (i - 1) * d \in Nat /\ i * d \in Nat /\ (i - 1) * d <= i * d /\ i * d <= m * d
        /\ i * d = (i - 1) * d + d
    <3>1. /\ (i - 1) * d \in Nat /\ i * d \in Nat /\ (i - 1) * d <= i * d
          /\ ((i - 1) + 1) * d = (i - 1) * d + d
      BY <1>3, <2>1, Multiples
    <3>2. i * d <= m * d
      BY <1>3, <1>9, <2>1, Multiples
    <3> QED BY <2>1, <3>1, <3>2
  <2> DEFINE from == (i - 1) * d
             to == i * d
             cut == Slice(body, from, to)
  <2>3. t[i] = DecodeSummary(cut).value
    OBVIOUS
  <2> HIDE DEF t, from, to
  <2>4. from \in Nat /\ to \in from..Len(body) /\ to - from = d
    BY <1>3, <1>9, <2>2 DEF from, to
  <2>5. cut \in Fixed(d)
    BY <1>6, <2>4, SliceIs
  <2> HIDE DEF cut
  <2>6. EncodeSummary(t[i]) = cut
    BY <2>3, <2>5, SummaryEncoded DEF d
  <2> QED BY <2>6 DEF cut, from, to
<1>11. FlattenSeq([i \in DOMAIN t |-> EncodeSummary(t[i])]) = body
  <2>1. DOMAIN t = 1..m
    OBVIOUS
  <2> HIDE DEF t
  <2> DEFINE s == [i \in DOMAIN t |-> EncodeSummary(t[i])]
  <2>2. s = [i \in 1..m |-> Slice(body, (i - 1) * d, i * d)]
    BY <1>10, <2>1
  <2>3. d \in Nat
    BY <1>3
  <2> HIDE DEF s
  <2>4. FlattenSeq(s) = body
    BY <1>6, <1>9, <2>2, <2>3, CutIsWhole
  <2> QED BY <2>4 DEF s
<1>12. /\ Slice(e, 0, u) \o Slice(e, u, h) = Slice(e, 0, h)
       /\ Slice(e, 0, h) \o body = e
  <2>1. /\ Slice(e, 0, u) \o Slice(e, u, h) = Slice(e, 0, h)
        /\ Slice(e, 0, h) \o Slice(e, h, l) = Slice(e, 0, l)
    BY <1>5, SlicesJoin
  <2> QED BY <2>1, SliceAll DEF body
<1> HIDE DEF t
<1>13. EncodeSnapshot(x) = Ok(e)
  BY <1>4, <1>7, <1>8, <1>11, <1>12
<1> QED BY <1>2, <1>13

-----------------------------------------------------------------------------
(***************************************************************************)
(* The bytes on their way.                                                 *)
(***************************************************************************)

\* What the bytes of the object consist of.
Alphabet == IF object.kind = "address" THEN Character ELSE Byte

\* The object is one of those that are encoded, its bytes are characters or
\* bytes as the kind has it, a batch has none, and the bytes of which nothing
\* was changed are the encoder's.
BytesInvariant ==
  /\ edits \in Nat
  /\ object.kind \in {"snapshot", "certificate", "batch", "address"}
  /\ object.kind = "snapshot" => object.value \in Snapshots
  /\ object.kind = "certificate" => object.value \in Certificates
  /\ object.kind = "address" => object.value \in Fixed(ADDRESS_LEN)
  /\ object.kind = "batch" => object.value \in Batches
  /\ bytes \in Seq(Alphabet)
  /\ edits = 0 => bytes = IF encoded.ok THEN encoded.value ELSE << >>

LEMMA ConstantsAre ==
  /\ Snapshots \subseteq EpochStateSnapshot /\ Certificates \subseteq CanonicalAccountCertificate
  /\ HexBase \in Nat \ {0, 1} /\ MaxEdits \in Nat
BY CanonicalBytesAssumption, HexAssumption

LEMMA AddressWritten ==
  ASSUME NEW v \in Fixed(ADDRESS_LEN)
  PROVE  MarshalHex(v) \in Seq(Character) /\ decodeFixedHex(MarshalHex(v), ADDRESS_LEN) = Ok(v)
<1>1. /\ DOMAIN v = 1..ADDRESS_LEN /\ v = [i \in 1..ADDRESS_LEN |-> v[i]]
      /\ \A i \in 1..ADDRESS_LEN : v[i] \in Nat
  <2>1. \A i \in 1..ADDRESS_LEN : v[i] \in Byte
    BY DEF Fixed
  <2>2. \A y \in Byte : y \in Nat
    BY LengthsAre DEF Byte
  <2> QED BY <2>1, <2>2 DEF Fixed
<1>2. ADDRESS_LEN \in Nat /\ HexBase \in Nat \ {0}
  BY LengthsAre, ConstantsAre
<1> QED BY <1>1, <1>2, WrittenIsRead

\* What an encoder returns, for every object.
LEMMA EncodedIs ==
  ASSUME NEW kind, NEW value, NEW r, r = Encode(kind, value)
  PROVE  /\ kind = "snapshot" => r = EncodeSnapshot(value)
         /\ kind = "certificate" => r = EncodeCertificate(value)
         /\ kind = "address" => r = Ok(MarshalHex(value))
         /\ kind = "batch" => r = Err("NoBytes")
<1>1. kind = "snapshot" => r = EncodeSnapshot(value)
  BY DEF Encode
<1>2. kind = "certificate" => r = EncodeCertificate(value)
  BY DEF Encode
<1>3. kind = "address" => r = Ok(MarshalHex(value))
  BY DEF Encode
<1>4. kind = "batch" => r = Err("NoBytes")
  BY DEF Encode
<1> QED BY <1>1, <1>2, <1>3, <1>4

LEMMA BytesBegin ==
  ASSUME BytesInit
  PROVE  BytesInvariant
<1>1. /\ object.kind \in {"snapshot", "certificate", "batch", "address"}
      /\ object.kind = "snapshot" => object.value \in Snapshots
      /\ object.kind = "certificate" => object.value \in Certificates
      /\ object.kind = "address" => object.value \in {c.address : c \in Certificates}
      /\ object.kind = "batch" => object.value \in Batches
  <2>1. CASE object \in [kind : {"snapshot"}, value : Snapshots]
    BY <2>1
  <2>2. CASE object \in [kind : {"certificate"}, value : Certificates]
    BY <2>2
  <2>3. CASE object \in [kind : {"batch"}, value : Batches]
    BY <2>3
  <2>4. CASE object \in [kind : {"address"}, value : {c.address : c \in Certificates}]
    BY <2>4
  <2> QED BY <2>1, <2>2, <2>3, <2>4 DEF BytesInit
<1>2. object.kind = "address" => object.value \in Fixed(ADDRESS_LEN)
  <2>1. \A c \in Certificates : c.address \in Fixed(ADDRESS_LEN)
    BY ConstantsAre DEF CanonicalAccountCertificate
  <2> QED BY <1>1, <2>1
<1>3. edits = 0 /\ bytes = IF encoded.ok THEN encoded.value ELSE << >>
  BY DEF BytesInit, encoded
<1>4. encoded.ok => encoded.value \in Seq(Alphabet)
  <2> SUFFICES ASSUME encoded.ok PROVE encoded.value \in Seq(Alphabet)
    OBVIOUS
  <2>1. CASE object.kind = "snapshot"
    <3> DEFINE x == object.value
    <3>1. encoded = EncodeSnapshot(x) /\ x \in EpochStateSnapshot
      BY <1>1, <2>1, EncodedIs, ConstantsAre DEF encoded
    <3>2. PICK e \in Seq(Byte) : EncodeSnapshot(x) = Ok(e)
      BY <3>1, SnapshotFails, SnapshotDecoded
    <3>3. encoded.value = e
      BY <3>1, <3>2, ResultIs
    <3> QED BY <2>1, <3>3 DEF Alphabet
  <2>2. CASE object.kind = "certificate"
    <3> DEFINE c == object.value
    <3>1. encoded = EncodeCertificate(c) /\ c \in CanonicalAccountCertificate
      BY <1>1, <2>2, EncodedIs, ConstantsAre DEF encoded
    <3>2. PICK e \in Fixed(CERTIFICATE_ENCODED_LEN) : EncodeCertificate(c) = Ok(e)
      BY <3>1, CertificateFails, CertificateDecoded DEF Resolvable
    <3>3. encoded.value = e
      BY <3>1, <3>2, ResultIs
    <3>4. CERTIFICATE_ENCODED_LEN \in Nat
      BY LengthsAre DEF CERTIFICATE_ENCODED_LEN
    <3>5. e \in Seq(Byte)
      BY <3>4, FixedIs
    <3> QED BY <2>2, <3>3, <3>5 DEF Alphabet
  <2>3. CASE object.kind = "batch"
    <3>1. encoded = Err("NoBytes")
      BY <2>3, EncodedIs DEF encoded
    <3>2. encoded.ok = FALSE
      BY <3>1, ResultIs
    <3> QED BY <3>2
  <2>4. CASE object.kind = "address"
    <3>1. encoded = Ok(MarshalHex(object.value))
      BY <2>4, EncodedIs DEF encoded
    <3>2. encoded.value = MarshalHex(object.value)
      BY <3>1, ResultIs
    <3> QED BY <1>2, <2>4, <3>2, AddressWritten DEF Alphabet
  <2> QED BY <1>1, <2>1, <2>2, <2>3, <2>4
<1>5. bytes \in Seq(Alphabet)
  BY <1>3, <1>4
<1> QED BY <1>1, <1>2, <1>3, <1>5 DEF BytesInvariant

\* The alphabet is kept whatever happens to the bytes.
LEMMA EditedIs ==
  ASSUME Edit, bytes \in Seq(Alphabet)
  PROVE  bytes' \in Seq(Alphabet)
<1> DEFINE S == Alphabet
<1>1. Zero \in S /\ Symbols \subseteq S
  <2>1. HexBase \in Nat \ {0, 1} /\ Radix \in Nat \ {0, 1} /\ HexBase - 1 \in Nat
    BY ConstantsAre, LengthsAre
  <2>2. CASE object.kind = "address"
    <3>1. \A d \in Nat : Lower(d) \in Character /\ Upper(d) \in Character
      BY DEF Character
    <3>2. Plus \in Character /\ Other \in Character
      BY DEF Character
    <3>3. \A d \in 0..HexBase - 1 : d \in Nat
      OBVIOUS
    <3> QED BY <2>1, <2>2, <3>1, <3>2, <3>3 DEF Zero, Symbols, Alphabet
  <2>3. CASE object.kind # "address"
    <3>1. 0 \in Byte
      BY <2>1 DEF Byte
    <3> QED BY <2>3, <3>1 DEF Zero, Symbols, Alphabet, Byte
  <2> QED BY <2>2, <2>3
<1> HIDE DEF S
<1>2. bytes \in Seq(S)
  BY DEF S
<1>3. ASSUME NEW i \in DOMAIN bytes, NEW b \in Symbols, bytes' = [bytes EXCEPT ![i] = b]
      PROVE  bytes' \in Seq(S)
  BY <1>1, <1>2, <1>3
<1>4. ASSUME NEW n \in {1, WORD_LEN, ENCODED_LEN}, n < Len(bytes),
             bytes' = SubSeq(bytes, 1, Len(bytes) - n)
      PROVE  bytes' \in Seq(S)
  <2>1. n \in Nat
    BY LengthsAre DEF ENCODED_LEN
  <2>2. Len(bytes) \in Nat /\ \A j \in 1..Len(bytes) - n : bytes[j] \in S
    BY <1>2, <2>1
  <2> QED BY <1>2, <1>4, <2>1, <2>2, SubSeqProperties
<1>5. ASSUME NEW n \in {1, WORD_LEN, ENCODED_LEN}, bytes' = bytes \o [i \in 1..n |-> Zero]
      PROVE  bytes' \in Seq(S)
  <2>1. n \in Nat
    BY LengthsAre DEF ENCODED_LEN
  <2>2. [i \in 1..n |-> Zero] \in Seq(S)
    BY <1>1, <2>1
  <2> QED BY <1>2, <1>5, <2>2, ConcatProperties
<1>6. bytes' \in Seq(S)
  BY <1>3, <1>4, <1>5 DEF Edit
<1> QED BY <1>6 DEF S

LEMMA BytesNext ==
  ASSUME BytesInvariant, [BytesStep]_bytesVars
  PROVE  BytesInvariant'
<1>1. CASE Edit
  <2>1. object' = object /\ edits' = edits + 1 /\ edits \in Nat
    BY <1>1 DEF Edit, BytesInvariant
  <2>2. bytes' \in Seq(Alphabet)
    BY <1>1, EditedIs DEF BytesInvariant
  <2>3. bytes' \in Seq(Alphabet')
    BY <2>1, <2>2 DEF Alphabet
  <2>4. edits' \in Nat /\ edits' # 0
    BY <2>1
  <2> QED BY <2>1, <2>3, <2>4 DEF BytesInvariant
<1>2. CASE UNCHANGED bytesVars
  BY <1>2 DEF bytesVars, BytesInvariant, Alphabet, encoded
<1> QED BY <1>1, <1>2 DEF BytesStep, Sent

LEMMA BytesInvariantHolds == BytesSpec => []BytesInvariant
<1>1. BytesInit => BytesInvariant
  BY BytesBegin
<1>2. BytesInvariant /\ [BytesStep]_bytesVars => BytesInvariant'
  BY BytesNext
<1> QED BY <1>1, <1>2, PTL DEF BytesSpec

LEMMA AgreeHolds ==
  ASSUME BytesInvariant
  PROVE  HexReadersAgree
<1> SUFFICES ASSUME object.kind = "address" PROVE HexReadersAgree
  BY DEF HexReadersAgree
<1> DEFINE go == decodeFixedHex(bytes, ADDRESS_LEN)
           rust == decode_fixed_hex(bytes, ADDRESS_LEN)
           signs == {i \in DOMAIN bytes : bytes[i] = Plus}
<1>1. edits = 0 => go = Ok(object.value)
  <2> SUFFICES ASSUME edits = 0 PROVE go = Ok(object.value)
    OBVIOUS
  <2>1. encoded = Ok(MarshalHex(object.value))
    BY EncodedIs DEF encoded
  <2>2. encoded.ok = TRUE /\ encoded.value = MarshalHex(object.value)
    BY <2>1, ResultIs
  <2>3. bytes = MarshalHex(object.value)
    BY <2>2 DEF BytesInvariant
  <2>4. object.value \in Fixed(ADDRESS_LEN)
    BY DEF BytesInvariant
  <2> QED BY <2>3, <2>4, AddressWritten
<1>2. bytes \in Seq(Character)
  BY DEF BytesInvariant, Alphabet
<1>3. /\ go.ok => rust = go
      /\ rust.ok /\ ~go.ok =>
           signs # {} /\ (\A i \in signs : i % 2 = 1)
           /\ rust = decodeFixedHex(Plain(bytes), ADDRESS_LEN)
  BY <1>2, ReadersAgree
<1> QED BY <1>1, <1>3 DEF HexReadersAgree

LEMMA ExactHolds ==
  ASSUME BytesInvariant
  PROVE  DecodesExactly
<1> SUFFICES ASSUME object.kind \in {"snapshot", "certificate"}
             PROVE  LET decoded == Decode(object.kind, bytes) IN
                    /\ edits = 0 /\ encoded.ok => decoded = Ok(object.value)
                    /\ decoded.ok => Encode(object.kind, decoded.value) = Ok(bytes)
  BY DEF DecodesExactly
<1>1. bytes \in Seq(Byte)
  BY DEF BytesInvariant, Alphabet
<1>2. edits = 0 /\ encoded.ok => bytes = encoded.value
  BY DEF BytesInvariant
<1>3. CASE object.kind = "snapshot"
  <2> DEFINE x == object.value
             d == DecodeSnapshot(bytes)
  <2>1. encoded = EncodeSnapshot(x) /\ x \in EpochStateSnapshot
    BY <1>3, EncodedIs, ConstantsAre DEF encoded, BytesInvariant
  <2>2. Decode(object.kind, bytes) = d
    BY <1>3 DEF Decode
  <2>3. ASSUME edits = 0, encoded.ok PROVE d = Ok(x)
    <3>1. PICK e \in Seq(Byte) : EncodeSnapshot(x) = Ok(e) /\ DecodeSnapshot(e) = Ok(x)
      BY <2>1, <2>3, SnapshotFails, SnapshotDecoded
    <3>2. encoded.value = e
      BY <2>1, <3>1, ResultIs
    <3> QED BY <1>2, <2>3, <3>1, <3>2
  <2>4. d.ok => EncodeSnapshot(d.value) = Ok(bytes)
    BY <1>1, SnapshotEncoded
  <2>5. Encode(object.kind, d.value) = EncodeSnapshot(d.value)
    BY <1>3, EncodedIs
  <2> QED BY <2>2, <2>3, <2>4, <2>5
<1>4. CASE object.kind = "certificate"
  <2> DEFINE c == object.value
             d == DecodeCertificate(bytes)
  <2>1. encoded = EncodeCertificate(c) /\ c \in CanonicalAccountCertificate
    BY <1>4, EncodedIs, ConstantsAre DEF encoded, BytesInvariant
  <2>2. Decode(object.kind, bytes) = d
    BY <1>4 DEF Decode
  <2>3. ASSUME edits = 0, encoded.ok PROVE d = Ok(c)
    <3>1. PICK e \in Fixed(CERTIFICATE_ENCODED_LEN) :
            EncodeCertificate(c) = Ok(e) /\ DecodeCertificate(e) = Ok(c)
      BY <2>1, <2>3, CertificateFails, CertificateDecoded DEF Resolvable
    <3>2. encoded.value = e
      BY <2>1, <3>1, ResultIs
    <3> QED BY <1>2, <2>3, <3>1, <3>2
  <2>4. d.ok => EncodeCertificate(d.value) = Ok(bytes)
    BY <1>1, CertificateEncoded
  <2>5. Encode(object.kind, d.value) = EncodeCertificate(d.value)
    BY <1>4, EncodedIs
  <2> QED BY <2>2, <2>3, <2>4, <2>5
<1> QED BY <1>3, <1>4

\* The readers of a fixture's hexadecimal strings agree with its writer, and
\* with each other but for the plus signs that Rust takes (wire.rs,
\* hex_decode; emes/types.go, decodeFixedHex).
THEOREM HexReadersAreOne == BytesSpec => []HexReadersAgree
<1>1. BytesInvariant => HexReadersAgree
  BY AgreeHolds
<1> QED BY <1>1, BytesInvariantHolds, PTL

\* The decoders of snapshots and certificates accept exactly what the encoders
\* make, whatever has happened to the bytes (decode.rs).
THEOREM DecodersAreExact == BytesSpec => []DecodesExactly
<1>1. BytesInvariant => DecodesExactly
  BY ExactHolds
<1> QED BY <1>1, BytesInvariantHolds, PTL

-----------------------------------------------------------------------------
(***************************************************************************)
(* Merkle trees.                                                           *)
(***************************************************************************)

LEMMA WidthGrows ==
  /\ \A i, j \in Nat : i < j => Width[i] < Width[j]
  /\ \A i \in Nat : i < Width[i]
<1>1. ASSUME NEW i \in Nat, NEW j \in Nat, i < j PROVE Width[i] < Width[j]
  <2> DEFINE grown == {d \in Nat : Width[i] < Width[i + d + 1]}
  <2>1. 0 \in grown
    <3>1. i + 0 + 1 = i + 1 /\ Width[i] \in Nat \ {0} /\ Width[i + 1] = 2 * Width[i]
      BY WidthIs
    <3>2. Width[i] < Width[i + 0 + 1]
      BY <3>1
    <3> QED BY <3>2
  <2>2. ASSUME NEW d \in Nat, d \in grown PROVE d + 1 \in grown
    <3>1. i + (d + 1) + 1 = (i + d + 1) + 1 /\ i + d + 1 \in Nat
      OBVIOUS
    <3>2. /\ Width[i + d + 1] \in Nat \ {0} /\ Width[i] \in Nat
          /\ Width[i + (d + 1) + 1] = 2 * Width[i + d + 1]
      BY <3>1, WidthIs
    <3>3. Width[i] < Width[i + (d + 1) + 1]
      BY <2>2, <3>2
    <3> QED BY <3>3
  <2> HIDE DEF grown
  <2>3. j - i - 1 \in Nat /\ i + (j - i - 1) + 1 = j
    BY <1>1
  <2>4. j - i - 1 \in grown
    BY <2>1, <2>2, <2>3, AllNaturals
  <2>5. Width[i] < Width[i + (j - i - 1) + 1]
    BY <2>4 DEF grown
  <2> QED BY <2>3, <2>5
<1>2. ASSUME NEW i \in Nat PROVE i < Width[i]
  <2> DEFINE above == {k \in Nat : k < Width[k]}
  <2>1. 0 \in above
    BY WidthIs
  <2>2. ASSUME NEW k \in Nat, k \in above PROVE k + 1 \in above
    <3>1. Width[k] \in Nat \ {0} /\ Width[k + 1] = 2 * Width[k] /\ k < Width[k]
      BY <2>2, WidthIs
    <3>2. k + 1 < Width[k + 1]
      BY <3>1
    <3> QED BY <3>2
  <2> HIDE DEF above
  <2>3. i \in above
    BY <2>1, <2>2, AllNaturals
  <2> QED BY <2>3 DEF above
<1> QED BY <1>1, <1>2

LEMMA HeightIs ==
  ASSUME NEW n \in Nat, NEW h, h = HeightOf(n)
  PROVE  h \in Nat /\ n <= Width[h] /\ \A k \in Nat : k < h => Width[k] < n
<1> DEFINE Least(x) == x \in 0..n /\ Width[x] >= n /\ \A k \in 0..x-1 : Width[k] < n
           below == {x \in Nat : \A k \in 0..x : Width[k] < n}
<1>1. \A k \in Nat : Width[k] \in Nat
  BY WidthIs
<1>2. \E x : Least(x)
  <2> SUFFICES ASSUME ~\E x : Least(x) PROVE FALSE
    OBVIOUS
  <2>1. n < Width[n]
    BY WidthGrows
  <2>2. ASSUME NEW x \in 0..n, \A k \in 0..x-1 : Width[k] < n PROVE Width[x] < n
    <3>1. ~(Width[x] >= n)
      BY <2>2
    <3> QED BY <1>1, <3>1
  <2>3. 0 \in below
    <3>1. 0 \in 0..n /\ \A k \in 0..0-1 : Width[k] < n
      OBVIOUS
    <3>2. Width[0] < n
      BY <2>2, <3>1
    <3>3. \A k \in 0..0 : k = 0
      OBVIOUS
    <3> QED BY <3>2, <3>3
  <2>4. ASSUME NEW x \in Nat, x \in below PROVE x + 1 \in below
    <3>1. x < n
      <4>1. ASSUME n \in 0..x PROVE FALSE
        BY <1>1, <2>1, <2>4, <4>1
      <4> QED BY <4>1
    <3>2. x + 1 \in 0..n /\ \A k \in 0..(x + 1) - 1 : Width[k] < n
      BY <2>4, <3>1
    <3>3. Width[x + 1] < n
      BY <2>2, <3>2
    <3>4. \A k \in 0..x + 1 : k = x + 1 \/ k \in 0..x
      OBVIOUS
    <3> QED BY <2>4, <3>3, <3>4
  <2> HIDE DEF below
  <2>5. n \in below
    BY <2>3, <2>4, AllNaturals
  <2>6. Width[n] < n
    BY <2>5 DEF below
  <2> QED BY <1>1, <2>1, <2>6
<1>3. HeightOf(n) = CHOOSE x \in 0..n : Width[x] >= n /\ \A k \in 0..x-1 : Width[k] < n
  BY DEF HeightOf
<1>4. Least(h)
  BY <1>2, <1>3
<1>5. \A k \in Nat : k < h => k \in 0..h-1
  BY <1>4
<1> QED BY <1>1, <1>4, <1>5

\* f[k] is the layer that lies k above the leaves.
Layers(f, c, h) ==
  /\ f[0] = [i \in 1..Width[h] |-> Leaf(c, i)]
  /\ \A k \in Nat : k < h => f[k + 1] = Above(f[k])

\* The height of the tree over c.
Height(c) == HeightOf(IF c = << >> THEN 1 ELSE Len(c))

LEMMA MerkleIs ==
  ASSUME NEW c, Height(c) \in Nat
  PROVE  \E f : Layers(f, c, Height(c)) /\ merkleize(c) = f[Height(c)][1]
<1> DEFINE h == Height(c)
           leaves == [i \in 1..Width[h] |-> Leaf(c, i)]
           IsBuilt(f, n) == f = [k \in 0..n |-> IF k = 0 THEN leaves ELSE Above(f[k - 1])]
           reached == {n \in Nat : \E f : IsBuilt(f, n)}
<1> HIDE DEF h, leaves
<1>1. 0 \in reached
  <2>1. IsBuilt([i \in 0..0 |-> leaves], 0)
    OBVIOUS
  <2> QED BY <2>1
<1>2. ASSUME NEW n \in Nat, n \in reached PROVE n + 1 \in reached
  <2>1. PICK f : IsBuilt(f, n)
    BY <1>2
  <2> DEFINE g == [i \in 0..n + 1 |-> IF i = n + 1 THEN Above(f[n]) ELSE f[i]]
  <2>2. ASSUME NEW i \in 0..n + 1
        PROVE  g[i] = IF i = 0 THEN leaves ELSE Above(g[i - 1])
    <3>1. CASE i = n + 1
      <4>1. i # 0 /\ i - 1 = n /\ n \in 0..n + 1 /\ n # n + 1
        BY <3>1
      <4>2. g[n] = f[n] /\ g[i] = Above(f[n])
        BY <3>1, <4>1
      <4> HIDE DEF g
      <4> QED BY <4>1, <4>2
    <3>2. CASE i # n + 1
      <4>1. i \in 0..n /\ g[i] = f[i]
        BY <3>2
      <4>2. i # 0 => i - 1 \in 0..n + 1 /\ i - 1 # n + 1
        BY <4>1
      <4>3. i # 0 => g[i - 1] = f[i - 1]
        BY <4>2
      <4>4. f[i] = IF i = 0 THEN leaves ELSE Above(f[i - 1])
        BY <2>1, <4>1
      <4> HIDE DEF g
      <4> QED BY <4>1, <4>3, <4>4
    <3> QED BY <3>1, <3>2
  <2>3. g = [i \in 0..n + 1 |-> g[i]]
    OBVIOUS
  <2> HIDE DEF g
  <2>4. IsBuilt(g, n + 1)
    BY <2>2, <2>3
  <2> HIDE DEF IsBuilt
  <2>5. n + 1 \in Nat /\ \E other : IsBuilt(other, n + 1)
    BY <2>4
  <2> QED BY <2>5
<1> HIDE DEF reached
<1>3. h \in Nat /\ \E f : IsBuilt(f, h)
  <2>1. h \in Nat
    BY DEF h
  <2>2. h \in reached
    BY <1>1, <1>2, <2>1, AllNaturals
  <2> QED BY <2>1, <2>2 DEF reached
<1> DEFINE v == CHOOSE f : IsBuilt(f, h)
<1>4. merkleize(c) = v[h][1]
  BY DEF merkleize, h, Height, leaves
<1>5. IsBuilt(v, h)
  <2> HIDE DEF IsBuilt
  <2> QED BY <1>3
<1> HIDE DEF v
<1>6. v[0] = leaves
  <2>1. 0 \in 0..h
    BY <1>3
  <2> QED BY <1>5, <2>1
<1>7. ASSUME NEW k \in Nat, k < h PROVE v[k + 1] = Above(v[k])
  <2>1. k + 1 \in 0..h /\ k + 1 # 0 /\ (k + 1) - 1 = k
    BY <1>3, <1>7
  <2>2. v[k + 1] = Above(v[(k + 1) - 1])
    BY <1>5, <2>1
  <2> QED BY <2>1, <2>2
<1>8. Layers(v, c, h)
  BY <1>6, <1>7 DEF Layers, leaves
<1> QED BY <1>4, <1>8 DEF h

\* s is a list of n elements.
Wide(s, n) == s = [i \in 1..n |-> s[i]]

LEMMA AboveIs ==
  ASSUME NEW n \in Nat, NEW s, Wide(s, 2 * n)
  PROVE  /\ Len(Above(s)) = n /\ Wide(Above(s), n)
         /\ \A i \in 1..n : Above(s)[i] = <<"SsrRoot", <<s[2*i - 1], s[2*i]>>>>
<1>1. DOMAIN s = 1..2 * n /\ 2 * n \in Nat
  BY DEF Wide
<1>2. Len(s) = 2 * n /\ (2 * n) \div 2 = n
  BY <1>1
<1>3. Above(s) = [i \in 1..n |-> hash_pair(s[2*i - 1], s[2*i])]
  BY <1>2 DEF Above
<1>4. DOMAIN Above(s) = 1..n
  BY <1>3
<1>5. Len(Above(s)) = n
  BY <1>4
<1>6. Wide(Above(s), n)
  BY <1>3 DEF Wide
<1> QED BY <1>3, <1>5, <1>6 DEF hash_pair, derive_commitment

\* Layers of one width have different layers above them if they are different.
LEMMA AboveTells ==
  ASSUME NEW n \in Nat, NEW s, Wide(s, 2 * n), NEW t, Wide(t, 2 * n), Above(s) = Above(t)
  PROVE  s = t
<1>1. ASSUME NEW i \in 1..n PROVE s[2*i - 1] = t[2*i - 1] /\ s[2*i] = t[2*i]
  <2>1. /\ Above(s)[i] = <<"SsrRoot", <<s[2*i - 1], s[2*i]>>>>
        /\ Above(t)[i] = <<"SsrRoot", <<t[2*i - 1], t[2*i]>>>>
    BY AboveIs
  <2>2. <<s[2*i - 1], s[2*i]>> = <<t[2*i - 1], t[2*i]>>
    BY <2>1
  <2> QED BY <2>2
<1>2. ASSUME NEW k \in 1..2 * n PROVE \E i \in 1..n : k = 2*i - 1 \/ k = 2*i
  <2>1. CASE k % 2 = 0
    <3>1. k \div 2 \in 1..n /\ k = 2 * (k \div 2)
      BY <2>1
    <3> QED BY <3>1
  <2>2. CASE k % 2 = 1
    <3> DEFINE m == k \div 2
    <3>1. m \in Nat /\ k = m * 2 + 1
      BY <2>2, DivMod
    <3> HIDE DEF m
    <3>2. m + 1 \in 1..n /\ k = 2 * (m + 1) - 1
      BY <3>1
    <3> QED BY <3>2
  <2> QED BY <2>1, <2>2
<1>3. \A k \in 1..2 * n : s[k] = t[k]
  BY <1>1, <1>2
<1> QED BY <1>3 DEF Wide

LEMMA LayersAre ==
  ASSUME NEW h \in Nat, NEW c, NEW f, Layers(f, c, h), NEW k \in Nat, NEW l \in Nat, k + l = h
  PROVE  Wide(f[k], Width[l])
<1> DEFINE good == {n \in Nat : n <= h => Wide(f[n], Width[h - n])}
<1>1. 0 \in good
  <2>1. h - 0 = h /\ f[0] = [i \in 1..Width[h] |-> Leaf(c, i)]
    BY DEF Layers
  <2>2. Wide(f[0], Width[h - 0])
    BY <2>1 DEF Wide
  <2> QED BY <2>2
<1>2. ASSUME NEW n \in Nat, n \in good PROVE n + 1 \in good
  <2> SUFFICES ASSUME n + 1 <= h PROVE Wide(f[n + 1], Width[h - (n + 1)])
    OBVIOUS
  <2> DEFINE w == Width[h - (n + 1)]
  <2>1. h - (n + 1) \in Nat /\ h - n = (h - (n + 1)) + 1 /\ n < h /\ n <= h
    OBVIOUS
  <2>2. w \in Nat /\ Width[h - n] = 2 * w
    BY <2>1, WidthIs
  <2> HIDE DEF w
  <2>3. Wide(f[n], 2 * w)
    BY <1>2, <2>1, <2>2
  <2>4. f[n + 1] = Above(f[n])
    BY <2>1 DEF Layers
  <2>5. Wide(f[n + 1], w)
    BY <2>2, <2>3, <2>4, AboveIs
  <2> QED BY <2>5 DEF w
<1> HIDE DEF good
<1>3. k \in good
  BY <1>1, <1>2, AllNaturals
<1>4. k <= h /\ h - k = l
  OBVIOUS
<1> QED BY <1>3, <1>4 DEF good

\* The layers f and e are the same, counted from the roots f[g] and e[h].
Meeting(f, g, e, h) == \A j, x, y \in Nat : x + j = g /\ y + j = h => f[x] = e[y]

\* Trees with the same root have the same layers, counted from the root.
LEMMA RootsMeet ==
  ASSUME NEW g \in Nat, NEW h \in Nat, g <= h, NEW c, NEW d, NEW f, NEW e,
         Layers(f, c, g), Layers(e, d, h), f[g][1] = e[h][1]
  PROVE  Meeting(f, g, e, h)
<1> DEFINE met == {j \in Nat : j <= g => f[g - j] = e[h - j]}
<1>1. 0 \in met
  <2>1. Wide(f[g], Width[0]) /\ Wide(e[h], Width[0])
    <3>1. g + 0 = g /\ h + 0 = h
      OBVIOUS
    <3> QED BY <3>1, LayersAre
  <2>2. g - 0 = g /\ h - 0 = h /\ Width[0] = 1
    BY WidthIs
  <2>3. f[g] = [i \in 1..1 |-> f[g][i]] /\ e[h] = [i \in 1..1 |-> e[h][i]]
    BY <2>1, <2>2 DEF Wide
  <2>4. \A i \in 1..1 : f[g][i] = e[h][i]
    OBVIOUS
  <2>5. f[g] = e[h]
    BY <2>3, <2>4
  <2> QED BY <2>2, <2>5
<1>2. ASSUME NEW j \in Nat, j \in met PROVE j + 1 \in met
  <2> SUFFICES ASSUME j + 1 <= g PROVE f[g - (j + 1)] = e[h - (j + 1)]
    OBVIOUS
  <2> DEFINE x == g - (j + 1)
             y == h - (j + 1)
             w == Width[j]
  <2>1. /\ x \in Nat /\ y \in Nat /\ x + 1 = g - j /\ y + 1 = h - j /\ x < g /\ y < h
        /\ x + (j + 1) = g /\ y + (j + 1) = h /\ j + 1 \in Nat
    OBVIOUS
  <2>2. w \in Nat /\ Width[j + 1] = 2 * w
    BY WidthIs
  <2>3. f[x + 1] = e[y + 1]
    BY <1>2, <2>1
  <2> HIDE DEF x, y, w
  <2>4. Wide(f[x], Width[j + 1]) /\ Wide(e[y], Width[j + 1])
    BY <2>1, LayersAre
  <2>5. Wide(f[x], 2 * w) /\ Wide(e[y], 2 * w)
    BY <2>2, <2>4
  <2>6. Above(f[x]) = Above(e[y])
    BY <2>1, <2>3 DEF Layers
  <2>7. f[x] = e[y]
    BY <2>2, <2>5, <2>6, AboveTells
  <2> QED BY <2>7 DEF x, y
<1> HIDE DEF met
<1>3. \A j \in Nat : j \in met
  BY <1>1, <1>2, AllNaturals
<1>4. ASSUME NEW j \in Nat, NEW x \in Nat, NEW y \in Nat, x + j = g, y + j = h
      PROVE  f[x] = e[y]
  <2>1. j <= g /\ g - j = x /\ h - j = y
    BY <1>4
  <2> QED BY <1>3, <2>1 DEF met
<1> QED BY <1>4 DEF Meeting

\* The leaves of a tree are chunks, which no hash is.
LEMMA RootsLevel ==
  ASSUME NEW g \in Nat, NEW h \in Nat, g <= h, NEW c, NEW d, NEW f, NEW e,
         Layers(f, c, g), Layers(e, d, h), f[g][1] = e[h][1], Leaf(c, 1) \in Fixed(WORD_LEN)
  PROVE  g = h
<1> SUFFICES ASSUME g < h PROVE FALSE
  OBVIOUS
<1>1. 0 \in Nat /\ 0 + g = g /\ h - g \in Nat /\ (h - g) + g = h
  OBVIOUS
<1>2. f[0] = e[h - g]
  <2>0. Meeting(f, g, e, h)
    BY RootsMeet
  <2>1. \A j, x, y \in Nat : x + j = g /\ y + j = h => f[x] = e[y]
    BY <2>0 DEF Meeting
  <2> QED BY <1>1, <2>1
<1> DEFINE y == h - g - 1
           w == Width[h - (y + 1)]
<1>3. y \in Nat /\ y + 1 = h - g /\ y < h /\ y + ((h - (y + 1)) + 1) = h
      /\ h - (y + 1) \in Nat
  OBVIOUS
<1>4. w \in Nat \ {0} /\ Width[(h - (y + 1)) + 1] = 2 * w /\ (h - (y + 1)) + 1 \in Nat
  BY <1>3, WidthIs
<1> HIDE DEF y, w
<1>5. Wide(e[y], 2 * w)
  BY <1>3, <1>4, LayersAre
<1>6. e[y + 1] = Above(e[y])
  BY <1>3 DEF Layers
<1>7. e[y + 1][1] = <<"SsrRoot", <<e[y][2*1 - 1], e[y][2*1]>>>>
  <2>1. 1 \in 1..w
    BY <1>4
  <2> DEFINE s == e[y]
  <2>2. w \in Nat /\ Wide(s, 2 * w)
    BY <1>4, <1>5
  <2> HIDE DEF s
  <2>3. \A i \in 1..w : Above(s)[i] = <<"SsrRoot", <<s[2*i - 1], s[2*i]>>>>
    BY <2>2, AboveIs
  <2>4. Above(s)[1] = <<"SsrRoot", <<s[2*1 - 1], s[2*1]>>>>
    BY <2>1, <2>3
  <2> QED BY <1>6, <2>4 DEF s
<1>8. f[0][1] = Leaf(c, 1)
  <2>1. 1 \in 1..Width[g]
    BY WidthIs
  <2>2. f[0] = [i \in 1..Width[g] |-> Leaf(c, i)]
    BY DEF Layers
  <2> QED BY <2>1, <2>2
<1>9. DOMAIN Leaf(c, 1) = 1..WORD_LEN
  BY DEF Fixed
<1>10. DOMAIN e[y + 1][1] = 1..2
  BY <1>7
<1>11. 1..WORD_LEN = 1..2
  BY <1>2, <1>3, <1>8, <1>9, <1>10
<1>12. WORD_LEN > 2 /\ WORD_LEN \in Nat
  BY SszAssumption, LengthsAre
<1>13. 3 \in 1..WORD_LEN /\ 3 \notin 1..2
  BY <1>12
<1> QED BY <1>11, <1>13

\* A root identifies the height of the tree and its leaves, and nothing else.
LEMMA MerkleBinds ==
  ASSUME NEW c, NEW d, Height(c) \in Nat, Height(d) \in Nat,
         Leaf(c, 1) \in Fixed(WORD_LEN), Leaf(d, 1) \in Fixed(WORD_LEN)
  PROVE  merkleize(c) = merkleize(d) <=>
           /\ Height(c) = Height(d)
           /\ \A i \in 1..Width[Height(c)] : Leaf(c, i) = Leaf(d, i)
<1> DEFINE g == Height(c)
           h == Height(d)
<1>1. PICK f : Layers(f, c, g) /\ merkleize(c) = f[g][1]
  BY MerkleIs
<1>2. PICK e : Layers(e, d, h) /\ merkleize(d) = e[h][1]
  BY MerkleIs
<1> HIDE DEF g, h
<1>3. g \in Nat /\ h \in Nat
  BY DEF g, h
<1>4. ASSUME merkleize(c) = merkleize(d)
      PROVE  g = h /\ \A i \in 1..Width[g] : Leaf(c, i) = Leaf(d, i)
  <2>1. f[g][1] = e[h][1]
    BY <1>1, <1>2, <1>4
  <2>2. CASE g <= h
    <3>1. g = h
      BY <1>1, <1>2, <1>3, <2>1, <2>2, RootsLevel
    <3>2. \A j, x, y \in Nat : x + j = g /\ y + j = h => f[x] = e[y]
      <4>1. Layers(f, c, g) /\ Layers(e, d, h)
        BY <1>1, <1>2
      <4>2. Meeting(f, g, e, h)
        BY <1>3, <2>1, <2>2, <4>1, RootsMeet
      <4> QED BY <4>2 DEF Meeting
    <3>3. 0 \in Nat /\ 0 + g = g /\ 0 + g = h
      BY <1>3, <3>1
    <3>4. f[0] = e[0]
      BY <1>3, <3>2, <3>3
    <3>5. f[0] = [i \in 1..Width[g] |-> Leaf(c, i)] /\ e[0] = [i \in 1..Width[g] |-> Leaf(d, i)]
      BY <1>1, <1>2, <3>1 DEF Layers
    <3> QED BY <3>1, <3>4, <3>5
  <2>3. CASE h <= g
    <3>1. g = h
      BY <1>1, <1>2, <1>3, <2>1, <2>3, RootsLevel
    <3> QED BY <1>3, <2>2, <3>1
  <2> QED BY <1>3, <2>2, <2>3
<1>5. ASSUME g = h, \A i \in 1..Width[g] : Leaf(c, i) = Leaf(d, i)
      PROVE  merkleize(c) = merkleize(d)
  <2> DEFINE same == {k \in Nat : k <= g => f[k] = e[k]}
  <2>1. 0 \in same
    <3>1. f[0] = [i \in 1..Width[g] |-> Leaf(c, i)] /\ e[0] = [i \in 1..Width[g] |-> Leaf(d, i)]
      BY <1>1, <1>2, <1>5 DEF Layers
    <3>2. f[0] = e[0]
      BY <1>5, <3>1
    <3> QED BY <3>2
  <2>2. ASSUME NEW k \in Nat, k \in same PROVE k + 1 \in same
    <3>1. ASSUME k + 1 <= g PROVE f[k + 1] = e[k + 1]
      <4>1. k < g /\ k < h /\ k <= g
        BY <1>3, <1>5, <3>1
      <4>2. f[k + 1] = Above(f[k]) /\ e[k + 1] = Above(e[k])
        BY <1>1, <1>2, <4>1 DEF Layers
      <4> QED BY <2>2, <4>1, <4>2
    <3> QED BY <3>1
  <2> HIDE DEF same
  <2>3. g \in same
    BY <1>3, <2>1, <2>2, AllNaturals
  <2>4. f[g] = e[g]
    BY <1>3, <2>3 DEF same
  <2> QED BY <1>1, <1>2, <1>5, <2>4
<1> QED BY <1>4, <1>5 DEF g, h

-----------------------------------------------------------------------------
(***************************************************************************)
(* Chunks.                                                                 *)
(***************************************************************************)

\* The bytes and the zeros that follow them in a tree.
Stream(b, k) == IF k <= Len(b) THEN b[k] ELSE 0

\* The number of chunks.
Chunks(l) == (l + WORD_LEN - 1) \div WORD_LEN

LEMMA ChunksAre ==
  ASSUME NEW l \in Nat \ {0}, NEW n, n = Chunks(l)
  PROVE  n \in Nat \ {0} /\ l <= n * WORD_LEN
<1> DEFINE w == WORD_LEN
<1>1. w \in Nat \ {0}
  BY LengthsAre
<1>2. n = (l + w - 1) \div w
  BY DEF Chunks
<1> HIDE DEF w
<1>3. l + w - 1 \in Nat
  BY <1>1
<1> DEFINE r == (l + w - 1) % w
<1>4. n \in Nat /\ r \in 0..w - 1 /\ n * w + r = l + w - 1
  BY <1>1, <1>2, <1>3, DivMod
<1> HIDE DEF r
<1>5. n * w \in Nat
  BY <1>1, <1>4
<1>6. l <= n * w
  BY <1>1, <1>4, <1>5
<1>7. n # 0
  <2>1. n = 0 => n * w = 0
    BY <1>1
  <2> QED BY <1>6, <2>1
<1> QED BY <1>4, <1>6, <1>7 DEF w

LEMMA LeafIs ==
  ASSUME NEW b \in Seq(Byte), b # << >>, NEW c, c = chunkify(b)
  PROVE  /\ Len(c) = Chunks(Len(b)) /\ c # << >>
         /\ \A i \in Nat \ {0} :
              Leaf(c, i) = [j \in 1..WORD_LEN |-> Stream(b, (i - 1) * WORD_LEN + j)]
         /\ \A i \in Nat \ {0} : Leaf(c, i) \in Fixed(WORD_LEN)
         /\ c \in [1..Chunks(Len(b)) -> Fixed(WORD_LEN)]
<1> DEFINE w == WORD_LEN
           l == Len(b)
           n == Chunks(l)
<1>1. w \in Nat \ {0} /\ l \in Nat \ {0} /\ n \in Nat \ {0} /\ l <= n * w /\ n * w \in Nat
  <2>1. w \in Nat \ {0} /\ l \in Nat \ {0}
    BY LengthsAre
  <2>2. n \in Nat \ {0} /\ l <= n * w
    BY <2>1, ChunksAre
  <2> QED BY <2>1, <2>2
<1>2. c = [i \in 1..n |-> [j \in 1..w |-> IF (i - 1) * w + j <= l THEN b[(i - 1) * w + j] ELSE 0]]
  BY DEF chunkify, Chunks
<1>3. Len(c) = n /\ DOMAIN c = 1..n
  <2> HIDE DEF n
  <2> QED BY <1>1, <1>2
<1>4. c = [i \in 1..n |-> [j \in 1..w |-> Stream(b, (i - 1) * w + j)]]
  BY <1>2 DEF Stream
<1> HIDE DEF w, l, n
<1>5. ASSUME NEW i \in Nat \ {0}
      PROVE  Leaf(c, i) = [j \in 1..w |-> Stream(b, (i - 1) * w + j)]
  <2>1. CASE i <= n
    <3>1. i \in 1..n
      BY <1>1, <2>1
    <3> QED BY <1>3, <1>4, <2>1, <3>1 DEF Leaf
  <2>2. CASE ~(i <= n)
    <3>1. n \in Nat /\ i - 1 \in Nat /\ n <= i - 1 /\ w \in Nat
      BY <1>1, <2>2
    <3>2. n * w <= (i - 1) * w /\ (i - 1) * w \in Nat
      BY <3>1, Multiples
    <3>3. ASSUME NEW j \in 1..w PROVE Stream(b, (i - 1) * w + j) = 0
      <4>1. ~((i - 1) * w + j <= l)
        BY <1>1, <3>2
      <4> QED BY <4>1 DEF Stream, l
    <3>4. Leaf(c, i) = [j \in 1..w |-> 0]
      BY <1>3, <2>2 DEF Leaf, Zeros, w
    <3> QED BY <3>3, <3>4
  <2> QED BY <2>1, <2>2
<1>6. ASSUME NEW k \in Nat \ {0} PROVE Stream(b, k) \in Byte
  <2>1. 0 \in Byte
    BY LengthsAre DEF Byte
  <2>2. k <= Len(b) => b[k] \in Byte
    <3>1. k <= Len(b) => k \in 1..Len(b)
      BY <1>1 DEF l
    <3> QED BY <3>1
  <2> QED BY <2>1, <2>2 DEF Stream
<1>7. ASSUME NEW i \in Nat \ {0} PROVE [j \in 1..w |-> Stream(b, (i - 1) * w + j)] \in Fixed(w)
  <2>1. ASSUME NEW j \in 1..w PROVE (i - 1) * w + j \in Nat \ {0}
    <3>1. i - 1 \in Nat /\ w \in Nat
      BY <1>1
    <3>2. (i - 1) * w \in Nat
      BY <3>1
    <3> QED BY <3>2
  <2> QED BY <1>6, <2>1 DEF Fixed
<1>8. c \in [1..n -> Fixed(w)]
  <2>1. \A i \in 1..n : i \in Nat \ {0}
    OBVIOUS
  <2> QED BY <1>4, <1>7, <2>1
<1>9. c # << >>
  <2>1. 1 \in DOMAIN c
    BY <1>1, <1>3
  <2> QED BY <2>1
<1> QED BY <1>3, <1>5, <1>7, <1>8, <1>9 DEF w, l, n

\* The places of a stream are the places in its chunks.
LEMMA PlaceIs ==
  ASSUME NEW k \in Nat \ {0}, NEW n \in Nat, k <= n * WORD_LEN
  PROVE  \E i \in 1..n : \E j \in 1..WORD_LEN : k = (i - 1) * WORD_LEN + j
<1> DEFINE w == WORD_LEN
           q == (k - 1) \div w
           r == (k - 1) % w
<1>1. w \in Nat \ {0}
  BY LengthsAre
<1> HIDE DEF w
<1>2. q \in Nat /\ r \in 0..w - 1 /\ q * w + r = k - 1 /\ k <= n * w
  <2>1. k - 1 \in Nat
    OBVIOUS
  <2> QED BY <1>1, <2>1, DivMod DEF w
<1> HIDE DEF q, r
<1>3. q < n
  <2> SUFFICES ASSUME n <= q PROVE FALSE
    BY <1>2
  <2>1. n * w <= q * w /\ n * w \in Nat /\ q * w \in Nat
    BY <1>1, <1>2, Multiples
  <2> QED BY <1>2, <2>1
<1>4. q + 1 \in 1..n /\ r + 1 \in 1..w /\ (q + 1) - 1 = q
  BY <1>1, <1>2, <1>3
<1>5. q * w \in Nat
  BY <1>1, <1>2
<1>6. k = ((q + 1) - 1) * w + (r + 1)
  BY <1>2, <1>4, <1>5
<1> QED BY <1>4, <1>6 DEF w

\* a and b are the same but for zeros at the end.
SameStream(a, b) == \A k \in Nat \ {0} : Stream(a, k) = Stream(b, k)

LEMMA HeightOfBytes ==
  ASSUME NEW b \in Seq(Byte), b # << >>
  PROVE  /\ Height(chunkify(b)) = HeightOf(Len(chunkify(b))) /\ Height(chunkify(b)) \in Nat
         /\ Len(b) <= Width[Height(chunkify(b))] * WORD_LEN
<1> DEFINE c == chunkify(b)
           n == Chunks(Len(b))
<1>1. Len(c) = n /\ c # << >>
  BY LeafIs
<1>2. n \in Nat /\ Len(b) <= n * WORD_LEN /\ WORD_LEN \in Nat /\ Len(b) \in Nat
  <2>1. Len(b) \in Nat \ {0}
    OBVIOUS
  <2> QED BY <2>1, ChunksAre, LengthsAre
<1> HIDE DEF c, n
<1>3. Height(c) = HeightOf(Len(c))
  BY <1>1 DEF Height
<1>4. Height(c) \in Nat /\ n <= Width[Height(c)]
  BY <1>1, <1>2, <1>3, HeightIs
<1>5. Width[Height(c)] \in Nat
  BY <1>4, WidthIs
<1>6. n * WORD_LEN <= Width[Height(c)] * WORD_LEN /\ n * WORD_LEN \in Nat
      /\ Width[Height(c)] * WORD_LEN \in Nat
  BY <1>2, <1>4, <1>5, Multiples
<1>7. Len(b) <= Width[Height(c)] * WORD_LEN
  BY <1>2, <1>6
<1> QED BY <1>3, <1>4, <1>7 DEF c

LEMMA SsrRootIs ==
  ASSUME NEW a \in Seq(Byte), a # << >>, NEW b \in Seq(Byte), b # << >>
  PROVE  ssr_root(a) = ssr_root(b) <=>
           /\ Height(chunkify(a)) = Height(chunkify(b))
           /\ SameStream(a, b)
<1> DEFINE c == chunkify(a)
           d == chunkify(b)
           h == Height(c)
           w == WORD_LEN
<1>1. /\ \A i \in Nat \ {0} : Leaf(c, i) = [j \in 1..w |-> Stream(a, (i - 1) * w + j)]
      /\ \A i \in Nat \ {0} : Leaf(c, i) \in Fixed(w)
  BY LeafIs
<1>2. /\ \A i \in Nat \ {0} : Leaf(d, i) = [j \in 1..w |-> Stream(b, (i - 1) * w + j)]
      /\ \A i \in Nat \ {0} : Leaf(d, i) \in Fixed(w)
  BY LeafIs
<1>3. /\ h \in Nat /\ Height(d) \in Nat /\ w \in Nat /\ Len(a) \in Nat /\ Len(b) \in Nat
      /\ Len(a) <= Width[h] * w /\ Len(b) <= Width[Height(d)] * w
  BY HeightOfBytes, LengthsAre
<1>4. ssr_root(a) = merkleize(c) /\ ssr_root(b) = merkleize(d)
  BY DEF ssr_root
<1> HIDE DEF c, d, h
<1>5. merkleize(c) = merkleize(d) <=>
        h = Height(d) /\ \A i \in 1..Width[h] : Leaf(c, i) = Leaf(d, i)
  <2>1. 1 \in Nat \ {0}
    OBVIOUS
  <2>2. Leaf(c, 1) \in Fixed(w) /\ Leaf(d, 1) \in Fixed(w)
    BY <1>1, <1>2, <2>1
  <2> QED BY <1>3, <2>2, MerkleBinds DEF h
<1>6. \A i \in 1..Width[h] : i \in Nat \ {0}
  BY <1>3, WidthIs
<1>7. ASSUME h = Height(d), \A i \in 1..Width[h] : Leaf(c, i) = Leaf(d, i)
      PROVE  SameStream(a, b)
  <2>1. ASSUME NEW k \in Nat \ {0} PROVE Stream(a, k) = Stream(b, k)
    <3>1. CASE k <= Width[h] * w
      <4>1. Width[h] \in Nat
        BY <1>3, WidthIs
      <4>2. PICK i \in 1..Width[h] : \E j \in 1..w : k = (i - 1) * w + j
        BY <3>1, <4>1, PlaceIs
      <4>3. PICK j \in 1..w : k = (i - 1) * w + j
        BY <4>2
      <4>4. Leaf(c, i)[j] = Stream(a, k) /\ Leaf(d, i)[j] = Stream(b, k)
        <5>1. /\ Leaf(c, i) = [x \in 1..w |-> Stream(a, (i - 1) * w + x)]
              /\ Leaf(d, i) = [x \in 1..w |-> Stream(b, (i - 1) * w + x)]
          BY <1>1, <1>2, <1>6
        <5>2. /\ Leaf(c, i)[j] = Stream(a, (i - 1) * w + j)
              /\ Leaf(d, i)[j] = Stream(b, (i - 1) * w + j)
          BY <5>1
        <5> QED BY <4>3, <5>2
      <4> QED BY <1>7, <4>4
    <3>2. CASE ~(k <= Width[h] * w)
      <4>1. Width[h] \in Nat
        BY <1>3, WidthIs
      <4>2. Width[h] * w \in Nat
        BY <1>3, <4>1
      <4>3. ~(k <= Len(a)) /\ ~(k <= Len(b))
        BY <1>3, <1>7, <3>2, <4>2
      <4> QED BY <4>3 DEF Stream
    <3> QED BY <3>1, <3>2
  <2> QED BY <2>1 DEF SameStream
<1>8. ASSUME SameStream(a, b), NEW i \in Nat \ {0} PROVE Leaf(c, i) = Leaf(d, i)
  <2>1. ASSUME NEW j \in 1..w PROVE Stream(a, (i - 1) * w + j) = Stream(b, (i - 1) * w + j)
    <3>1. i - 1 \in Nat /\ (i - 1) * w \in Nat
      BY <1>3
    <3>2. (i - 1) * w + j \in Nat \ {0}
      BY <3>1
    <3> QED BY <1>8, <3>2 DEF SameStream
  <2> QED BY <1>1, <1>2, <2>1
<1>9. ASSUME h = Height(d), SameStream(a, b)
      PROVE  \A i \in 1..Width[h] : Leaf(c, i) = Leaf(d, i)
  BY <1>6, <1>8, <1>9
<1>10. merkleize(c) = merkleize(d) <=> h = Height(d) /\ SameStream(a, b)
  BY <1>5, <1>7, <1>9
<1> QED BY <1>4, <1>10 DEF c, d, h

-----------------------------------------------------------------------------
(***************************************************************************)
(* The root of a snapshot.                                                 *)
(***************************************************************************)

\* The event at place i, with all-zero events behind the list.
Padded(x, i) == IF i <= Len(x.event_summaries) THEN x.event_summaries[i] ELSE ZeroSummary

LEMMA ZerosJoin ==
  ASSUME NEW m \in Nat, NEW n \in Nat
  PROVE  Zeros(m) \in Fixed(m) /\ Zeros(m) \o Zeros(n) = Zeros(m + n)
<1>1. 0 \in Byte
  BY LengthsAre DEF Byte
<1>2. Zeros(m) \in Fixed(m) /\ Zeros(n) \in Fixed(n) /\ Zeros(m + n) \in Fixed(m + n) /\ m + n \in Nat
  BY <1>1 DEF Zeros, Fixed
<1> DEFINE p == Zeros(m)
           q == Zeros(n)
           r == Zeros(m + n)
<1>3. /\ p \in Seq(Byte) /\ Len(p) = m /\ q \in Seq(Byte) /\ Len(q) = n
      /\ r \in Seq(Byte) /\ Len(r) = m + n
  BY <1>2, FixedIs
<1>4. /\ \A i \in 1..m : p[i] = 0
      /\ \A i \in 1..n : q[i] = 0
      /\ \A i \in 1..m + n : r[i] = 0
  BY DEF Zeros
<1> HIDE DEF p, q, r
<1>5. /\ p \o q \in Seq(Byte) /\ Len(p \o q) = m + n
      /\ \A i \in 1..m + n : (p \o q)[i] = IF i <= m THEN p[i] ELSE q[i - m]
  BY <1>3, ConcatProperties
<1>6. ASSUME NEW i \in 1..m + n PROVE (p \o q)[i] = r[i]
  <2>1. CASE i <= m
    BY <1>4, <1>5, <2>1
  <2>2. CASE ~(i <= m)
    <3>1. i - m \in 1..n
      BY <2>2
    <3> QED BY <1>4, <1>5, <2>2, <3>1
  <2> QED BY <2>1, <2>2
<1>7. p \o q = r
  BY <1>3, <1>5, <1>6, SeqEqual
<1> QED BY <1>2, <1>7 DEF p, q, r

LEMMA ZeroSummaryIs ==
  ZeroSummary \in EventSummary /\ EncodeSummary(ZeroSummary) = Zeros(ENCODED_LEN)
<1> DEFINE u == U64_LEN
           a == ADDRESS_LEN
           w == WORD_LEN
<1>1. u \in Nat /\ a \in Nat /\ w \in Nat /\ Radix \in Nat \ {0} /\ \A i \in Nat : Weight[i] \in Nat \ {0}
  BY LengthsAre, WeightIs
<1>2. 0 \in u64
  BY <1>1 DEF u64
<1>3. ZeroSummary \in EventSummary
  BY <1>1, <1>2, ZerosJoin DEF ZeroSummary, EventSummary
<1>4. to_le_bytes(0, u) = Zeros(u)
  <2>1. ASSUME NEW i \in 1..u PROVE (0 \div Weight[i - 1]) % Radix = 0
    <3> DEFINE x == Weight[i - 1]
    <3>1. x \in Nat \ {0}
      BY <1>1
    <3> HIDE DEF x
    <3>2. 0 \div x = 0
      BY <3>1
    <3> QED BY <1>1, <3>2 DEF x
  <2> QED BY <2>1 DEF to_le_bytes, Zeros
<1>5. EncodeSummary(ZeroSummary) = Zeros(u) \o Zeros(u) \o Zeros(a) \o Zeros(w)
  BY <1>4 DEF EncodeSummary, ZeroSummary
<1> HIDE DEF u, a, w
<1>6. /\ Zeros(u) \o Zeros(u) = Zeros(u + u)
      /\ Zeros(u + u) \o Zeros(a) = Zeros(u + u + a)
      /\ Zeros(u + u + a) \o Zeros(w) = Zeros(u + u + a + w)
  <2>1. u + u \in Nat /\ u + u + a \in Nat
    BY <1>1
  <2> QED BY <1>1, <2>1, ZerosJoin
<1>7. ENCODED_LEN = u + u + a + w
  BY <1>1 DEF ENCODED_LEN, u, a, w
<1> QED BY <1>3, <1>5, <1>6, <1>7

LEMMA PaddedIs ==
  ASSUME NEW x \in EpochStateSnapshot, NEW i \in Nat \ {0}
  PROVE  Padded(x, i) \in EventSummary
<1>1. x.event_summaries \in Seq(EventSummary)
  BY DEF EpochStateSnapshot
<1>2. i <= Len(x.event_summaries) => i \in 1..Len(x.event_summaries)
  BY <1>1
<1>3. i <= Len(x.event_summaries) => x.event_summaries[i] \in EventSummary
  BY <1>1, <1>2
<1> QED BY <1>3, ZeroSummaryIs DEF Padded

LEMMA SnapshotStream ==
  ASSUME NEW x \in EpochStateSnapshot, NEW e, LaidOut(e, x)
  PROVE  /\ \A k \in 1..U64_LEN : Stream(e, k) = to_le_bytes(x.epoch_index, U64_LEN)[k]
         /\ \A k \in 1..U32_LEN :
              Stream(e, U64_LEN + k) = to_le_bytes(FIXED_HEADER_LEN, U32_LEN)[k]
         /\ \A i \in Nat \ {0} : \A j \in 1..ENCODED_LEN :
              Stream(e, FIXED_HEADER_LEN + ((i - 1) * ENCODED_LEN + j))
                = EncodeSummary(Padded(x, i))[j]
<1> DEFINE u == U64_LEN
           v == U32_LEN
           h == FIXED_HEADER_LEN
           d == ENCODED_LEN
           m == Len(x.event_summaries)
           l == Len(e)
           z == m * d
           body == Slice(e, h, l)
<1>1. /\ u \in Nat /\ v \in Nat /\ h \in Nat /\ h = u + v /\ d \in Nat \ {0} /\ m \in Nat
      /\ x.event_summaries \in Seq(EventSummary)
  BY LengthsAre DEF FIXED_HEADER_LEN, ENCODED_LEN, EpochStateSnapshot
<1>2. /\ e \in Seq(Byte) /\ l = h + z
      /\ Slice(e, 0, u) = to_le_bytes(x.epoch_index, u) /\ Slice(e, u, h) = to_le_bytes(h, v)
      /\ \A i \in 1..m : Slice(body, (i - 1) * d, i * d) = EncodeSummary(x.event_summaries[i])
  BY DEF LaidOut
<1> HIDE DEF u, v, h, d, m
<1>3. z \in Nat /\ l \in Nat /\ e \in Seq(Byte) /\ l = h + z
  BY <1>1, <1>2
<1>4. ASSUME NEW k \in 1..u PROVE Stream(e, k) = to_le_bytes(x.epoch_index, u)[k]
  <2>1. 0 \in Nat /\ u \in 0..Len(e) /\ k \in 1..u - 0 /\ 0 + k = k /\ k <= Len(e)
    BY <1>1, <1>2, <1>3
  <2>2. Slice(e, 0, u)[k] = e[0 + k]
    BY <1>2, <2>1, SliceIs
  <2> QED BY <1>2, <2>1, <2>2 DEF Stream
<1>5. ASSUME NEW k \in 1..v PROVE Stream(e, u + k) = to_le_bytes(h, v)[k]
  <2>1. h \in u..Len(e) /\ k \in 1..h - u /\ u + k <= Len(e)
    BY <1>1, <1>2, <1>3
  <2>2. Slice(e, u, h)[k] = e[u + k]
    BY <1>1, <1>2, <2>1, SliceIs
  <2> QED BY <1>2, <2>1, <2>2 DEF Stream
<1>6. ASSUME NEW i \in Nat \ {0}, NEW j \in 1..d
      PROVE  Stream(e, h + ((i - 1) * d + j)) = EncodeSummary(Padded(x, i))[j]
  <2> DEFINE s == (i - 1) * d
             t == i * d
  <2>1. i - 1 \in Nat /\ i \in Nat /\ (i - 1) + 1 = i
    OBVIOUS
  <2>2. s \in Nat /\ t \in Nat /\ t = s + d
    BY <1>1, <2>1, Multiples
  <2>3. CASE i <= m
    <3>1. t <= z
      BY <1>1, <2>1, <2>3, Multiples
    <3>2. Slice(body, s, t) = EncodeSummary(x.event_summaries[i])
      BY <1>2, <1>1, <2>3
    <3> HIDE DEF s, t, z
    <3>3. e \in Seq(Byte) /\ h \in Nat /\ l \in h..Len(e) /\ l - h = z
      BY <1>1, <1>3
    <3> HIDE DEF l
    <3>4. body \in Fixed(l - h) /\ \A k \in 1..l - h : body[k] = e[h + k]
      BY <3>3, SliceIs
    <3>5. body \in Seq(Byte) /\ Len(body) = z
      BY <1>3, <3>3, <3>4, FixedIs
    <3> HIDE DEF body
    <3>6. t \in s..Len(body) /\ j \in 1..t - s /\ s + j \in 1..z /\ h + (s + j) <= l
      BY <1>1, <1>2, <1>3, <2>2, <3>1, <3>5
    <3>7. Slice(body, s, t)[j] = body[s + j]
      BY <2>2, <3>5, <3>6, SliceIs
    <3>8. Stream(e, h + (s + j)) = e[h + (s + j)]
      BY <3>6 DEF Stream, l
    <3>9. Padded(x, i) = x.event_summaries[i]
      BY <2>3 DEF Padded, m
    <3>10. body[s + j] = e[h + (s + j)]
      BY <3>3, <3>4, <3>6
    <3> QED BY <3>2, <3>7, <3>8, <3>9, <3>10 DEF s
  <2>4. CASE ~(i <= m)
    <3>1. z <= s
      <4>1. m <= i - 1
        BY <1>1, <2>4
      <4> QED BY <1>1, <2>1, <4>1, Multiples
    <3> HIDE DEF s, t, z
    <3>2. ~(h + (s + j) <= l)
      BY <1>1, <1>2, <1>3, <2>2, <3>1
    <3>3. Stream(e, h + (s + j)) = 0
      BY <3>2 DEF Stream, l
    <3>4. Padded(x, i) = ZeroSummary
      BY <2>4 DEF Padded, m
    <3>5. EncodeSummary(Padded(x, i)) = Zeros(d)
      BY <3>4, ZeroSummaryIs DEF d
    <3>6. Zeros(d)[j] = 0
      BY DEF Zeros
    <3> QED BY <3>3, <3>5, <3>6 DEF s
  <2> QED BY <2>3, <2>4
<1> QED BY <1>4, <1>5, <1>6 DEF u, v, h, d

\* Snapshots share a stream when they share all there is in them but the number
\* of all-zero events at the end.
SameContent(x, y) ==
  x.epoch_index = y.epoch_index /\ \A i \in Nat \ {0} : Padded(x, i) = Padded(y, i)

LEMMA SameSnapshots ==
  ASSUME NEW x \in EpochStateSnapshot, NEW y \in EpochStateSnapshot,
         NEW a, LaidOut(a, x), NEW b, LaidOut(b, y)
  PROVE  SameStream(a, b) <=> SameContent(x, y)
<1> DEFINE u == U64_LEN
           v == U32_LEN
           h == FIXED_HEADER_LEN
           d == ENCODED_LEN
           p == to_le_bytes(x.epoch_index, U64_LEN)
           q == to_le_bytes(y.epoch_index, U64_LEN)
           r == to_le_bytes(FIXED_HEADER_LEN, U32_LEN)
           f(i) == EncodeSummary(Padded(x, i))
           g(i) == EncodeSummary(Padded(y, i))
<1>1. u \in Nat /\ v \in Nat /\ h \in Nat /\ h = u + v /\ d \in Nat \ {0}
  BY LengthsAre DEF FIXED_HEADER_LEN, ENCODED_LEN
<1>2. /\ x.epoch_index \in u64 /\ y.epoch_index \in u64
      /\ p \in Fixed(u) /\ read_le(p) = x.epoch_index /\ q \in Fixed(u) /\ read_le(q) = y.epoch_index
  BY NumberIs DEF EpochStateSnapshot
<1>3. /\ \A k \in 1..u : Stream(a, k) = p[k]
      /\ \A k \in 1..v : Stream(a, u + k) = r[k]
      /\ \A i \in Nat \ {0} : \A j \in 1..d : Stream(a, h + ((i - 1) * d + j)) = f(i)[j]
  BY SnapshotStream
<1>4. /\ \A k \in 1..u : Stream(b, k) = q[k]
      /\ \A k \in 1..v : Stream(b, u + k) = r[k]
      /\ \A i \in Nat \ {0} : \A j \in 1..d : Stream(b, h + ((i - 1) * d + j)) = g(i)[j]
  BY SnapshotStream
<1>5. ASSUME NEW i \in Nat \ {0}
      PROVE  /\ f(i) \in Fixed(d) /\ DecodeSummary(f(i)) = Ok(Padded(x, i))
             /\ g(i) \in Fixed(d) /\ DecodeSummary(g(i)) = Ok(Padded(y, i))
  BY PaddedIs, SummaryDecoded
<1> HIDE DEF u, v, h, d, p, q, r
<1>6. ASSUME SameStream(a, b) PROVE SameContent(x, y)
  <2>1. \A k \in Nat \ {0} : Stream(a, k) = Stream(b, k)
    BY <1>6 DEF SameStream
  <2>2. p = q
    <3>1. ASSUME NEW k \in 1..u PROVE p[k] = q[k]
      <4>1. k \in Nat \ {0}
        BY <1>1
      <4> QED BY <1>3, <1>4, <2>1, <4>1
    <3>2. p = [k \in 1..u |-> p[k]] /\ q = [k \in 1..u |-> q[k]]
      BY <1>2 DEF Fixed
    <3> QED BY <3>1, <3>2
  <2>3. ASSUME NEW i \in Nat \ {0} PROVE Padded(x, i) = Padded(y, i)
    <3>1. ASSUME NEW j \in 1..d PROVE f(i)[j] = g(i)[j]
      <4>1. (i - 1) * d \in Nat
        BY <1>1
      <4>2. h + ((i - 1) * d + j) \in Nat \ {0}
        BY <1>1, <4>1
      <4>3. Stream(a, h + ((i - 1) * d + j)) = Stream(b, h + ((i - 1) * d + j))
        BY <2>1, <4>2
      <4>4. Stream(a, h + ((i - 1) * d + j)) = f(i)[j]
        BY <1>3
      <4>5. Stream(b, h + ((i - 1) * d + j)) = g(i)[j]
        BY <1>4
      <4> QED BY <4>3, <4>4, <4>5
    <3> HIDE DEF f, g
    <3>2. f(i) = [j \in 1..d |-> f(i)[j]] /\ g(i) = [j \in 1..d |-> g(i)[j]]
      BY <1>5 DEF Fixed
    <3>3. f(i) = g(i)
      BY <3>1, <3>2
    <3>4. Ok(Padded(x, i)) = Ok(Padded(y, i))
      BY <1>5, <3>3
    <3> QED BY <3>4, ResultIs
  <2> QED BY <1>2, <2>2, <2>3 DEF SameContent
<1>7. ASSUME SameContent(x, y) PROVE SameStream(a, b)
  <2>1. p = q /\ \A i \in Nat \ {0} : f(i) = g(i)
    BY <1>7 DEF SameContent, p, q
  <2> HIDE DEF f, g
  <2>2. ASSUME NEW k \in Nat \ {0} PROVE Stream(a, k) = Stream(b, k)
    <3>1. CASE k <= u
      <4>1. k \in 1..u
        BY <1>1, <3>1
      <4> QED BY <1>3, <1>4, <2>1, <4>1
    <3>2. CASE ~(k <= u) /\ k <= h
      <4>1. k - u \in 1..v /\ u + (k - u) = k
        BY <1>1, <3>2
      <4> QED BY <1>3, <1>4, <4>1
    <3>3. CASE ~(k <= h)
      <4> DEFINE n == k - h - 1
                 i == (n \div d) + 1
                 j == (n % d) + 1
      <4>1. n \in Nat /\ k = h + (n + 1)
        BY <1>1, <3>3
      <4> HIDE DEF n
      <4>2. n \div d \in Nat /\ n % d \in 0..d - 1 /\ (n \div d) * d + (n % d) = n
        BY <1>1, <4>1, DivMod
      <4>3. i \in Nat \ {0} /\ j \in 1..d /\ i - 1 = n \div d /\ (i - 1) * d \in Nat
            /\ (i - 1) * d + j = n + 1
        <5> DEFINE s == n \div d
                   t == n % d
        <5>1. s \in Nat /\ t \in 0..d - 1 /\ s * d + t = n
          BY <4>2
        <5> HIDE DEF s, t
        <5>2. s + 1 \in Nat \ {0} /\ t + 1 \in 1..d /\ (s + 1) - 1 = s /\ s * d \in Nat
          BY <1>1, <5>1
        <5>3. s * d + (t + 1) = n + 1
          BY <4>1, <5>1, <5>2
        <5> QED BY <5>2, <5>3 DEF s, t
      <4> HIDE DEF i, j
      <4>4. /\ Stream(a, h + ((i - 1) * d + j)) = f(i)[j]
            /\ Stream(b, h + ((i - 1) * d + j)) = g(i)[j]
        BY <1>3, <1>4, <4>3
      <4> QED BY <2>1, <4>1, <4>3, <4>4
    <3> QED BY <1>1, <3>1, <3>2, <3>3
  <2> QED BY <2>2 DEF SameStream
<1> QED BY <1>6, <1>7

LEMMA Extends ==
  ASSUME NEW x \in EpochStateSnapshot, NEW y \in EpochStateSnapshot,
         Len(x.event_summaries) <= Len(y.event_summaries)
  PROVE  SameContent(x, y) <=> ZeroExtends(y, x)
<1> DEFINE s == x.event_summaries
           t == y.event_summaries
           m == Len(s)
           n == Len(t)
<1>1. /\ s \in Seq(EventSummary) /\ t \in Seq(EventSummary) /\ m \in Nat /\ n \in Nat
      /\ m <= n /\ DOMAIN s = 1..m /\ DOMAIN t = 1..n
  BY DEF EpochStateSnapshot
<1>2. \A i \in Nat \ {0} : /\ Padded(x, i) = IF i <= m THEN s[i] ELSE ZeroSummary
                           /\ Padded(y, i) = IF i <= n THEN t[i] ELSE ZeroSummary
  BY DEF Padded
<1> DEFINE Extended == /\ \A i \in 1..m : s[i] = t[i]
                       /\ \A i \in m + 1..n : t[i] = ZeroSummary
<1>3. ZeroExtends(y, x) <=> x.epoch_index = y.epoch_index /\ Extended
  <2>1. IsPrefix(s, t) <=> \A i \in 1..m : s[i] = t[i]
    <3>1. SubSeq(s, 1, m) = s
      BY <1>1, SubSeqFull
    <3>2. SubSeq(t, 1, m) = [i \in 1..m |-> t[i]]
      <4>1. 1 \in Int /\ m \in Int /\ \A i \in 1..m : t[i] \in EventSummary
        BY <1>1
      <4> DEFINE r == SubSeq(t, 1, m)
      <4>2. /\ r \in Seq(EventSummary) /\ Len(r) = IF 1 <= m THEN m - 1 + 1 ELSE 0
            /\ \A i \in 1..m - 1 + 1 : r[i] = t[1 + i - 1]
        BY <4>1, SubSeqProperties
      <4> HIDE DEF r
      <4>3. Len(r) = m /\ m - 1 + 1 = m /\ \A i \in 1..m : 1 + i - 1 = i
        BY <1>1, <4>2
      <4>4. r = [i \in 1..m |-> r[i]]
        BY <4>2, <4>3
      <4>5. \A i \in 1..m : r[i] = t[i]
        BY <4>2, <4>3
      <4> QED BY <4>4, <4>5 DEF r
    <3>3. s = [i \in 1..m |-> s[i]]
      BY <1>1
    <3>4. IsPrefix(s, t) <=> SubSeq(s, 1, m) = SubSeq(t, 1, m)
      BY <1>1 DEF IsPrefix
    <3> QED BY <3>1, <3>2, <3>3, <3>4
  <2> QED BY <2>1 DEF ZeroExtends
<1> HIDE DEF s, t, m, n
<1>4. ASSUME \A i \in Nat \ {0} : Padded(x, i) = Padded(y, i) PROVE Extended
  <2>1. ASSUME NEW i \in 1..m PROVE s[i] = t[i]
    <3>1. i \in Nat \ {0} /\ i <= m /\ i <= n
      BY <1>1
    <3> QED BY <1>2, <1>4, <3>1
  <2>2. ASSUME NEW i \in m + 1..n PROVE t[i] = ZeroSummary
    <3>1. i \in Nat \ {0} /\ ~(i <= m) /\ i <= n
      BY <1>1
    <3> QED BY <1>2, <1>4, <3>1
  <2> QED BY <2>1, <2>2
<1>5. ASSUME Extended, NEW i \in Nat \ {0} PROVE Padded(x, i) = Padded(y, i)
  <2>1. CASE i <= m
    <3>1. i \in 1..m /\ i <= n
      BY <1>1, <2>1
    <3> QED BY <1>2, <1>5, <2>1, <3>1
  <2>2. CASE ~(i <= m) /\ i <= n
    <3>1. i \in m + 1..n
      BY <1>1, <2>2
    <3> QED BY <1>2, <1>5, <2>2, <3>1
  <2>3. CASE ~(i <= n)
    <3>1. ~(i <= m)
      BY <1>1, <2>3
    <3> QED BY <1>2, <2>3, <3>1
  <2> QED BY <2>1, <2>2, <2>3
<1> HIDE DEF Extended
<1> QED BY <1>3, <1>4, <1>5 DEF SameContent

LEMMA ExtendsEither ==
  ASSUME NEW x \in EpochStateSnapshot, NEW y \in EpochStateSnapshot
  PROVE  SameContent(x, y) <=> ZeroExtends(y, x) \/ ZeroExtends(x, y)
<1> DEFINE m == Len(x.event_summaries)
           n == Len(y.event_summaries)
<1>1. m \in Nat /\ n \in Nat
  BY DEF EpochStateSnapshot
<1>2. (ZeroExtends(y, x) => m <= n) /\ (ZeroExtends(x, y) => n <= m)
  BY DEF ZeroExtends, IsPrefix
<1>3. SameContent(x, y) <=> SameContent(y, x)
  BY DEF SameContent
<1>4. m <= n => (SameContent(x, y) <=> ZeroExtends(y, x))
  BY Extends
<1>5. n <= m => (SameContent(y, x) <=> ZeroExtends(x, y))
  BY Extends
<1> HIDE DEF m, n
<1> QED BY <1>1, <1>2, <1>3, <1>4, <1>5

LEMMA RootHolds ==
  ASSUME BytesInvariant
  PROVE  RootIdentifies
<1> SUFFICES ASSUME object.kind = "snapshot", encoded.ok, edits = 0,
                    NEW y \in Snapshots, EncodeSnapshot(y).ok
             PROVE  ssr_root(bytes) = ssr_root(EncodeSnapshot(y).value) <=>
                      /\ ZeroExtends(y, object.value) \/ ZeroExtends(object.value, y)
                      /\ Leaves(y) = Leaves(object.value)
  BY DEF RootIdentifies
<1> DEFINE x == object.value
<1>1. x \in EpochStateSnapshot /\ y \in EpochStateSnapshot /\ encoded = EncodeSnapshot(x)
  BY ConstantsAre, EncodedIs DEF BytesInvariant, encoded
<1>2. PICK a \in Seq(Byte) : EncodeSnapshot(x) = Ok(a) /\ LaidOut(a, x)
  BY <1>1, SnapshotFails, SnapshotDecoded
<1>3. PICK b \in Seq(Byte) : EncodeSnapshot(y) = Ok(b) /\ LaidOut(b, y)
  BY <1>1, SnapshotFails, SnapshotDecoded
<1>4. EncodeSnapshot(x).value = a /\ EncodeSnapshot(y).value = b
  BY <1>2, <1>3, ResultIs
<1>5. bytes = a
  BY <1>1, <1>4 DEF BytesInvariant
<1>6. a # << >> /\ b # << >>
  <2> DEFINE m == Len(x.event_summaries)
             n == Len(y.event_summaries)
  <2>1. /\ m \in Nat /\ n \in Nat /\ ENCODED_LEN \in Nat /\ FIXED_HEADER_LEN \in Nat \ {0}
        /\ Len(a) = FIXED_HEADER_LEN + m * ENCODED_LEN
        /\ Len(b) = FIXED_HEADER_LEN + n * ENCODED_LEN
    BY <1>1, <1>2, <1>3, LengthsAre DEF LaidOut, ENCODED_LEN, FIXED_HEADER_LEN, EpochStateSnapshot
  <2> HIDE DEF m, n
  <2>2. m * ENCODED_LEN \in Nat /\ n * ENCODED_LEN \in Nat
    BY <2>1
  <2>3. Len(a) # 0 /\ Len(b) # 0
    BY <2>1, <2>2
  <2> QED BY <2>3
<1> DEFINE g == Height(chunkify(a))
           h == Height(chunkify(b))
<1>7. ssr_root(a) = ssr_root(b) <=> g = h /\ SameStream(a, b)
  BY <1>6, SsrRootIs
<1>8. SameStream(a, b) <=> ZeroExtends(y, x) \/ ZeroExtends(x, y)
  BY <1>1, <1>2, <1>3, SameSnapshots, ExtendsEither
<1>9. Leaves(y) = Leaves(x) <=> g = h
  <2>1. /\ g \in Nat /\ h \in Nat
        /\ g = HeightOf(Len(chunkify(a))) /\ h = HeightOf(Len(chunkify(b)))
    BY <1>6, HeightOfBytes
  <2>2. Leaves(x) = Width[g] /\ Leaves(y) = Width[h]
    BY <1>4, <2>1 DEF Leaves
  <2> HIDE DEF g, h, x
  <2>3. Width[g] \in Nat /\ Width[h] \in Nat
    BY <2>1, WidthIs
  <2>4. (g < h => Width[g] < Width[h]) /\ (h < g => Width[h] < Width[g])
    BY <2>1, WidthGrows
  <2> QED BY <2>1, <2>2, <2>3, <2>4
<1> HIDE DEF g, h, x
<1>10. ssr_root(bytes) = ssr_root(EncodeSnapshot(y).value) <=>
         (ZeroExtends(y, x) \/ ZeroExtends(x, y)) /\ Leaves(y) = Leaves(x)
  BY <1>4, <1>5, <1>7, <1>8, <1>9
<1> QED BY <1>10 DEF x

\* A snapshot shares its root with those that differ in all-zero events at the
\* end, as far as the padding of its tree reaches, and with no other (lib.rs,
\* merkleize).
THEOREM RootsIdentify == BytesSpec => []RootIdentifies
<1>1. BytesInvariant => RootIdentifies
  BY RootHolds
<1> QED BY <1>1, BytesInvariantHolds, PTL

-----------------------------------------------------------------------------
(***************************************************************************)
(* Batches.                                                                *)
(***************************************************************************)

\* Lists of one length, one after the other.
LEMMA FlattenPlaces ==
  ASSUME NEW S, NEW m \in Nat, NEW d \in Nat, NEW s, s \in [1..m -> Seq(S)],
         \A i \in 1..m : Len(s[i]) = d
  PROVE  /\ FlattenSeq(s) \in Seq(S) /\ Len(FlattenSeq(s)) = m * d
         /\ \A i \in 1..m, j \in 1..d : FlattenSeq(s)[(i - 1) * d + j] = s[i][j]
<1>1. Len(s) = m /\ \A i \in 1..m : s[i] \in Seq(S) /\ Len(s[i]) = d
  OBVIOUS
<1>2. CASE m = 0
  <2>1. FlattenSeq(s) = s /\ s = << >>
    BY <1>1, <1>2 DEF FlattenSeq
  <2>2. << >> \in Seq(S) /\ Len(<< >>) = 0 /\ m * d = 0
    BY <1>2
  <2> QED BY <1>2, <2>1, <2>2
<1>3. CASE m # 0
  <2>0. \E f : Unrolled(f, s, m)
    BY <1>1, <1>3, FlattenIs
  <2>1. PICK f : /\ f[1] = s[1] /\ FlattenSeq(s) = f[m]
                 /\ \A i \in Nat \ {0} : i < m => f[i + 1] = f[i] \o s[i + 1]
    BY <2>0 DEF Unrolled
  <2> DEFINE Placed(e, n) ==
               /\ e \in Seq(S) /\ Len(e) = n * d
               /\ \A i \in 1..n, j \in 1..d : e[(i - 1) * d + j] = s[i][j]
             placed == {n \in Nat : n < m => Placed(f[n + 1], n + 1)}
  <2>2. 0 \in placed
    <3>1. s[1] \in Seq(S) /\ Len(s[1]) = d /\ 1 * d = d /\ 0 * d = 0 /\ 0 + 1 = 1
      BY <1>1, <1>3
    <3>2. \A i \in 1..1 : i = 1 /\ i - 1 = 0
      OBVIOUS
    <3>3. \A i \in 1..1, j \in 1..d : (i - 1) * d + j = j
      BY <3>1, <3>2
    <3>4. \A i \in 1..1, j \in 1..d : s[1][(i - 1) * d + j] = s[i][j]
      BY <3>2, <3>3
    <3>5. Placed(f[1], 1)
      BY <2>1, <3>1, <3>4
    <3> HIDE DEF Placed
    <3> QED BY <3>5
  <2>3. ASSUME NEW n \in Nat, n \in placed PROVE n + 1 \in placed
    <3> SUFFICES ASSUME n + 1 < m PROVE Placed(f[n + 2], n + 2)
      <4>1. n + 1 \in Nat /\ (n + 1) + 1 = n + 2
        OBVIOUS
      <4> HIDE DEF Placed
      <4> QED BY <4>1
    <3> DEFINE k == n + 1
               p == f[k]
               q == s[k + 1]
               e == f[k + 1]
               x == k * d
    <3>1. /\ k \in Nat \ {0} /\ k < m /\ k + 1 = n + 2 /\ k + 1 \in 1..m
          /\ q \in Seq(S) /\ Len(q) = d
      BY <1>1
    <3>2. Placed(p, k)
      <4> HIDE DEF Placed
      <4>1. n < m
        OBVIOUS
      <4> QED BY <2>3, <4>1
    <3>3. e = p \o q
      BY <2>1, <3>1
    <3>4. x \in Nat /\ (k + 1) * d = x + d
      <4> HIDE DEF k
      <4> QED BY <3>1, Multiples
    <3>5. /\ p \in Seq(S) /\ Len(p) = x
          /\ \A i \in 1..k, j \in 1..d : p[(i - 1) * d + j] = s[i][j]
      BY <3>2
    <3> HIDE DEF p, e, x, k
    <3>6. /\ e \in Seq(S) /\ Len(e) = x + d
          /\ \A i \in 1..x + d : e[i] = IF i <= x THEN p[i] ELSE q[i - x]
      <4>1. q \in Seq(S) /\ Len(q) = d
        BY <3>1
      <4>2. p \in Seq(S) /\ Len(p) = x
        BY <3>5
      <4> HIDE DEF q
      <4>3. /\ p \o q \in Seq(S) /\ Len(p \o q) = Len(p) + Len(q)
            /\ \A i \in 1..Len(p) + Len(q) :
                 (p \o q)[i] = IF i <= Len(p) THEN p[i] ELSE q[i - Len(p)]
        BY <4>1, <4>2, ConcatProperties
      <4> QED BY <3>3, <4>1, <4>2, <4>3
    <3>7. ASSUME NEW i \in 1..k + 1, NEW j \in 1..d PROVE e[(i - 1) * d + j] = s[i][j]
      <4>1. CASE i <= k
        <5>1. i - 1 \in Nat /\ (i - 1) + 1 = i /\ i \in Nat /\ i <= k /\ i \in 1..k /\ k \in Nat
          BY <3>1, <4>1
        <5>2. i * d <= k * d /\ (i - 1) * d \in Nat /\ i * d \in Nat
          BY <5>1, Multiples
        <5>3. ((i - 1) + 1) * d = (i - 1) * d + d
          BY <5>1, Multiples
        <5>4. (i - 1) * d + j \in 1..x
          <6> DEFINE u == (i - 1) * d
                     v == i * d
          <6>1. u \in Nat /\ v \in Nat /\ v = u + d /\ v <= x
            BY <5>1, <5>2, <5>3 DEF x
          <6> HIDE DEF u, v
          <6>2. u + j \in 1..x
            BY <3>4, <6>1
          <6> QED BY <6>2 DEF u
        <5>5. e[(i - 1) * d + j] = p[(i - 1) * d + j]
          <6>1. (i - 1) * d + j \in 1..x + d /\ (i - 1) * d + j <= x
            BY <3>4, <5>4
          <6> QED BY <3>6, <6>1
        <5> QED BY <3>5, <5>1, <5>5
      <4>2. CASE ~(i <= k)
        <5>1. i = k + 1 /\ i - 1 = k
          BY <3>1, <4>2
        <5>2. (i - 1) * d + j = x + j
          BY <5>1 DEF x
        <5>3. x + j \in 1..x + d /\ ~(x + j <= x) /\ (x + j) - x = j
          BY <3>4
        <5>4. e[x + j] = q[j]
          BY <3>6, <5>3
        <5> QED BY <5>1, <5>2, <5>4
      <4> QED BY <4>1, <4>2
    <3>8. Placed(e, k + 1)
      BY <3>4, <3>6, <3>7
    <3> HIDE DEF Placed
    <3> QED BY <3>1, <3>8 DEF e
  <2> HIDE DEF placed
  <2>4. m - 1 \in Nat /\ (m - 1) + 1 = m /\ m - 1 < m
    BY <1>3
  <2>5. m - 1 \in placed
    BY <2>2, <2>3, <2>4, AllNaturals
  <2>6. Placed(f[m], m)
    <3> HIDE DEF Placed
    <3> QED BY <2>4, <2>5 DEF placed
  <2> QED BY <2>1, <2>6
<1> QED BY <1>2, <1>3

\* A certificate of which the storage root is resolved, and its bytes.
LEMMA CodeIs ==
  ASSUME NEW c, Resolvable(c), NEW e, e = EncodeCertificate(c).value
  PROVE  /\ EncodeCertificate(c) = Ok(e) /\ DecodeCertificate(e) = Ok(c)
         /\ e \in Seq(Byte) /\ Len(e) = CERTIFICATE_ENCODED_LEN /\ e # << >>
         /\ \A k \in 1..ADDRESS_LEN : c.address[k] = e[k]
<1>1. PICK d \in Fixed(CERTIFICATE_ENCODED_LEN) :
        EncodeCertificate(c) = Ok(d) /\ DecodeCertificate(d) = Ok(c)
  BY CertificateDecoded
<1>2. d = e
  BY <1>1, ResultIs
<1>3. CERTIFICATE_ENCODED_LEN \in Nat /\ ADDRESS_LEN \in Nat \ {0}
      /\ ADDRESS_LEN <= CERTIFICATE_ENCODED_LEN
  BY LengthsAre DEF CERTIFICATE_ENCODED_LEN
<1>4. e \in Seq(Byte) /\ Len(e) = CERTIFICATE_ENCODED_LEN
  BY <1>1, <1>2, <1>3, FixedIs
<1>5. e # << >>
  <2>1. Len(<< >>) = 0
    OBVIOUS
  <2>2. Len(e) # 0
    BY <1>3, <1>4
  <2> QED BY <2>1, <2>2
<1>6. c.address = Slice(e, 0, ADDRESS_LEN)
  <2> DEFINE a == ADDRESS_LEN
             g == 2 * a + U32_LEN
             n == g + WORD_LEN
             b == n + U64_LEN
             v == [address    |-> Slice(e, 0, a),
                   generation |-> [key |-> [address       |-> Slice(e, a, 2 * a),
                                            generation_id |-> read_le(Slice(e, 2 * a, g))],
                                   state_table_proof_root |-> Slice(e, g, n)],
                   nonce      |-> read_le(Slice(e, n, b)),
                   balance    |-> Slice(e, b, b + WORD_LEN),
                   code_hash  |-> Slice(e, b + WORD_LEN, b + 2 * WORD_LEN),
                   storage_root |-> <<Slice(e, b + 2 * WORD_LEN, b + 3 * WORD_LEN)>>]
  <2>1. DecodeCertificate(e) = Ok(v)
    BY <1>4 DEF DecodeCertificate
  <2>2. v.address = Slice(e, 0, ADDRESS_LEN)
    OBVIOUS
  <2> HIDE DEF v
  <2>3. Ok(v) = Ok(c)
    BY <1>1, <1>2, <2>1
  <2>4. v = c
    <3>1. Ok(v).value = v /\ Ok(c).value = c
      BY ResultIs
    <3> QED BY <2>3, <3>1
  <2> QED BY <2>2, <2>4
<1>7. \A k \in 1..ADDRESS_LEN : Slice(e, 0, ADDRESS_LEN)[k] = e[k]
  <2>1. 0 \in Nat /\ ADDRESS_LEN \in 0..Len(e) /\ ADDRESS_LEN - 0 = ADDRESS_LEN
        /\ \A k \in 1..ADDRESS_LEN : 0 + k = k
    BY <1>3, <1>4
  <2> QED BY <1>4, <2>1, SliceIs
<1> QED BY <1>1, <1>2, <1>4, <1>5, <1>6, <1>7

\* A byte lies at one place of the chunks, whatever the bytes.
LEMMA ByteIs ==
  ASSUME NEW l \in Nat, NEW k \in 1..l
  PROVE  \E i \in 1..Chunks(l) : \E j \in 1..WORD_LEN :
           \A b \in Seq(Byte) : Len(b) = l => chunkify(b)[i][j] = b[k]
<1> DEFINE n == Chunks(l)
<1>1. n \in Nat \ {0} /\ l <= n * WORD_LEN /\ n * WORD_LEN \in Nat
  <2>1. n \in Nat \ {0} /\ l <= n * WORD_LEN
    BY ChunksAre
  <2> QED BY <2>1, LengthsAre
<1> HIDE DEF n
<1>2. k \in Nat \ {0} /\ k <= n * WORD_LEN
  BY <1>1
<1>3. PICK i \in 1..n : \E j \in 1..WORD_LEN : k = (i - 1) * WORD_LEN + j
  BY <1>1, <1>2, PlaceIs
<1>4. PICK j \in 1..WORD_LEN : k = (i - 1) * WORD_LEN + j
  BY <1>3
<1>5. ASSUME NEW b \in Seq(Byte), Len(b) = l PROVE chunkify(b)[i][j] = b[k]
  <2> DEFINE c == chunkify(b)
  <2>1. b # << >>
    <3>1. Len(<< >>) = 0 /\ l # 0
      OBVIOUS
    <3> QED BY <1>5, <3>1
  <2>2. /\ Len(c) = n
        /\ \A x \in Nat \ {0} :
             Leaf(c, x) = [y \in 1..WORD_LEN |-> Stream(b, (x - 1) * WORD_LEN + y)]
    BY <1>5, <2>1, LeafIs DEF n
  <2> HIDE DEF c
  <2>3. i \in Nat \ {0} /\ i <= Len(c)
    BY <1>1, <2>2
  <2>4. c[i] = [y \in 1..WORD_LEN |-> Stream(b, (i - 1) * WORD_LEN + y)]
    BY <2>2, <2>3 DEF Leaf
  <2>5. c[i][j] = Stream(b, k)
    BY <1>4, <2>4
  <2>6. Stream(b, k) = b[k]
    BY <1>5 DEF Stream
  <2> QED BY <2>5, <2>6 DEF c
<1> QED BY <1>5 DEF n

\* The order of the addresses in a batch.
AddressOrder(S) == {w \in S \X S : AddressLess(w[1], w[2])}

LEMMA FirstDifference ==
  ASSUME NEW n \in Nat, NEW a, NEW b, NEW i \in 1..n, a[i] # b[i]
  PROVE  \E k \in 1..n : a[k] # b[k] /\ \A j \in 1..k - 1 : a[j] = b[j]
<1> DEFINE same == {k \in Nat : \A j \in 1..n : j <= k => a[j] = b[j]}
<1>1. SUFFICES ASSUME \A k \in 1..n : (\A j \in 1..k - 1 : a[j] = b[j]) => a[k] = b[k]
               PROVE  FALSE
  OBVIOUS
<1>2. 0 \in same
  OBVIOUS
<1>3. ASSUME NEW k \in Nat, k \in same PROVE k + 1 \in same
  <2>1. ASSUME k + 1 \in 1..n PROVE a[k + 1] = b[k + 1]
    <3>1. \A j \in 1..(k + 1) - 1 : j \in 1..n /\ j <= k
      BY <2>1
    <3>2. \A j \in 1..(k + 1) - 1 : a[j] = b[j]
      BY <1>3, <3>1
    <3> QED BY <1>1, <2>1, <3>2
  <2>2. \A j \in 1..n : j <= k + 1 => j <= k \/ j = k + 1
    OBVIOUS
  <2> QED BY <1>3, <2>1, <2>2
<1> HIDE DEF same
<1>4. n \in same
  BY <1>2, <1>3, AllNaturals
<1> QED BY <1>4 DEF same

LEMMA AddressesOrdered ==
  ASSUME NEW S, S \subseteq Fixed(ADDRESS_LEN)
  PROVE  Orders(AddressOrder(S), S)
<1> DEFINE n == ADDRESS_LEN
<1>1. n \in Nat
  BY LengthsAre
<1>2. \A x \in S : DOMAIN x = 1..n /\ x = [i \in 1..n |-> x[i]] /\ \A i \in 1..n : x[i] \in Nat
  <2>1. \A y \in Byte : y \in Nat
    BY LengthsAre DEF Byte
  <2> QED BY <2>1 DEF Fixed
<1> HIDE DEF n
<1>3. \A x, y \in S : AddressLess(x, y) <=>
        \E i \in 1..n : x[i] < y[i] /\ \A j \in 1..i - 1 : x[j] = y[j]
  BY <1>2 DEF AddressLess
<1>4. ASSUME NEW x \in S, AddressLess(x, x) PROVE FALSE
  <2>1. PICK i \in 1..n : x[i] < x[i]
    BY <1>3, <1>4
  <2>2. x[i] \in Nat
    BY <1>2
  <2> QED BY <2>1, <2>2
<1>5. ASSUME NEW x \in S, NEW y \in S, NEW z \in S, AddressLess(x, y), AddressLess(y, z)
      PROVE  AddressLess(x, z)
  <2>1. PICK i \in 1..n : x[i] < y[i] /\ \A j \in 1..i - 1 : x[j] = y[j]
    BY <1>3, <1>5
  <2>2. PICK k \in 1..n : y[k] < z[k] /\ \A j \in 1..k - 1 : y[j] = z[j]
    BY <1>3, <1>5
  <2>3. CASE i < k
    <3>1. i \in 1..k - 1 /\ \A j \in 1..i - 1 : j \in 1..k - 1
      BY <1>1, <2>3
    <3>2. x[i] < z[i] /\ \A j \in 1..i - 1 : x[j] = z[j]
      BY <2>1, <2>2, <3>1
    <3> QED BY <1>3, <3>2
  <2>4. CASE k < i
    <3>1. k \in 1..i - 1 /\ \A j \in 1..k - 1 : j \in 1..i - 1
      BY <1>1, <2>4
    <3>2. x[k] < z[k] /\ \A j \in 1..k - 1 : x[j] = z[j]
      BY <2>1, <2>2, <3>1
    <3> QED BY <1>3, <3>2
  <2>5. CASE i = k
    <3>1. x[i] < z[i]
      <4>1. x[i] \in Nat /\ y[i] \in Nat /\ z[i] \in Nat
        BY <1>2
      <4> QED BY <2>1, <2>2, <2>5, <4>1
    <3>2. \A j \in 1..i - 1 : x[j] = z[j]
      BY <2>1, <2>2, <2>5
    <3> QED BY <1>3, <3>1, <3>2
  <2> QED BY <1>1, <2>3, <2>4, <2>5
<1>6. ASSUME NEW x \in S, NEW y \in S, x # y PROVE AddressLess(x, y) \/ AddressLess(y, x)
  <2>1. PICK i \in 1..n : x[i] # y[i]
    BY <1>2, <1>6
  <2>2. PICK k \in 1..n : x[k] # y[k] /\ \A j \in 1..k - 1 : x[j] = y[j]
    BY <1>1, <2>1, FirstDifference
  <2>3. x[k] < y[k] \/ y[k] < x[k]
    <3>1. x[k] \in Nat /\ y[k] \in Nat
      BY <1>2
    <3> QED BY <2>2, <3>1
  <2>4. \A j \in 1..k - 1 : y[j] = x[j]
    BY <2>2
  <2> QED BY <1>3, <2>2, <2>3, <2>4
<1>7. \A x, y \in S : <<x, y>> \in AddressOrder(S) <=> AddressLess(x, y)
  BY DEF AddressOrder
<1> QED BY <1>4, <1>5, <1>6, <1>7 DEF Orders

\* A BTreeMap lists its addresses in ascending order.
LEMMA AddressesListed ==
  ASSUME NEW S, S \subseteq Fixed(ADDRESS_LEN), IsFiniteSet(S), NEW p, p = Listed(S, AddressLess)
  PROVE  /\ Cardinality(S) \in Nat /\ DOMAIN p = 1..Cardinality(S)
         /\ InOrder(p, AddressOrder(S), S, Cardinality(S))
<1> DEFINE R == AddressOrder(S)
<1>1. PICK n \in Nat : n = Cardinality(S)
  BY FS_CardinalityType
<1>2. \A x, y \in S : <<x, y>> \in R <=> AddressLess(x, y)
  BY DEF AddressOrder
<1>3. Orders(R, S)
  BY AddressesOrdered
<1>4. \A x \in S : Before(R, S, x) = {y \in S : AddressLess(y, x)}
  BY <1>2 DEF Before
<1>5. p = [r \in 1..n |-> CHOOSE x \in S : Cardinality({y \in S : AddressLess(y, x)}) = r - 1]
  BY <1>1 DEF Listed
<1> HIDE DEF R
<1>6. \A r \in 1..n : p[r] \in S /\ Cardinality(Before(R, S, p[r])) = r - 1
  <2> TAKE r \in 1..n
  <2>1. PICK x \in S : Cardinality(Before(R, S, x)) = r - 1
    BY <1>1, <1>3, Ranks
  <2>2. Cardinality({y \in S : AddressLess(y, x)}) = r - 1
    BY <1>4, <2>1
  <2>3. p[r] \in S /\ Cardinality({y \in S : AddressLess(y, p[r])}) = r - 1
    BY <1>5, <2>2
  <2> QED BY <1>4, <2>3
<1>7. Ranked(p, R, S, n) /\ DOMAIN p = 1..n
  <2>1. p = [r \in 1..n |-> p[r]]
    BY <1>5
  <2> QED BY <1>6, <2>1 DEF Ranked
<1> QED BY <1>1, <1>3, <1>7, RankedIs DEF R

\* f maps finitely many addresses to the certificates of their accounts.
Batch(f) ==
  /\ f = [a \in DOMAIN f |-> f[a]] /\ IsFiniteSet(DOMAIN f)
  /\ DOMAIN f \subseteq Fixed(ADDRESS_LEN)
  /\ \A a \in DOMAIN f : f[a] \in CanonicalAccountCertificate /\ f[a].address = a

LEMMA BatchIs ==
  ASSUME NEW f \in Batches
  PROVE  Batch(f)
<1>1. PICK S : /\ S \in SUBSET {c.address : c \in Certificates} /\ IsFiniteSet(S)
               /\ f \in [S -> Certificates]
               /\ \A a \in S : f[a] \in {c \in Certificates : c.address = a}
  BY DEF Batches
<1>2. DOMAIN f = S /\ f = [a \in S |-> f[a]]
  BY <1>1
<1>3. \A c \in Certificates : c \in CanonicalAccountCertificate /\ c.address \in Fixed(ADDRESS_LEN)
  BY ConstantsAre DEF CanonicalAccountCertificate
<1>4. S \subseteq Fixed(ADDRESS_LEN)
  BY <1>1, <1>3
<1>5. \A a \in S : f[a] \in CanonicalAccountCertificate /\ f[a].address = a
  BY <1>1, <1>3
<1> QED BY <1>1, <1>2, <1>4, <1>5 DEF Batch

\* The number of chunks of a certificate.
CertificateChunks == Chunks(CERTIFICATE_ENCODED_LEN)

LEMMA CertificateChunksAre ==
  CertificateChunks \in Nat /\ CertificateChunks > 1
<1> DEFINE w == WORD_LEN
           l == CERTIFICATE_ENCODED_LEN
           n == Chunks(l)
<1>1. w \in Nat \ {0} /\ l \in Nat \ {0} /\ l > w
  BY LengthsAre DEF CERTIFICATE_ENCODED_LEN
<1>2. n \in Nat \ {0} /\ l <= n * w
  BY <1>1, ChunksAre
<1> HIDE DEF n, w, l
<1>3. n # 1
  <2>1. n = 1 => n * w = w
    BY <1>1
  <2> QED BY <1>1, <1>2, <2>1
<1> QED BY <1>2, <1>3 DEF n, l, CertificateChunks

AllResolved(f) == \A a \in DOMAIN f : f[a].storage_root # << >>

\* The chunks c of a batch f of n certificates that is listed by p.
Chunked(c, f, p, n) ==
  /\ n \in Nat /\ InOrder(p, AddressOrder(DOMAIN f), DOMAIN f, n)
  /\ c \in Seq(Fixed(WORD_LEN)) /\ Len(c) = n * CertificateChunks
  /\ \A i \in 1..n, j \in 1..CertificateChunks :
       c[(i - 1) * CertificateChunks + j] = chunkify(EncodeCertificate(f[p[i]]).value)[j]

LEMMA CommitIs ==
  ASSUME NEW f, Batch(f), NEW r, r = commit_certificate_batch(f)
  PROVE  /\ r.ok \in BOOLEAN /\ r.ok <=> AllResolved(f)
         /\ r.ok => \E p, n, c : Chunked(c, f, p, n) /\ r = Ok(merkleize(c))
<1> DEFINE S == DOMAIN f
           p == Listed(S, AddressLess)
           n == Cardinality(S)
           code(i) == EncodeCertificate(f[p[i]])
           s == [i \in DOMAIN p |-> chunkify(code(i).value)]
           c == FlattenSeq(s)
           K == CertificateChunks
<1>1. /\ n \in Nat /\ DOMAIN p = 1..n
      /\ InOrder(p, AddressOrder(S), S, n)
  BY AddressesListed DEF Batch
<1>2. r = IF \E i \in DOMAIN p : ~code(i).ok THEN Err("UnresolvedStorageRoot") ELSE Ok(merkleize(c))
  BY DEF commit_certificate_batch
<1> HIDE DEF p, n, s, c
<1>3. (\A i \in 1..n : p[i] \in S) /\ \A a \in S : \E i \in 1..n : p[i] = a
  BY <1>1 DEF InOrder
<1>4. \A i \in 1..n : code(i).ok <=> f[p[i]].storage_root # << >>
  BY <1>3, CertificateFails DEF Batch
<1>5. (\E i \in DOMAIN p : ~code(i).ok) <=> ~AllResolved(f)
  BY <1>1, <1>3, <1>4 DEF AllResolved
<1>6. CASE ~AllResolved(f)
  <2>1. r = Err("UnresolvedStorageRoot")
    BY <1>2, <1>5, <1>6
  <2>2. r.ok = FALSE
    BY <2>1, ResultIs
  <2> QED BY <1>6, <2>2
<1>7. CASE AllResolved(f)
  <2>1. r = Ok(merkleize(c))
    BY <1>2, <1>5, <1>7
  <2>2. r.ok = TRUE
    BY <2>1, ResultIs
  <2>3. s \in [1..n -> Seq(Fixed(WORD_LEN))] /\ \A i \in 1..n : Len(s[i]) = K
    <3>1. ASSUME NEW i \in 1..n
          PROVE  chunkify(code(i).value) \in Seq(Fixed(WORD_LEN)) /\ Len(chunkify(code(i).value)) = K
      <4> DEFINE e == code(i).value
      <4>1. Resolvable(f[p[i]])
        BY <1>3, <1>7 DEF AllResolved, Resolvable, Batch
      <4>2. e \in Seq(Byte) /\ Len(e) = CERTIFICATE_ENCODED_LEN /\ e # << >>
        BY <4>1, CodeIs
      <4> HIDE DEF e
      <4>3. Len(chunkify(e)) = K /\ chunkify(e) \in [1..K -> Fixed(WORD_LEN)]
        BY <4>2, LeafIs DEF CertificateChunks
      <4>4. K \in Nat
        BY CertificateChunksAre
      <4> QED BY <4>3, <4>4 DEF e
    <3>2. s = [i \in 1..n |-> chunkify(code(i).value)]
      BY <1>1 DEF s
    <3> QED BY <3>1, <3>2
  <2>4. K \in Nat
    BY CertificateChunksAre
  <2>5. /\ c \in Seq(Fixed(WORD_LEN)) /\ Len(c) = n * K
        /\ \A i \in 1..n, j \in 1..K : c[(i - 1) * K + j] = s[i][j]
    BY <1>1, <2>3, <2>4, FlattenPlaces DEF c
  <2>6. \A i \in 1..n : s[i] = chunkify(code(i).value)
    BY <1>1 DEF s
  <2>7. Chunked(c, f, p, n)
    BY <1>1, <2>5, <2>6 DEF Chunked
  <2> QED BY <1>7, <2>1, <2>2, <2>7
<1> QED BY <1>6, <1>7

\* Trees with the same root have the same leaves, and the same zeros behind them.
LEMMA SameLeaves ==
  ASSUME NEW c \in Seq(Fixed(WORD_LEN)), NEW d \in Seq(Fixed(WORD_LEN)),
         merkleize(c) = merkleize(d)
  PROVE  /\ Height(c) = Height(d)
         /\ \A i \in Nat \ {0} : Leaf(c, i) = Leaf(d, i)
<1>1. \A b \in Seq(Fixed(WORD_LEN)) :
        /\ Height(b) \in Nat /\ Len(b) \in Nat /\ Len(b) <= Width[Height(b)]
        /\ Leaf(b, 1) \in Fixed(WORD_LEN)
  <2> TAKE b \in Seq(Fixed(WORD_LEN))
  <2> DEFINE l == IF b = << >> THEN 1 ELSE Len(b)
  <2>1. l \in Nat /\ Len(b) \in Nat /\ Len(b) <= l
    OBVIOUS
  <2>2. Height(b) = HeightOf(l)
    BY DEF Height
  <2> HIDE DEF l
  <2>3. Height(b) \in Nat /\ l <= Width[Height(b)]
    BY <2>1, <2>2, HeightIs
  <2>4. Width[Height(b)] \in Nat
    BY <2>3, WidthIs
  <2>5. Leaf(b, 1) \in Fixed(WORD_LEN)
    <3>1. 1 <= Len(b) => b[1] \in Fixed(WORD_LEN)
      OBVIOUS
    <3>2. Zeros(WORD_LEN) \in Fixed(WORD_LEN)
      BY LengthsAre, ZerosJoin
    <3> QED BY <3>1, <3>2 DEF Leaf
  <2> QED BY <2>1, <2>3, <2>4, <2>5
<1>2. Height(c) = Height(d) /\ \A i \in 1..Width[Height(c)] : Leaf(c, i) = Leaf(d, i)
  BY <1>1, MerkleBinds
<1>3. ASSUME NEW i \in Nat \ {0} PROVE Leaf(c, i) = Leaf(d, i)
  <2> DEFINE w == Width[Height(c)]
  <2>1. w \in Nat /\ Len(c) \in Nat /\ Len(d) \in Nat /\ Len(c) <= w /\ Len(d) <= w
    BY <1>1, <1>2, WidthIs
  <2>2. \A k \in 1..w : Leaf(c, k) = Leaf(d, k)
    BY <1>2
  <2> HIDE DEF w
  <2>3. CASE i <= w
    <3>1. i \in 1..w
      BY <2>1, <2>3
    <3> QED BY <2>2, <3>1
  <2>4. CASE ~(i <= w)
    <3>1. ~(i <= Len(c)) /\ ~(i <= Len(d))
      BY <2>1, <2>4
    <3> QED BY <3>1 DEF Leaf
  <2> QED BY <2>3, <2>4
<1> QED BY <1>2, <1>3

\* The bytes of the certificate at place i of a batch, and where they are.
LEMMA CodeAt ==
  ASSUME NEW f, Batch(f), AllResolved(f), NEW c, NEW p, NEW n, Chunked(c, f, p, n),
         NEW i \in 1..n, NEW e, e = EncodeCertificate(f[p[i]]).value
  PROVE  /\ p[i] \in DOMAIN f /\ f[p[i]].address = p[i]
         /\ DecodeCertificate(e) = Ok(f[p[i]])
         /\ e \in Seq(Byte) /\ Len(e) = CERTIFICATE_ENCODED_LEN
         /\ \A k \in 1..ADDRESS_LEN : p[i][k] = e[k]
         /\ \A j \in 1..CertificateChunks :
              /\ (i - 1) * CertificateChunks + j \in Nat \ {0}
              /\ Leaf(c, (i - 1) * CertificateChunks + j) = chunkify(e)[j]
<1> DEFINE K == CertificateChunks
           s == (i - 1) * K
           t == i * K
           z == n * K
<1>1. /\ n \in Nat /\ InOrder(p, AddressOrder(DOMAIN f), DOMAIN f, n) /\ Len(c) = z
      /\ \A j \in 1..K : c[s + j] = chunkify(e)[j]
  BY DEF Chunked
<1>2. p[i] \in DOMAIN f
  BY <1>1 DEF InOrder
<1>3. f[p[i]].address = p[i] /\ Resolvable(f[p[i]])
  BY <1>2 DEF Batch, AllResolved, Resolvable
<1>4. /\ DecodeCertificate(e) = Ok(f[p[i]]) /\ e \in Seq(Byte) /\ Len(e) = CERTIFICATE_ENCODED_LEN
      /\ \A k \in 1..ADDRESS_LEN : p[i][k] = e[k]
  BY <1>3, CodeIs
<1>5. s \in Nat /\ t \in Nat /\ z \in Nat /\ t = s + K /\ t <= z /\ K \in Nat
  <2>1. K \in Nat /\ i - 1 \in Nat /\ i \in Nat /\ (i - 1) + 1 = i /\ i <= n /\ i - 1 <= i
    BY <1>1, CertificateChunksAre
  <2> HIDE DEF K
  <2>2. t \in Nat /\ z \in Nat /\ t <= z
    BY <1>1, <2>1, Multiples
  <2>3. s \in Nat /\ ((i - 1) + 1) * K = s + K
    BY <2>1, Multiples
  <2> QED BY <2>1, <2>2, <2>3
<1> HIDE DEF s, t, z, K
<1>6. ASSUME NEW j \in 1..K PROVE s + j \in Nat \ {0} /\ Leaf(c, s + j) = chunkify(e)[j]
  <2>1. s + j \in Nat \ {0} /\ s + j <= z
    BY <1>5
  <2> QED BY <1>1, <2>1 DEF Leaf
<1> QED BY <1>2, <1>3, <1>4, <1>6 DEF s, K

LEMMA PlacesAgree ==
  ASSUME NEW f, Batch(f), AllResolved(f), NEW c, NEW p, NEW m, Chunked(c, f, p, m),
         NEW g, Batch(g), AllResolved(g), NEW d, NEW q, NEW n, Chunked(d, g, q, n),
         \A i \in Nat \ {0} : Leaf(c, i) = Leaf(d, i), NEW i, i \in 1..m, i \in 1..n
  PROVE  p[i] = q[i] /\ f[p[i]] = g[q[i]]
<1> DEFINE a == EncodeCertificate(f[p[i]]).value
           b == EncodeCertificate(g[q[i]]).value
           l == CERTIFICATE_ENCODED_LEN
           K == CertificateChunks
           x(j) == (i - 1) * K + j
<1>1. /\ f[p[i]].address = p[i] /\ DecodeCertificate(a) = Ok(f[p[i]])
      /\ a \in Seq(Byte) /\ Len(a) = l
      /\ \A j \in 1..K : x(j) \in Nat \ {0} /\ Leaf(c, x(j)) = chunkify(a)[j]
  BY CodeAt
<1>2. /\ g[q[i]].address = q[i] /\ DecodeCertificate(b) = Ok(g[q[i]])
      /\ b \in Seq(Byte) /\ Len(b) = l
      /\ \A j \in 1..K : x(j) \in Nat \ {0} /\ Leaf(d, x(j)) = chunkify(b)[j]
  BY CodeAt
<1> HIDE DEF a, b, l, x
<1>3. \A j \in 1..K : chunkify(a)[j] = chunkify(b)[j]
  BY <1>1, <1>2
<1>4. ASSUME NEW k \in 1..l PROVE a[k] = b[k]
  <2>1. l \in Nat /\ K = Chunks(l)
    BY LengthsAre DEF l, CERTIFICATE_ENCODED_LEN, CertificateChunks
  <2>2. PICK j \in 1..Chunks(l) : \E y \in 1..WORD_LEN :
               \A e \in Seq(Byte) : Len(e) = l => chunkify(e)[j][y] = e[k]
    BY <2>1, ByteIs
  <2>3. PICK y \in 1..WORD_LEN : \A e \in Seq(Byte) : Len(e) = l => chunkify(e)[j][y] = e[k]
    BY <2>2
  <2> HIDE DEF K
  <2>4. chunkify(a)[j] = chunkify(b)[j]
    BY <1>3, <2>1
  <2> QED BY <1>1, <1>2, <2>3, <2>4
<1>5. a = b
  BY <1>1, <1>2, <1>4, SeqEqual
<1>6. f[p[i]] = g[q[i]]
  <2>1. Ok(f[p[i]]) = Ok(g[q[i]])
    BY <1>1, <1>2, <1>5
  <2> DEFINE u == f[p[i]]
             v == g[q[i]]
  <2>2. Ok(u) = Ok(v)
    BY <2>1
  <2> HIDE DEF u, v
  <2>3. Ok(u).value = u /\ Ok(v).value = v
    BY ResultIs
  <2>4. u = v
    BY <2>2, <2>3
  <2> QED BY <2>4 DEF u, v
<1> QED BY <1>1, <1>2, <1>6

\* A batch does not have a certificate more: it would be all zeros, and its
\* address would not come after another one.
LEMMA NoneMore ==
  ASSUME NEW f, Batch(f), AllResolved(f), NEW c, NEW p, NEW m, Chunked(c, f, p, m),
         NEW g, Batch(g), AllResolved(g), NEW d, NEW q, NEW n, Chunked(d, g, q, n),
         merkleize(c) = merkleize(d)
  PROVE  n <= m
<1> SUFFICES ASSUME ~(n <= m) PROVE FALSE
  OBVIOUS
<1> DEFINE K == CertificateChunks
           y == m * K
           z == n * K
<1>1. /\ m \in Nat /\ n \in Nat /\ m < n /\ K \in Nat /\ K > 1 /\ Len(c) = y /\ Len(d) = z
      /\ c \in Seq(Fixed(WORD_LEN)) /\ d \in Seq(Fixed(WORD_LEN))
  BY CertificateChunksAre DEF Chunked
<1>2. Height(c) = Height(d) /\ \A i \in Nat \ {0} : Leaf(c, i) = Leaf(d, i)
  BY <1>1, SameLeaves
<1>3. CASE m = 0
  <2>1. Height(c) = HeightOf(1)
    <3>1. y = 0
      BY <1>1, <1>3
    <3>2. c = << >>
      BY <1>1, <3>1
    <3> QED BY <3>2 DEF Height
  <2>2. z > 1
    <3>1. 1 \in Nat /\ 1 <= n
      BY <1>1, <1>3
    <3> HIDE DEF K
    <3>2. 1 * K <= z /\ z \in Nat
      BY <1>1, <3>1, Multiples
    <3>3. 1 * K = K
      BY <1>1
    <3> QED BY <1>1, <3>2, <3>3
  <2>3. Height(d) = HeightOf(Len(d))
    <3>1. d # << >>
      <4>1. Len(<< >>) = 0 /\ Len(d) # 0
        BY <1>1, <2>2
      <4> QED BY <4>1
    <3> QED BY <3>1 DEF Height
  <2> HIDE DEF z
  <2> DEFINE h == HeightOf(1)
  <2>4. h \in Nat /\ \A k \in Nat : k < h => Width[k] < 1
    BY HeightIs
  <2>5. Len(d) \in Nat /\ Len(d) <= Width[h]
    <3>1. Len(d) \in Nat
      BY <1>1
    <3>2. HeightOf(Len(d)) = h
      BY <1>2, <2>1, <2>3
    <3> HIDE DEF h
    <3> QED BY <3>1, <3>2, HeightIs
  <2> HIDE DEF h
  <2>6. h = 0
    <3>1. Width[0] = 1
      BY WidthIs
    <3>2. 0 < h => 1 < 1
      BY <2>4, <3>1
    <3> QED BY <2>4, <3>2
  <2>7. Width[0] = 1
    BY WidthIs
  <2> QED BY <1>1, <2>2, <2>5, <2>6, <2>7
<1>4. CASE m # 0
  <2> DEFINE i == m + 1
             e == EncodeCertificate(g[q[i]]).value
             l == CERTIFICATE_ENCODED_LEN
  <2>1. 1 \in 1..n /\ i \in 1..n /\ 1 < i /\ i - 1 = m
    BY <1>1, <1>4
  <2>2. /\ q[1] \in DOMAIN g /\ q[i] \in DOMAIN g /\ AddressLess(q[1], q[i])
    <3>1. InOrder(q, AddressOrder(DOMAIN g), DOMAIN g, n)
      BY DEF Chunked
    <3>2. <<q[1], q[i]>> \in AddressOrder(DOMAIN g)
      <4> HIDE DEF i
      <4> QED BY <2>1, <3>1 DEF InOrder
    <3>3. \A v, w : <<v, w>> \in AddressOrder(DOMAIN g) =>
                      v \in DOMAIN g /\ w \in DOMAIN g /\ AddressLess(v, w)
      BY DEF AddressOrder
    <3> QED BY <3>2, <3>3
  <2> HIDE DEF i
  <2>3. /\ e \in Seq(Byte) /\ Len(e) = l
        /\ \A k \in 1..ADDRESS_LEN : q[i][k] = e[k]
        /\ \A j \in 1..K : (i - 1) * K + j \in Nat \ {0} /\ Leaf(d, (i - 1) * K + j) = chunkify(e)[j]
    BY <2>1, CodeAt
  <2>4. ASSUME NEW j \in 1..K PROVE chunkify(e)[j] = Zeros(WORD_LEN)
    <3>1. (i - 1) * K + j = y + j
      BY <2>1
    <3>2. y \in Nat
      BY <1>1
    <3> HIDE DEF y
    <3>3. ~(y + j <= Len(c)) /\ y + j \in Nat \ {0}
      BY <1>1, <3>2
    <3>4. Leaf(c, y + j) = Zeros(WORD_LEN)
      BY <3>3 DEF Leaf
    <3>5. Leaf(d, y + j) = Zeros(WORD_LEN)
      BY <1>2, <3>3, <3>4
    <3>6. Leaf(d, (i - 1) * K + j) = chunkify(e)[j]
      BY <2>3
    <3> QED BY <3>1, <3>5, <3>6
  <2>5. ASSUME NEW k \in 1..ADDRESS_LEN PROVE q[i][k] = 0
    <3>1. l \in Nat /\ K = Chunks(l) /\ k \in 1..l
      BY LengthsAre DEF CERTIFICATE_ENCODED_LEN, CertificateChunks
    <3>2. PICK j \in 1..Chunks(l) : \E x \in 1..WORD_LEN :
                 \A b \in Seq(Byte) : Len(b) = l => chunkify(b)[j][x] = b[k]
      BY <3>1, ByteIs
    <3>3. PICK x \in 1..WORD_LEN : \A b \in Seq(Byte) : Len(b) = l => chunkify(b)[j][x] = b[k]
      BY <3>2
    <3> HIDE DEF K, e, l
    <3>4. chunkify(e)[j] = Zeros(WORD_LEN)
      BY <2>4, <3>1
    <3>5. chunkify(e)[j][x] = e[k]
      BY <2>3, <3>3
    <3>6. Zeros(WORD_LEN)[x] = 0
      BY DEF Zeros
    <3> QED BY <2>3, <3>4, <3>5, <3>6
  <2>6. /\ DOMAIN q[1] = 1..ADDRESS_LEN /\ \A k \in 1..ADDRESS_LEN : q[1][k] \in Nat
    <3>1. q[1] \in Fixed(ADDRESS_LEN)
      BY <2>2 DEF Batch
    <3>2. \A x \in Byte : x \in Nat
      BY LengthsAre DEF Byte
    <3> QED BY <3>1, <3>2 DEF Fixed
  <2>7. PICK k \in 1..ADDRESS_LEN : q[1][k] < q[i][k]
    BY <2>2, <2>6 DEF AddressLess
  <2>8. q[i][k] = 0 /\ q[1][k] \in Nat
    BY <2>5, <2>6
  <2> QED BY <2>7, <2>8
<1> QED BY <1>3, <1>4

LEMMA BatchesBind ==
  ASSUME NEW f, Batch(f), NEW g, Batch(g), NEW r, r = commit_certificate_batch(f), r.ok,
         commit_certificate_batch(g) = r
  PROVE  f = g
<1>1. AllResolved(f) /\ \E p, m, c : Chunked(c, f, p, m) /\ r = Ok(merkleize(c))
  BY CommitIs
<1>2. PICK p, m, c : Chunked(c, f, p, m) /\ r = Ok(merkleize(c))
  BY <1>1
<1>3. AllResolved(g) /\ \E q, n, d : Chunked(d, g, q, n) /\ r = Ok(merkleize(d))
  BY CommitIs
<1>4. PICK q, n, d : Chunked(d, g, q, n) /\ r = Ok(merkleize(d))
  BY <1>3
<1>5. merkleize(c) = merkleize(d)
  <2> DEFINE u == merkleize(c)
             v == merkleize(d)
  <2>1. Ok(u) = Ok(v)
    BY <1>2, <1>4
  <2> HIDE DEF u, v
  <2>2. Ok(u).value = u /\ Ok(v).value = v
    BY ResultIs
  <2>3. u = v
    BY <2>1, <2>2
  <2> QED BY <2>3 DEF u, v
<1>6. m = n /\ m \in Nat
  <2>1. m \in Nat /\ n \in Nat
    BY <1>2, <1>4 DEF Chunked
  <2>2. n <= m
    BY <1>1, <1>2, <1>3, <1>4, <1>5, NoneMore
  <2>3. m <= n
    <3>1. merkleize(d) = merkleize(c)
      BY <1>5
    <3> QED BY <1>1, <1>2, <1>3, <1>4, <3>1, NoneMore
  <2> QED BY <2>1, <2>2, <2>3
<1>7. \A i \in 1..m : p[i] = q[i] /\ f[p[i]] = g[q[i]]
  <2>1. c \in Seq(Fixed(WORD_LEN)) /\ d \in Seq(Fixed(WORD_LEN))
    BY <1>2, <1>4 DEF Chunked
  <2>2. \A i \in Nat \ {0} : Leaf(c, i) = Leaf(d, i)
    BY <1>5, <2>1, SameLeaves
  <2> QED BY <1>1, <1>2, <1>3, <1>4, <1>6, <2>2, PlacesAgree
<1>8. /\ \A i \in 1..m : p[i] \in DOMAIN f /\ q[i] \in DOMAIN g
      /\ \A a \in DOMAIN f : \E i \in 1..m : p[i] = a
      /\ \A a \in DOMAIN g : \E i \in 1..m : q[i] = a
  BY <1>2, <1>4, <1>6 DEF Chunked, InOrder
<1>9. DOMAIN f = DOMAIN g /\ \A a \in DOMAIN f : f[a] = g[a]
  BY <1>7, <1>8
<1> QED BY <1>9 DEF Batch

\* A certificate's commitment tells its bytes.
LEMMA CommitRootIs ==
  ASSUME NEW c \in CanonicalAccountCertificate
  PROVE  /\ commit_root(c).ok \in BOOLEAN /\ commit_root(c).ok <=> EncodeCertificate(c).ok
         /\ EncodeCertificate(c).ok =>
              commit_root(c) = Ok(<<"LifeCert", EncodeCertificate(c).value>>)
<1>1. EncodeCertificate(c).ok \in BOOLEAN
  BY CertificateFails
<1>2. CASE EncodeCertificate(c).ok
  <2> DEFINE v == <<"LifeCert", EncodeCertificate(c).value>>
  <2>1. commit_root(c) = Ok(v)
    BY <1>2 DEF commit_root, derive_commitment
  <2> HIDE DEF v
  <2>2. commit_root(c).ok = TRUE
    BY <2>1, ResultIs
  <2> QED BY <1>2, <2>1, <2>2 DEF v
<1>3. CASE ~EncodeCertificate(c).ok
  <2>1. commit_root(c) = EncodeCertificate(c)
    BY <1>3 DEF commit_root
  <2> QED BY <1>1, <1>3, <2>1
<1> QED BY <1>2, <1>3

LEMMA BindHolds ==
  ASSUME BytesInvariant
  PROVE  CommitmentsBind
<1>1. verify_envelope_integrity(bytes, derive_commitment("Gate2Replay", encoded.value))
        <=> bytes = encoded.value
  BY DEF verify_envelope_integrity, derive_commitment
<1>2. ASSUME object.kind = "certificate", NEW c \in Certificates
      PROVE  /\ commit_root(c).ok <=> EncodeCertificate(c).ok
             /\ commit_root(c).ok =>
                  (commit_root(object.value) = commit_root(c) <=> object.value = c)
  <2> DEFINE x == object.value
  <2>1. c \in CanonicalAccountCertificate /\ x \in CanonicalAccountCertificate
    BY <1>2, ConstantsAre DEF BytesInvariant
  <2> HIDE DEF x
  <2>2. ASSUME commit_root(c).ok, commit_root(x) = commit_root(c) PROVE x = c
    <3>1. EncodeCertificate(c).ok /\ EncodeCertificate(x).ok
      BY <2>1, <2>2, CommitRootIs
    <3>2. Resolvable(c) /\ Resolvable(x)
      BY <2>1, <3>1, CertificateFails DEF Resolvable
    <3> DEFINE a == EncodeCertificate(c).value
               b == EncodeCertificate(x).value
    <3>3. DecodeCertificate(a) = Ok(c) /\ DecodeCertificate(b) = Ok(x)
      BY <3>2, CodeIs
    <3>4. commit_root(c) = Ok(<<"LifeCert", a>>) /\ commit_root(x) = Ok(<<"LifeCert", b>>)
      BY <2>1, <3>1, CommitRootIs
    <3> HIDE DEF a, b
    <3>5. <<"LifeCert", a>> = <<"LifeCert", b>>
      <4> DEFINE u == <<"LifeCert", a>>
                 v == <<"LifeCert", b>>
      <4>1. Ok(u) = Ok(v)
        BY <2>2, <3>4
      <4> HIDE DEF u, v
      <4>2. Ok(u).value = u /\ Ok(v).value = v
        BY ResultIs
      <4>3. u = v
        BY <4>1, <4>2
      <4> QED BY <4>3 DEF u, v
    <3>6. a = b
      BY <3>5
    <3>7. Ok(c) = Ok(x)
      BY <3>3, <3>6
    <3>8. Ok(c).value = c /\ Ok(x).value = x
      BY ResultIs
    <3> QED BY <3>7, <3>8
  <2>3. x = c => commit_root(x) = commit_root(c)
    OBVIOUS
  <2> QED BY <2>1, <2>2, <2>3, CommitRootIs DEF x
<1>3. ASSUME object.kind = "batch"
      PROVE  LET root == commit_certificate_batch(object.value) IN
             /\ root.ok <=> \A a \in DOMAIN object.value : object.value[a].storage_root # << >>
             /\ root.ok => \A other \in Batches :
                             commit_certificate_batch(other) = root => other = object.value
  <2>1. Batch(object.value)
    BY <1>3, BatchIs DEF BytesInvariant
  <2>2. commit_certificate_batch(object.value).ok <=> AllResolved(object.value)
    BY <2>1, CommitIs
  <2>3. ASSUME commit_certificate_batch(object.value).ok, NEW other \in Batches,
               commit_certificate_batch(other) = commit_certificate_batch(object.value)
        PROVE  other = object.value
    <3>1. Batch(other)
      BY BatchIs
    <3> QED BY <2>1, <2>3, <3>1, BatchesBind
  <2> QED BY <2>2, <2>3 DEF AllResolved
<1> QED BY <1>1, <1>2, <1>3 DEF CommitmentsBind

\* A commitment is good for one thing: for the bytes of an envelope, for a
\* certificate, for a batch of certificates however many they are (certificate.rs,
\* commit_certificate_batch).
THEOREM CommitmentsAreBinding == BytesSpec => []CommitmentsBind
<1>1. BytesInvariant => CommitmentsBind
  BY BindHolds
<1> QED BY <1>1, BytesInvariantHolds, PTL

==============================================================================
